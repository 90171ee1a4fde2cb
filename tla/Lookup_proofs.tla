---------------------------- MODULE Lookup_proofs ----------------------------
(***************************************************************************)
(* Proofs about Lookup, for any namespace, liars, walkers and limits: the  *)
(* types, that walks only go down, that nobody is deceived, that without a *)
(* loss a name that does not lead too deep is resolved, and that each step *)
(* leaves less to do.                                                      *)
(***************************************************************************)
EXTENDS Lookup, Recursion, SequenceTheorems, FiniteSetTheorems, TLAPS

-----------------------------------------------------------------------------
(* Names *)

LEMMA Itself ==
  ASSUME NEW a \in Names
  PROVE  IsSubdomain(a, a)
BY WorldAssumption DEF IsSubdomain

LEMMA Above ==
  ASSUME NEW a \in Names, NEW b \in Names, NEW c \in Names,
         IsSubdomain(a, b), IsSubdomain(b, c)
  PROVE  IsSubdomain(a, c)
<1> USE WorldAssumption
<1>1. Len(a) \in Nat /\ Len(b) \in Nat /\ Len(c) \in Nat
  OBVIOUS
<1>2. Len(c) <= Len(b) /\ Len(b) <= Len(a)
  BY DEF IsSubdomain
<1>3. ASSUME NEW i \in 1 .. Len(c)
      PROVE  a[Len(a) - Len(c) + i] = c[i]
  <2> DEFINE j == Len(b) - Len(c) + i
  <2>1. j \in 1 .. Len(b) /\ Len(a) - Len(b) + j = Len(a) - Len(c) + i
    BY <1>1, <1>2
  <2>2. b[j] = c[i]
    BY DEF IsSubdomain
  <2>3. a[Len(a) - Len(b) + j] = b[j]
    BY <2>1 DEF IsSubdomain
  <2> QED BY <2>1, <2>2, <2>3
<1> QED BY <1>1, <1>2, <1>3 DEF IsSubdomain

LEMMA Comparable ==
  ASSUME NEW n \in Names, NEW a \in Names, NEW b \in Names,
         IsSubdomain(n, a), IsSubdomain(n, b), Len(b) <= Len(a)
  PROVE  IsSubdomain(a, b)
<1> USE WorldAssumption
<1>1. Len(n) \in Nat /\ Len(a) \in Nat /\ Len(b) \in Nat /\ Len(a) <= Len(n)
  BY DEF IsSubdomain
<1>2. ASSUME NEW i \in 1 .. Len(b)
      PROVE  a[Len(a) - Len(b) + i] = b[i]
  <2> DEFINE j == Len(a) - Len(b) + i
  <2>1. j \in 1 .. Len(a) /\ Len(n) - Len(a) + j = Len(n) - Len(b) + i
    BY <1>1
  <2>2. n[Len(n) - Len(b) + i] = b[i]
    BY DEF IsSubdomain
  <2>3. n[Len(n) - Len(a) + j] = a[j]
    BY <2>1 DEF IsSubdomain
  <2> QED BY <2>1, <2>2, <2>3
<1> QED BY <1>2 DEF IsSubdomain

LEMMA NoLonger ==
  ASSUME NEW a \in Names, NEW b \in Names, IsSubdomain(a, b), Len(a) <= Len(b)
  PROVE  a = b
<1> USE WorldAssumption
<1>1. Len(a) \in Nat /\ Len(b) \in Nat /\ Len(a) = Len(b)
  BY DEF IsSubdomain
<1>2. \A i \in 1 .. Len(b) : a[i] = b[i]
  BY <1>1 DEF IsSubdomain
<1>3. a \in Seq(STRING) /\ b \in Seq(STRING)
  OBVIOUS
<1> QED BY <1>1, <1>2, <1>3, SeqEqual

LEMMA RootIsAbove ==
  /\ Root \in Names
  /\ \A a \in Names : IsSubdomain(a, Root)
BY WorldAssumption DEF IsSubdomain, Root

\* Of the names above one name, there is a deepest and a highest.
LEMMA Deepest ==
  ASSUME NEW n \in Names, NEW T \in SUBSET Names, T # {}, \A z \in T : IsSubdomain(n, z)
  PROVE  /\ \E z \in T : \A y \in T : IsSubdomain(z, y)
         /\ \E z \in T : \A y \in T : IsSubdomain(y, z)
<1> USE WorldAssumption
<1>1. \A z \in T : Len(z) \in Nat /\ Len(n) \in Nat /\ Len(n) - Len(z) \in Nat
  BY DEF IsSubdomain
<1>2. PICK z \in T : \A y \in T : Len(n) - Len(z) <= Len(n) - Len(y)
  <2> DEFINE L == {l \in Nat : \E y \in T : l = Len(n) - Len(y)}
  <2>1. L \in SUBSET Nat /\ L # {} /\ \A y \in T : Len(n) - Len(y) \in L
    BY <1>1
  <2>2. PICK l \in L : \A k \in L : l <= k
    BY <2>1, LeastNumber
  <2>3. PICK z \in T : l = Len(n) - Len(z)
    BY <2>2
  <2>4. \A y \in T : Len(n) - Len(z) <= Len(n) - Len(y)
    BY <2>1, <2>2, <2>3
  <2> QED BY <2>4
<1>3. PICK x \in T : \A y \in T : Len(x) <= Len(y)
  <2> DEFINE L == {l \in Nat : \E y \in T : l = Len(y)}
  <2>1. L \in SUBSET Nat /\ L # {} /\ \A y \in T : Len(y) \in L
    BY <1>1
  <2>2. \E l \in L : \A k \in L : l <= k
    BY <2>1, LeastNumber
  <2> QED BY <2>1, <2>2
<1>4. \A y \in T : Len(y) <= Len(z)
  BY <1>1, <1>2
<1> QED BY <1>3, <1>4, Comparable

-----------------------------------------------------------------------------
(* Honesty *)

\* What is above an honest name is honest.
LEMMA ZonesAboveHonest ==
  ASSUME NEW n \in Names, HonestName(n), NEW y \in Zones, IsSubdomain(n, y)
  PROVE  y \in Honest
BY WorldAssumption DEF HonestName, IsZoneOf

LEMMA NamesAboveHonest ==
  ASSUME NEW n \in Names, HonestName(n), NEW p \in Names, IsSubdomain(n, p)
  PROVE  HonestName(p)
<1>1. PICK y \in Zones : IsZoneOf(y, p)
  BY WorldAssumption
<1>2. y \in Names /\ IsSubdomain(p, y)
  BY <1>1, WorldAssumption DEF IsZoneOf
<1>3. IsSubdomain(n, y)
  BY <1>2, Above
<1> QED BY <1>1, <1>3, ZonesAboveHonest DEF HonestName

LEMMA HonestZones ==
  ASSUME NEW z \in Honest
  PROVE  z \in Zones /\ z \in Names /\ HonestName(z) /\ z \notin Liars
<1>1. z \in Zones /\ z \in Names /\ z \notin Liars
  BY WorldAssumption
<1>2. IsZoneOf(z, z)
  BY <1>1, Itself DEF IsZoneOf
<1> QED BY <1>1, <1>2 DEF HonestName

-----------------------------------------------------------------------------
(* Messages *)

\* What there is to say of a name is of one kind.
LEMMA Kinds ==
  ASSUME NEW n \in Names
  PROVE  /\ \/ Data[n] = {NoData}
            \/ Data[n] = {NoName}
            \/ \E t \in Names \ {n} : Data[n] = {t}
            \/ /\ Data[n] \subseteq Addresses /\ Data[n] \cap Published # {}
               /\ \A a \in Data[n], b \in Addresses : Serves[a] = Serves[b] => b \in Data[n]
         /\ Names \cap Addresses = {}
         /\ NoData \notin Names \cup Addresses /\ NoName \notin Names \cup Addresses
<1>1. /\ Names \cap Addresses = {}
      /\ {NoData, NoName} \cap (Names \cup Addresses) = {}
  BY WorldAssumption
<1>2. \/ Data[n] \in {{NoData}, {NoName}} \/ \E t \in Names \ {n} : Data[n] = {t}
      \/ /\ Data[n] \subseteq Addresses /\ Data[n] \cap Published # {}
         /\ \A a \in Data[n], b \in Addresses : Serves[a] = Serves[b] => b \in Data[n]
  BY WorldAssumption
<1> QED BY <1>1, <1>2

LEMMA CurrentType ==
  ASSUME NEW n \in Names
  PROVE  /\ Current(n) \subseteq Data[n]
         /\ Data[n] \subseteq Names \cup Addresses \cup {NoData, NoName}
         /\ Data[n] \cap inUse \subseteq Current(n)
BY WorldAssumption DEF Current

\* All the addresses there are of a zone's servers, unless it is delegated without.
Given(cut, glue) ==
  cut \notin Glueless =>
    \A s \in NSNames[cut], b \in inUse : b \in Data[s] => [owner |-> s, ip |-> b] \in glue

\* A server that does not know the name's zone refers to one further down.
LEMMA TruthCuts ==
  ASSUME NEW z \in Zones, NEW n \in Names, IsSubdomain(n, z), inUse \subseteq Addresses,
         \E c \in Zones : c # z /\ IsSubdomain(c, z) /\ IsSubdomain(n, c)
  PROVE  \E cut \in Zones :
           /\ cut # z /\ IsSubdomain(cut, z) /\ IsSubdomain(n, cut)
           /\ \E g \in SUBSET [owner : NSNames[cut], ip : inUse] :
                /\ \A h \in g : h.ip \in Data[h.owner]
                /\ Given(cut, g)
                /\ Truth(z, n) = Msg("ok", FALSE, {}, [owner : {cut}, target : NSNames[cut]], g)
<1> DEFINE cuts == Below(z, n)
           cut == CHOOSE c \in cuts : \A d \in cuts : IsSubdomain(d, c)
           g == {h \in [owner : NSNames[cut], ip : inUse] :
                   cut \notin Glueless /\ h.ip \in Data[h.owner]}
<1>1. cuts # {} /\ cuts \in SUBSET Names /\ \A c \in cuts : IsSubdomain(n, c)
  BY WorldAssumption DEF Below
<1>2. Truth(z, n) = Msg("ok", FALSE, {}, [owner : {cut}, target : NSNames[cut]], g)
  BY <1>1 DEF Truth
<1> HIDE DEF cuts
<1>3. \E c \in cuts : \A d \in cuts : IsSubdomain(d, c)
  BY <1>1, Deepest
<1>4. cut \in cuts
  BY <1>3
<1>5. cut \in Zones /\ cut # z /\ IsSubdomain(cut, z) /\ IsSubdomain(n, cut)
  BY <1>4 DEF cuts, Below
<1> HIDE DEF cut
<1>6. /\ g \in SUBSET [owner : NSNames[cut], ip : inUse] /\ \A h \in g : h.ip \in Data[h.owner]
      /\ Given(cut, g)
  BY DEF Given
<1> QED BY <1>2, <1>5, <1>6

\* A server that does says what it is.
LEMMA TruthItself ==
  ASSUME NEW z \in Zones, NEW n \in Names, IsSubdomain(n, z),
         ~ \E c \in Zones : c # z /\ IsSubdomain(c, z) /\ IsSubdomain(n, c)
  PROVE  Truth(z, n) =
           Msg(IF Data[n] = {NoName} THEN "nx" ELSE "ok", TRUE,
               {r \in [owner : {n}, data : Current(n)] : r.data \notin {NoName, NoData}}, {}, {})
BY DEF Truth, Below

LEMMA TruthType ==
  ASSUME NEW z \in Zones, NEW n \in Names, inUse \subseteq Addresses
  PROVE  Truth(z, n) \in Message
<1>1. CASE ~ IsSubdomain(n, z)
  BY <1>1 DEF Truth, Msg, Message
<1>2. CASE IsSubdomain(n, z) /\ ~ \E c \in Zones : c # z /\ IsSubdomain(c, z) /\ IsSubdomain(n, c)
  <2> DEFINE answers == {r \in [owner : {n}, data : Current(n)] : r.data \notin {NoName, NoData}}
  <2>1. answers \in SUBSET Records
    BY CurrentType DEF Records
  <2> HIDE DEF answers
  <2>2. Truth(z, n) = Msg(IF Data[n] = {NoName} THEN "nx" ELSE "ok", TRUE, answers, {}, {})
    BY <1>2, TruthItself DEF answers
  <2> QED BY <2>1, <2>2 DEF Msg, Message
<1>3. CASE IsSubdomain(n, z) /\ \E c \in Zones : c # z /\ IsSubdomain(c, z) /\ IsSubdomain(n, c)
  <2>1. PICK cut \in Zones :
          \E g \in SUBSET [owner : NSNames[cut], ip : inUse] :
            Truth(z, n) = Msg("ok", FALSE, {}, [owner : {cut}, target : NSNames[cut]], g)
    BY <1>3, TruthCuts
  <2> PICK g \in SUBSET [owner : NSNames[cut], ip : inUse] :
             Truth(z, n) = Msg("ok", FALSE, {}, [owner : {cut}, target : NSNames[cut]], g)
    BY <2>1
  <2>2. cut \in Names /\ NSNames[cut] \subseteq Names
    BY WorldAssumption
  <2>3. /\ [owner : {cut}, target : NSNames[cut]] \in SUBSET [owner : Names, target : Names]
        /\ g \in SUBSET [owner : Names, ip : Addresses]
    BY <2>2
  <2> QED BY <2>3 DEF Msg, Message
<1> QED BY <1>1, <1>2, <1>3

LEMMA RepliesType ==
  ASSUME NEW a \in Addresses, NEW n \in Names, NEW proto, NEW m \in Replies(a, n, proto),
         inUse \subseteq Addresses
  PROVE  m \in Message
<1>1. Serves[a] \in Zones
  BY WorldAssumption
<1>2. ASSUME NEW f \in Forged(n, a)
      PROVE  f \in Message
  <2>1. {[owner |-> n, data |-> a]} \in SUBSET Records
    BY DEF Records
  <2> HIDE DEF Records
  <2>2. /\ Msg("ok", FALSE, {[owner |-> n, data |-> a]}, {}, {}) \in Message
        /\ Msg("nx", FALSE, {}, {}, {}) \in Message
        /\ Msg("ok", FALSE, {}, {}, {}) \in Message
    BY <2>1 DEF Msg, Message
  <2> QED BY <2>2 DEF Forged
<1> QED BY <1>1, <1>2, TruthType, WorldAssumption DEF Replies

-----------------------------------------------------------------------------
(* Alias chains *)

Walk == [target : Names, complete : BOOLEAN, chain : SUBSET Records]
WalkFrom(name) == [target |-> name, complete |-> FALSE, chain |-> {}]

Aliases(name, records) == \E r \in records : r.owner = name /\ r.data \in Names

\* What followChain has collected: there are addresses in it if it is complete,
\* and to other names only an alias of the first one leads.
Along(p, name, records) ==
  /\ p \in Walk
  /\ p.chain \subseteq records
  /\ p.complete => \E r \in p.chain : r.data \in Addresses
  /\ p.target # name => Aliases(name, p.chain) /\ \E r \in p.chain : r.data = p.target
  /\ (\E r \in p.chain : r.owner # name) => Aliases(name, p.chain)

\* Addresses are not overlooked, nor an alias.
Thorough(p, name, records) ==
  (~p.complete /\ p.target = name /\ \A r \in records : r.owner = name /\ r.data # name)
    => \A r \in records : r.data \notin Names \cup Addresses

LEMMA HopAlong ==
  ASSUME NEW name \in Names, NEW records \in SUBSET Records, NEW p, Along(p, name, records)
  PROVE  /\ Along(Hop(p, records), name, records)
         /\ p = WalkFrom(name) \/ Thorough(p, name, records)
              => Thorough(Hop(p, records), name, records)
<1> DEFINE about == {r \in records : r.owner = p.target /\ r.data \in Addresses}
           alias == {r \in records : r.owner = p.target /\ r.data \in Names}
           q == Hop(p, records)
<1>1. /\ p \in Walk /\ p.target \in Names /\ p.complete \in BOOLEAN /\ p.chain \in SUBSET Records
      /\ p = [target |-> p.target, complete |-> p.complete, chain |-> p.chain]
  BY DEF Along, Walk
<1>2. CASE p.complete
  BY <1>1, <1>2 DEF Hop, Thorough, WalkFrom
<1>3. CASE ~p.complete /\ about # {}
  <2>1. q = [target |-> p.target, complete |-> TRUE, chain |-> p.chain \cup about]
    BY <1>1, <1>3 DEF Hop
  <2>2. q \in Walk /\ q.chain \subseteq records
    BY <2>1, <1>1 DEF Walk, Along
  <2> HIDE DEF q
  <2>3. Along(q, name, records)
    BY <2>1, <2>2, <1>1, <1>3 DEF Along, Aliases
  <2> QED BY <2>1, <2>3 DEF Thorough, q
<1>4. CASE ~p.complete /\ about = {} /\ alias = {}
  <2>1. q = p
    BY <1>4 DEF Hop
  <2>2. p.target = name => Thorough(p, name, records)
    BY <1>4 DEF Thorough
  <2>3. p.target # name => Thorough(p, name, records)
    BY DEF Thorough
  <2> QED BY <2>1, <2>2, <2>3
<1>5. CASE ~p.complete /\ about = {} /\ alias # {}
  <2> DEFINE r == CHOOSE s \in alias : TRUE
  <2>1. r \in alias
    BY <1>5
  <2>2. q = [target |-> r.data, complete |-> FALSE, chain |-> p.chain \cup {r}]
    BY <1>1, <1>5 DEF Hop
  <2> HIDE DEF r, q
  <2>3. r \in records /\ r.owner = p.target /\ r.data \in Names
    BY <2>1
  <2>4. q \in Walk /\ q.chain \subseteq records
    BY <2>2, <2>3, <1>1 DEF Walk, Along
  <2>5. Aliases(name, q.chain)
    BY <2>2, <2>3 DEF Along, Aliases
  <2>6. Along(q, name, records)
    BY <2>2, <2>4, <2>5 DEF Along
  <2>7. Thorough(q, name, records)
    BY <2>2, <2>3 DEF Thorough
  <2> QED BY <2>6, <2>7 DEF q
<1> QED BY <1>2, <1>3, <1>4, <1>5

\* The recursive function of FollowChain is what it looks like.
LEMMA WalkSteps ==
  ASSUME NEW name \in Names, NEW records \in SUBSET Records
  PROVE  \E walk : /\ FollowChain(name, records) = walk[MaxHops]
                   /\ walk[0] = WalkFrom(name)
                   /\ \A h \in 1 .. MaxHops : walk[h] = Hop(walk[h - 1], records)
<1> DEFINE Steps(g) == [h \in 0 .. MaxHops |->
                          IF h = 0 THEN [target |-> name, complete |-> FALSE, chain |-> {}]
                          ELSE Hop(g[h - 1], records)]
           W == CHOOSE g : g = Steps(g)
           S == {p \in Walk : Along(p, name, records)}
           F == [p \in S |-> Hop(p, records)]
<1>1. FollowChain(name, records) = W[MaxHops]
  BY DEF FollowChain
<1>2. MaxHops \in Nat
  BY LimitAssumption
<1>3. F \in [S -> S]
  BY HopAlong DEF Along
<1>4. WalkFrom(name) \in S
  BY DEF WalkFrom, Walk, Along
<1>5. PICK g : Iterates(g, F, WalkFrom(name), MaxHops, S)
  <2>1. Maps(F, S)
    BY <1>3 DEF Maps
  <2> HIDE DEF F, S
  <2> QED BY <1>2, <1>4, <2>1, Repeated
<1>6. g = Steps(g)
  <2>1. ASSUME NEW h \in 0 .. MaxHops
        PROVE  g[h] = Steps(g)[h]
    <3>1. CASE h = 0
      BY <3>1, <1>5 DEF WalkFrom, Iterates
    <3>2. CASE h # 0
      <4>1. h \in 1 .. MaxHops /\ h - 1 \in 0 .. MaxHops
        BY <3>2, <1>2
      <4>2. g[h - 1] \in S
        BY <4>1, <1>5 DEF Iterates
      <4>3. F[g[h - 1]] = Hop(g[h - 1], records)
        BY <4>2
      <4>4. g[h] = F[g[h - 1]]
        BY <4>1, <1>5 DEF Iterates
      <4> QED BY <3>2, <4>3, <4>4
    <3> QED BY <3>1, <3>2
  <2> QED BY <2>1, <1>5 DEF Iterates
<1> HIDE DEF Steps
<1>7. W = Steps(W)
  BY <1>6
<1> HIDE DEF W
<1>8. W[0] = WalkFrom(name)
  <2>1. Steps(W)[0] = WalkFrom(name)
    BY <1>2 DEF Steps, WalkFrom
  <2> QED BY <2>1, <1>7
<1>9. ASSUME NEW h \in 1 .. MaxHops
      PROVE  W[h] = Hop(W[h - 1], records)
  <2>1. Steps(W)[h] = Hop(W[h - 1], records)
    BY <1>2 DEF Steps
  <2> QED BY <2>1, <1>7
<1> QED BY <1>1, <1>8, <1>9

\* followChain keeps to the records it is given, leads to other names by an
\* alias only, and misses nothing that is there.
LEMMA ChainFollowed ==
  ASSUME NEW name \in Names, NEW records \in SUBSET Records
  PROVE  /\ Along(FollowChain(name, records), name, records)
         /\ Thorough(FollowChain(name, records), name, records)
<1>1. PICK walk : /\ FollowChain(name, records) = walk[MaxHops]
                  /\ walk[0] = WalkFrom(name)
                  /\ \A h \in 1 .. MaxHops : walk[h] = Hop(walk[h - 1], records)
  BY WalkSteps
<1> DEFINE S == {h \in 0 .. MaxHops : /\ Along(walk[h], name, records)
                                      /\ h = 0 \/ Thorough(walk[h], name, records)}
<1>2. MaxHops \in Nat \ {0}
  BY LimitAssumption
<1>3. 0 \in S
  <2>1. Along(WalkFrom(name), name, records)
    BY DEF WalkFrom, Walk, Along
  <2> QED BY <1>1, <1>2, <2>1
<1>4. ASSUME NEW h \in 0 .. MaxHops - 1, h \in S
      PROVE  h + 1 \in S
  <2>1. h + 1 \in 1 .. MaxHops /\ h + 1 - 1 = h
    BY <1>2
  <2>2. walk[h + 1] = Hop(walk[h], records)
    BY <1>1, <2>1
  <2>3. walk[h] = WalkFrom(name) \/ Thorough(walk[h], name, records)
    BY <1>1, <1>4
  <2> QED BY <2>1, <2>2, <2>3, <1>4, HopAlong
<1> HIDE DEF S
<1>5. MaxHops \in S
  BY <1>2, <1>3, <1>4, BoundedInduction
<1> QED BY <1>1, <1>2, <1>5 DEF S

-----------------------------------------------------------------------------
(* The invariant *)

\* A zone out of the liars' reach is taken for what it is: nobody but its
\* parent says where it is, and that one is honest.
Known(z) == HonestName(z) => z \in Honest

\* What the zone cache may hold of z.
SoundEntry(z, servers) == servers # {} => Known(z) /\ OwnServers(z, servers)

\* A walk is above the name it is about and asks the zone's own servers; if it
\* looks for servers of a zone below, then for those that zone names, and if
\* it waits for another name, the name it is about is an alias.
SoundFrame(f) ==
  /\ IsSubdomain(f.name, f.zone)
  /\ Known(f.zone) /\ OwnServers(f.zone, f.servers)
  /\ f.at = "tcp" => f.ip \in f.servers
  /\ f.at \in {"ask", "tcp"} => f.addrs = {}
  /\ f.at = "ns" =>
       /\ f.cut # f.zone /\ IsSubdomain(f.cut, f.zone) /\ IsSubdomain(f.name, f.cut)
       /\ Known(f.cut) /\ OwnServers(f.cut, f.addrs)
       /\ f.cut \in Honest => f.ns \subseteq NSNames[f.cut]
  /\ TrueRecords(f.chain)
  /\ f.at = "alias" => Aliases(f.name, f.chain)

Frames == {f \in Frame : SoundFrame(f)}

\* Whoever looks for a zone's servers has asked for one of them.
Linked(s) == \A i \in 1 .. Len(s) - 1 : s[i].at = "ns" => s[i + 1].name \in s[i].ns

SoundStack(s) == s \in Seq(Frames) /\ Len(s) <= MaxDepth + 1 /\ Linked(s)

\* What is returned is true and, if other names are in it, came by an alias.
SoundAnswer(r) ==
  /\ r \in Returning \cup {Nothing}
  /\ TrueAnswer(r)
  /\ (\E d \in r.records : d.owner # r.name) => Aliases(r.name, r.records)

\* An answer is for the frame that waits for it.
Fits(s, r) ==
  (r # Nothing /\ s # <<>> /\ s[Len(s)].at = "ns") => r.name \in s[Len(s)].ns

\* The servers that a zone has moved to are in use.
Reachable == \A n \in Names : Data[n] \cap Addresses # {} => Data[n] \cap inUse # {}

ZonesInv ==
  /\ zones \in [Names -> SUBSET Addresses]
  /\ \A z \in Names : SoundEntry(z, zones[z])

WalksInv ==
  /\ stack \in [Walkers -> Seq(Frames)]
  /\ ret \in [Walkers -> Returning \cup {Nothing}]
  /\ \A w \in Walkers : SoundStack(stack[w]) /\ SoundAnswer(ret[w]) /\ Fits(stack[w], ret[w])

WorldInv == inUse \subseteq Addresses /\ Reachable

LookupInv == ZonesInv /\ WalksInv /\ WorldInv /\ lost \in [Walkers -> BOOLEAN]

\* How the zone of a walk changes: down towards the name, or once to the root.
Down(f, g) ==
  g.zone # f.zone =>
    \/ IsSubdomain(g.zone, f.zone) /\ IsSubdomain(f.name, g.zone)
    \/ g.zone = Root /\ ~f.restarted /\ g.restarted

\* All walks go that way.
Descent ==
  \A w \in Walkers : \A i \in 1 .. Len(stack[w]) :
    i \in 1 .. Len(stack'[w]) => Down(stack[w][i], stack'[w][i])

-----------------------------------------------------------------------------
(* What replies are good for *)

LEMMA HonestReply ==
  ASSUME NEW z \in Honest, NEW a \in Addresses, Serves[a] = z, NEW n \in Names,
         NEW proto, NEW m \in Replies(a, n, proto), Classify(m, z, n) # "lame"
  PROVE  m = Truth(z, n)
<1>1. z \notin Liars
  BY HonestZones
<1>2. ASSUME m \in Forged(n, a)
      PROVE  FALSE
  <2>1. CASE m = Msg("ok", FALSE, {[owner |-> n, data |-> a]}, {}, {})
    BY <2>1 DEF Msg, Classify
  <2>2. CASE m = Msg("nx", FALSE, {}, {}, {})
    BY <2>2 DEF Msg, Classify
  <2>3. CASE m = Msg("ok", FALSE, {}, {}, {})
    <3>1. Cuts(m, z, n) = {}
      BY <2>3 DEF Msg, Cuts
    <3> QED BY <2>3, <3>1 DEF Msg, Classify
  <2> QED BY <1>2, <2>1, <2>2, <2>3 DEF Forged
<1> QED BY <1>1, <1>2 DEF Replies

\* An authoritative answer of an honest server is about the name and true.
LEMMA HonestAnswer ==
  ASSUME NEW z \in Honest, NEW n \in Names, IsSubdomain(n, z), inUse \subseteq Addresses, Reachable,
         NEW m, m = Truth(z, n), Classify(m, z, n) \in {"answer", "nx", "nodata"}
  PROVE  /\ \A r \in m.answers : r.owner = n /\ r.data \in Data[n] /\ r.data # n
         /\ m.rcode = "nx" => Data[n] = {NoName}
         /\ m.rcode = "ok" /\ m.answers = {} => Data[n] = {NoData}
         /\ \A r \in m.answers : r.data \in Names \cup inUse
<1>1. z \in Zones
  BY HonestZones
<1>2. ASSUME \E c \in Zones : c # z /\ IsSubdomain(c, z) /\ IsSubdomain(n, c)
      PROVE  FALSE
  <2>1. m.rcode = "ok" /\ m.aa = FALSE /\ m.answers = {}
    BY <1>1, <1>2, TruthCuts DEF Msg
  <2> QED BY <2>1 DEF Classify
<1> DEFINE answers == {r \in [owner : {n}, data : Current(n)] : r.data \notin {NoName, NoData}}
<1>3. m = Msg(IF Data[n] = {NoName} THEN "nx" ELSE "ok", TRUE, answers, {}, {})
  BY <1>1, <1>2, TruthItself
<1>4. /\ m.answers = answers
      /\ m.rcode = IF Data[n] = {NoName} THEN "nx" ELSE "ok"
  BY <1>3 DEF Msg
<1>5. n \notin Data[n]
  BY Kinds
<1>6. \A r \in answers : r.owner = n /\ r.data \in Data[n] /\ r.data # n
  BY <1>5, CurrentType
<1>7. \A r \in answers : r.data \in Names \cup inUse
  BY CurrentType DEF Current
<1>8. ASSUME m.rcode = "ok", answers = {}
      PROVE  Data[n] = {NoData}
  <2>1. Data[n] # {NoName}
    BY <1>4, <1>8
  <2>2. ASSUME NEW d \in Current(n)
        PROVE  d \in {NoName, NoData}
    <3> SUFFICES ASSUME d \notin {NoName, NoData}
                 PROVE  FALSE
      OBVIOUS
    <3>1. [owner |-> n, data |-> d] \in answers
      OBVIOUS
    <3> QED BY <3>1, <1>8
  <2>3. Data[n] \cap Addresses = {}
    <3>1. \A d \in Data[n] \cap inUse : d \in Current(n)
      BY DEF Current
    <3>2. \A d \in Data[n] \cap inUse : d \in Addresses
      OBVIOUS
    <3> QED BY <2>2, <3>1, <3>2, Kinds DEF Reachable
  <2>4. \A t \in Names : t \in Data[n] => t \in Current(n)
    BY Kinds DEF Current
  <2>5. ~ \E t \in Names \ {n} : Data[n] = {t}
    BY <2>2, <2>4, Kinds
  <2> QED BY <2>1, <2>3, <2>5, Kinds
<1> QED BY <1>4, <1>6, <1>7, <1>8

\* A referral of an honest server is to the servers of the zone below.
LEMMA HonestReferral ==
  ASSUME NEW z \in Honest, NEW n \in Names, IsSubdomain(n, z), inUse \subseteq Addresses,
         NEW m, m = Truth(z, n), NEW cut \in Cuts(m, z, n)
  PROVE  /\ cut \in Zones
         /\ Targets(m, cut) = NSNames[cut] /\ NSNames[cut] # {}
         /\ \A g \in m.glue : g.ip \in Data[g.owner] /\ g.owner \in NSNames[cut] /\ g.ip \in inUse
         /\ Given(cut, m.glue)
<1>1. z \in Zones
  BY HonestZones
<1>2. m.ns # {}
  BY DEF Cuts
<1>3. \E c \in Zones : c # z /\ IsSubdomain(c, z) /\ IsSubdomain(n, c)
  <2> SUFFICES ASSUME ~ \E c \in Zones : c # z /\ IsSubdomain(c, z) /\ IsSubdomain(n, c)
               PROVE  FALSE
    OBVIOUS
  <2>1. m.ns = {}
    BY <1>1, TruthItself DEF Msg
  <2> QED BY <1>2, <2>1
<1>4. PICK c \in Zones :
        \E g \in SUBSET [owner : NSNames[c], ip : inUse] :
          /\ \A h \in g : h.ip \in Data[h.owner]
          /\ Given(c, g)
          /\ m = Msg("ok", FALSE, {}, [owner : {c}, target : NSNames[c]], g)
  BY <1>1, <1>3, TruthCuts
<1> DEFINE ns == [owner : {c}, target : NSNames[c]]
<1> PICK g \in SUBSET [owner : NSNames[c], ip : inUse] :
           /\ \A h \in g : h.ip \in Data[h.owner]
           /\ Given(c, g)
           /\ m = Msg("ok", FALSE, {}, ns, g)
  BY <1>4
<1> HIDE DEF ns
<1>5. m.ns = ns /\ m.glue = g
  BY DEF Msg
<1>6. cut = c
  <2>1. \A r \in ns : r.owner = c
    BY DEF ns
  <2> QED BY <1>5, <2>1 DEF Cuts
<1>7. Targets(m, cut) = NSNames[cut]
  <2>1. \A t \in NSNames[c] : [owner |-> c, target |-> t] \in ns
    BY DEF ns
  <2>2. \A r \in ns : r.owner = c /\ r.target \in NSNames[c]
    BY DEF ns
  <2>3. \A t \in Targets(m, cut) : t \in NSNames[c]
    BY <1>5, <2>2 DEF Targets
  <2>4. ASSUME NEW t \in NSNames[c]
        PROVE  t \in Targets(m, cut)
    <3> DEFINE r == [owner |-> c, target |-> t]
    <3>1. r \in m.ns /\ r.owner = cut /\ r.target = t
      BY <1>5, <1>6, <2>1
    <3> HIDE DEF r
    <3>2. r.target \in Targets(m, cut)
      BY <3>1 DEF Targets
    <3> QED BY <3>1, <3>2
  <2> QED BY <1>6, <2>3, <2>4
<1>8. NSNames[cut] # {}
  BY <1>2, <1>5, <1>6 DEF ns
<1> QED BY <1>5, <1>6, <1>7, <1>8

\* What a reply that is believed says of the name and of the servers further
\* down is sound, if it comes from a server of the zone the walk is at.
LEMMA SoundReply ==
  ASSUME NEW z \in Names, NEW n \in Names, IsSubdomain(n, z), Known(z),
         inUse \subseteq Addresses, Reachable,
         NEW a \in Addresses, OwnServers(z, {a}), NEW proto, NEW m \in Replies(a, n, proto)
  PROVE  /\ m \in Message
         /\ Classify(m, z, n) \in {"answer", "nx", "nodata"} =>
              /\ TrueRecords(InZone(m.answers, z))
              /\ HonestName(n) =>
                   /\ \A r \in InZone(m.answers, z) : r.owner = n /\ r.data # n
                   /\ m.rcode = "nx" => Data[n] = {NoName}
                   /\ m.rcode = "ok" =>
                        \/ Data[n] = {NoData}
                        \/ \E r \in InZone(m.answers, z) : r.data \in Names \cup Addresses
         /\ Classify(m, z, n) = "referral" =>
              \A cut \in Cuts(m, z, n) :
                /\ Known(cut)
                /\ cut \in Honest => Targets(m, cut) \subseteq NSNames[cut]
                /\ OwnServers(cut, GlueAddrs(m, Targets(m, cut), z))
<1>1. m \in Message
  BY RepliesType
<1>2. \A r \in m.answers : r.owner \in Names
  BY <1>1 DEF Message, Records
<1>3. ASSUME NEW c \in Names, IsSubdomain(c, z), HonestName(c), Classify(m, z, n) # "lame"
      PROVE  z \in Honest /\ m = Truth(z, n)
  <2>1. HonestName(z)
    BY <1>3, NamesAboveHonest
  <2>2. z \in Honest /\ Serves[a] = z
    BY <2>1 DEF Known, OwnServers
  <2> QED BY <1>3, <2>2, HonestReply
<1>4. ASSUME Classify(m, z, n) \in {"answer", "nx", "nodata"}
      PROVE  TrueRecords(InZone(m.answers, z))
  <2> SUFFICES ASSUME NEW r \in m.answers, IsSubdomain(r.owner, z), HonestName(r.owner)
               PROVE  r.data \in Data[r.owner]
    BY DEF TrueRecords, InZone
  <2>1. z \in Honest /\ m = Truth(z, n)
    BY <1>2, <1>3, <1>4
  <2> QED BY <1>4, <2>1, HonestAnswer
<1>5. ASSUME Classify(m, z, n) \in {"answer", "nx", "nodata"}, HonestName(n)
      PROVE  /\ \A r \in InZone(m.answers, z) : r.owner = n /\ r.data # n
             /\ m.rcode = "nx" => Data[n] = {NoName}
             /\ m.rcode = "ok" =>
                  \/ Data[n] = {NoData}
                  \/ \E r \in InZone(m.answers, z) : r.data \in Names \cup Addresses
  <2>1. z \in Honest /\ m = Truth(z, n)
    BY <1>3, <1>5
  <2>2. /\ \A r \in m.answers : r.owner = n /\ r.data \in Data[n] /\ r.data # n
        /\ m.rcode = "nx" => Data[n] = {NoName}
        /\ m.rcode = "ok" /\ m.answers = {} => Data[n] = {NoData}
        /\ \A r \in m.answers : r.data \in Names \cup Addresses
    BY <1>5, <2>1, HonestAnswer
  <2>3. InZone(m.answers, z) = m.answers
    BY <2>2 DEF InZone
  <2> QED BY <2>2, <2>3
<1>6. ASSUME Classify(m, z, n) = "referral", NEW cut \in Cuts(m, z, n)
      PROVE  /\ Known(cut)
             /\ cut \in Honest => Targets(m, cut) \subseteq NSNames[cut]
             /\ OwnServers(cut, GlueAddrs(m, Targets(m, cut), z))
  <2>1. cut \in Names /\ cut # z /\ IsSubdomain(cut, z) /\ IsSubdomain(n, cut)
    BY <1>1 DEF Cuts, Message
  <2>2. ASSUME HonestName(cut)
        PROVE  /\ cut \in Zones /\ cut # Root
               /\ Targets(m, cut) = NSNames[cut]
               /\ \A g \in m.glue : g.ip \in Data[g.owner] /\ g.owner \in NSNames[cut]
    <3>1. z \in Honest /\ m = Truth(z, n)
      BY <1>3, <1>6, <2>1, <2>2
    <3>2. cut # Root
      <4>1. IsSubdomain(z, Root) /\ Len(Root) <= Len(z)
        BY RootIsAbove DEF IsSubdomain
      <4> QED BY <2>1, <4>1, NoLonger, RootIsAbove
    <3> QED BY <3>1, <3>2, HonestReferral
  <2>3. Known(cut)
    <3> SUFFICES ASSUME HonestName(cut) PROVE cut \in Honest
      BY DEF Known
    <3> QED BY <2>1, <2>2, Itself, ZonesAboveHonest
  <2>4. ASSUME cut \in Honest
        PROVE  /\ Targets(m, cut) \subseteq NSNames[cut]
               /\ \A ip \in GlueAddrs(m, Targets(m, cut), z) : Serves[ip] = cut
    <3>1. HonestName(cut)
      BY <2>4, HonestZones
    <3>2. \A s \in NSNames[cut] : Data[s] \subseteq {b \in Addresses : Serves[b] = cut}
      BY <2>2, <2>4, <3>1, WorldAssumption
    <3>3. \A g \in m.glue : Serves[g.ip] = cut
      BY <2>2, <3>1, <3>2
    <3> QED BY <2>2, <3>1, <3>3 DEF GlueAddrs
  <2> QED BY <2>3, <2>4 DEF OwnServers
<1> QED BY <1>1, <1>4, <1>5, <1>6

-----------------------------------------------------------------------------
(* Stacks *)

LEMMA FrameFields ==
  ASSUME NEW f \in Frames
  PROVE  /\ f \in Frame /\ SoundFrame(f)
         /\ f.name \in Names /\ f.zone \in Names /\ f.servers \subseteq Addresses
         /\ f.cut \in Names /\ f.ns \subseteq Names /\ f.addrs \subseteq Addresses
         /\ f.chain \subseteq Records /\ f.step \in Nat /\ f.restarted \in BOOLEAN
         /\ f.tried \subseteq Addresses \cup Names
         /\ f.at \in {"ask", "tcp", "ns", "alias"}
BY DEF Frames, Frame

\* The innermost frame goes on.
LEMMA StackStays ==
  ASSUME NEW s, SoundStack(s), s # <<>>, NEW g \in Frames, g.name = s[Len(s)].name
  PROVE  /\ SoundStack([s EXCEPT ![Len(s)] = g])
         /\ Len([s EXCEPT ![Len(s)] = g]) = Len(s)
         /\ [s EXCEPT ![Len(s)] = g] # <<>>
         /\ [s EXCEPT ![Len(s)] = g][Len(s)] = g
         /\ \A i \in 1 .. Len(s) - 1 : [s EXCEPT ![Len(s)] = g][i] = s[i]
<1> DEFINE t == [s EXCEPT ![Len(s)] = g]
<1>1. s \in Seq(Frames) /\ Len(s) \in Nat \ {0} /\ Len(s) <= MaxDepth + 1 /\ Linked(s)
  BY DEF SoundStack
<1>2. t \in Seq(Frames) /\ Len(t) = Len(s)
  BY <1>1
<1>3. t[Len(s)] = g /\ \A i \in 1 .. Len(s) - 1 : t[i] = s[i]
  BY <1>1
<1>4. \A i \in 1 .. Len(s) : t[i].name = s[i].name
  BY <1>1, <1>3
<1> HIDE DEF t
<1>5. Linked(t)
  <2> SUFFICES ASSUME NEW i \in 1 .. Len(s) - 1, t[i].at = "ns"
               PROVE  t[i + 1].name \in t[i].ns
    BY <1>2 DEF Linked
  <2>1. i + 1 \in 1 .. Len(s) /\ t[i] = s[i]
    BY <1>1, <1>3
  <2> QED BY <2>1, <1>1, <1>4 DEF Linked
<1>6. SoundStack(t)
  BY <1>1, <1>2, <1>5 DEF SoundStack
<1> QED BY <1>1, <1>2, <1>3, <1>6 DEF t

\* The innermost frame returns.
LEMMA StackReturns ==
  ASSUME NEW s, SoundStack(s), s # <<>>, NEW r, r.name = s[Len(s)].name
  PROVE  /\ SoundStack(SubSeq(s, 1, Len(s) - 1))
         /\ Fits(SubSeq(s, 1, Len(s) - 1), r)
         /\ Len(SubSeq(s, 1, Len(s) - 1)) = Len(s) - 1
         /\ \A i \in 1 .. Len(s) - 1 : SubSeq(s, 1, Len(s) - 1)[i] = s[i]
<1> DEFINE t == SubSeq(s, 1, Len(s) - 1)
<1>1. s \in Seq(Frames) /\ Len(s) \in Nat \ {0} /\ Len(s) <= MaxDepth + 1 /\ Linked(s)
  BY DEF SoundStack
<1>2. t \in Seq(Frames) /\ Len(t) = Len(s) - 1 /\ \A i \in 1 .. Len(s) - 1 : t[i] = s[i]
  <2> DEFINE k == Len(s) - 1
  <2>1. k \in Nat /\ \A i \in 1 .. k : s[i] \in Frames
    BY <1>1
  <2> HIDE DEF k
  <2>2. /\ SubSeq(s, 1, k) \in Seq(Frames)
        /\ Len(SubSeq(s, 1, k)) = IF 1 <= k THEN k - 1 + 1 ELSE 0
        /\ \A i \in 1 .. k - 1 + 1 : SubSeq(s, 1, k)[i] = s[1 + i - 1]
    BY <2>1, SubSeqProperties
  <2>3. Len(SubSeq(s, 1, k)) = k /\ \A i \in 1 .. k : SubSeq(s, 1, k)[i] = s[i]
    BY <2>1, <2>2
  <2> QED BY <2>2, <2>3 DEF k
<1> HIDE DEF t
<1>3. Linked(t)
  <2> SUFFICES ASSUME NEW i \in 1 .. Len(t) - 1, t[i].at = "ns"
               PROVE  t[i + 1].name \in t[i].ns
    BY DEF Linked
  <2>1. i \in 1 .. Len(s) - 1 /\ i + 1 \in 1 .. Len(s) - 1
    BY <1>1, <1>2
  <2> QED BY <2>1, <1>1, <1>2 DEF Linked
<1>4. SoundStack(t)
  BY <1>1, <1>2, <1>3, LimitAssumption DEF SoundStack
<1>5. Fits(t, r)
  <2> SUFFICES ASSUME t # <<>>, t[Len(t)].at = "ns"
               PROVE  r.name \in t[Len(t)].ns
    BY DEF Fits
  <2>1. Len(t) \in 1 .. Len(s) - 1 /\ Len(t) + 1 = Len(s)
    BY <1>1, <1>2
  <2> QED BY <2>1, <1>1, <1>2 DEF Linked
<1> QED BY <1>2, <1>4, <1>5 DEF t

\* The innermost frame goes on as g and another one begins.
LEMMA StackGrows ==
  ASSUME NEW s, SoundStack(s), s # <<>>, NEW g \in Frames, g.name = s[Len(s)].name,
         NEW h \in Frames, g.at = "ns" => h.name \in g.ns, Len(s) <= MaxDepth
  PROVE  /\ SoundStack(Append([s EXCEPT ![Len(s)] = g], h))
         /\ Len(Append([s EXCEPT ![Len(s)] = g], h)) = Len(s) + 1
         /\ Append([s EXCEPT ![Len(s)] = g], h)[Len(s)] = g
         /\ \A i \in 1 .. Len(s) - 1 : Append([s EXCEPT ![Len(s)] = g], h)[i] = s[i]
<1> DEFINE t == [s EXCEPT ![Len(s)] = g]
           u == Append(t, h)
<1>1. s \in Seq(Frames) /\ Len(s) \in Nat \ {0}
  BY DEF SoundStack
<1>2. /\ SoundStack(t) /\ Len(t) = Len(s) /\ t[Len(s)] = g
      /\ \A i \in 1 .. Len(s) - 1 : t[i] = s[i]
  BY StackStays
<1> HIDE DEF t
<1>3. t \in Seq(Frames) /\ Linked(t)
  BY <1>2 DEF SoundStack
<1>4. /\ u \in Seq(Frames) /\ Len(u) = Len(s) + 1 /\ u[Len(s) + 1] = h
      /\ \A i \in 1 .. Len(s) : u[i] = t[i]
  BY <1>1, <1>2, <1>3
<1> HIDE DEF u
<1>5. Linked(u)
  <2> SUFFICES ASSUME NEW i \in 1 .. Len(s), u[i].at = "ns"
               PROVE  u[i + 1].name \in u[i].ns
    BY <1>1, <1>4 DEF Linked
  <2>1. CASE i = Len(s)
    BY <2>1, <1>1, <1>2, <1>4
  <2>2. CASE i # Len(s)
    <3>1. i \in 1 .. Len(t) - 1 /\ i + 1 \in 1 .. Len(s)
      BY <2>2, <1>1, <1>2
    <3> QED BY <3>1, <1>3, <1>4 DEF Linked
  <2> QED BY <2>1, <2>2
<1>6. SoundStack(u)
  BY <1>1, <1>4, <1>5, LimitAssumption DEF SoundStack
<1>7. u[Len(s)] = g /\ \A i \in 1 .. Len(s) - 1 : u[i] = s[i]
  BY <1>1, <1>2, <1>4
<1> QED BY <1>4, <1>6, <1>7 DEF t, u

-----------------------------------------------------------------------------
(* How a walk moves *)

\* One walker's stack becomes s and what it was told r.
LEMMA OneWalks ==
  ASSUME WalksInv, NEW w \in Walkers, NEW s, NEW r,
         SoundStack(s), SoundAnswer(r), Fits(s, r),
         stack' = [stack EXCEPT ![w] = s], ret' = [ret EXCEPT ![w] = r],
         \A i \in 1 .. Len(stack[w]) : i \in 1 .. Len(s) => Down(stack[w][i], s[i])
  PROVE  WalksInv' /\ Descent
<1>1. s \in Seq(Frames) /\ r \in Returning \cup {Nothing}
  BY DEF SoundStack, SoundAnswer
<1>2. /\ stack' \in [Walkers -> Seq(Frames)] /\ ret' \in [Walkers -> Returning \cup {Nothing}]
      /\ stack'[w] = s /\ ret'[w] = r
      /\ \A v \in Walkers \ {w} : stack'[v] = stack[v] /\ ret'[v] = ret[v]
  BY <1>1 DEF WalksInv
<1>3. ASSUME NEW v \in Walkers
      PROVE  SoundStack(stack'[v]) /\ SoundAnswer(ret'[v]) /\ Fits(stack'[v], ret'[v])
  <2>1. CASE v = w
    BY <2>1, <1>2
  <2>2. CASE v # w
    BY <2>2, <1>2 DEF WalksInv
  <2> QED BY <2>1, <2>2
<1>4. WalksInv'
  BY <1>2, <1>3 DEF WalksInv, SoundStack, SoundAnswer, Fits, TrueAnswer, TrueRecords
<1>5. ASSUME NEW v \in Walkers, NEW i \in 1 .. Len(stack[v]), i \in 1 .. Len(stack'[v])
      PROVE  Down(stack[v][i], stack'[v][i])
  <2>1. CASE v = w
    BY <2>1, <1>2, <1>5
  <2>2. CASE v # w
    BY <2>2, <1>2 DEF Down
  <2> QED BY <2>1, <2>2
<1> QED BY <1>4, <1>5 DEF Descent

LEMMA InnermostIsTop ==
  ASSUME WalksInv, NEW w \in Walkers, stack[w] # <<>>
  PROVE  /\ SoundStack(stack[w]) /\ Len(stack[w]) \in Nat \ {0}
         /\ Top(w) = stack[w][Len(stack[w])] /\ Top(w) \in Frames
BY DEF WalksInv, Top, SoundStack

LEMMA StayStep ==
  ASSUME WalksInv, NEW w \in Walkers, stack[w] # <<>>, ret[w] = Nothing,
         NEW g \in Frames, g.name = Top(w).name, Down(Top(w), g), Stay(w, g)
  PROVE  WalksInv' /\ Descent
<1> DEFINE s == [stack[w] EXCEPT ![Len(stack[w])] = g]
<1>1. /\ SoundStack(stack[w]) /\ Len(stack[w]) \in Nat \ {0}
      /\ Top(w) = stack[w][Len(stack[w])]
  BY InnermostIsTop
<1>2. /\ SoundStack(s) /\ Len(s) = Len(stack[w]) /\ s[Len(stack[w])] = g
      /\ \A i \in 1 .. Len(stack[w]) - 1 : s[i] = stack[w][i]
  BY <1>1, StackStays
<1>3. stack' = [stack EXCEPT ![w] = s] /\ ret' = [ret EXCEPT ![w] = Nothing]
  BY DEF Stay, WalksInv
<1>4. SoundAnswer(Nothing) /\ Fits(s, Nothing)
  BY DEF WalksInv, Fits
<1> HIDE DEF s
<1>5. \A i \in 1 .. Len(stack[w]) : Down(stack[w][i], s[i])
  BY <1>1, <1>2 DEF Down
<1> QED BY <1>2, <1>3, <1>4, <1>5, OneWalks

LEMMA ReturnStep ==
  ASSUME WalksInv, NEW w \in Walkers, stack[w] # <<>>, NEW ans,
         SoundAnswer([rcode |-> ans.rcode, records |-> ans.records, name |-> Top(w).name]),
         Return(w, ans)
  PROVE  WalksInv' /\ Descent
<1> DEFINE s == SubSeq(stack[w], 1, Len(stack[w]) - 1)
           r == [rcode |-> ans.rcode, records |-> ans.records, name |-> Top(w).name]
<1>1. /\ SoundStack(stack[w]) /\ Len(stack[w]) \in Nat \ {0}
      /\ Top(w) = stack[w][Len(stack[w])]
  BY InnermostIsTop
<1>2. stack' = [stack EXCEPT ![w] = s] /\ ret' = [ret EXCEPT ![w] = r]
  BY DEF Return
<1>3. r.name = stack[w][Len(stack[w])].name /\ SoundAnswer(r)
  BY <1>1
<1> HIDE DEF r
<1>4. /\ SoundStack(s) /\ Fits(s, r) /\ Len(s) = Len(stack[w]) - 1
      /\ \A i \in 1 .. Len(stack[w]) - 1 : s[i] = stack[w][i]
  BY <1>1, <1>3, StackReturns
<1> HIDE DEF s
<1>5. \A i \in 1 .. Len(stack[w]) : i \in 1 .. Len(s) => Down(stack[w][i], s[i])
  BY <1>1, <1>4 DEF Down
<1> QED BY <1>2, <1>3, <1>4, <1>5, OneWalks

-----------------------------------------------------------------------------
(* Where a walk begins *)

LEMMA ClosestZone ==
  ASSUME NEW n \in Names
  PROVE  /\ Closest(n) \in Names /\ IsSubdomain(n, Closest(n))
         /\ Closest(n) # Root => zones[Closest(n)] # {}
<1> DEFINE held == {z \in Names \ {Root} : zones[z] # {} /\ IsSubdomain(n, z)}
<1>1. CASE held = {}
  BY <1>1, RootIsAbove DEF Closest
<1>2. CASE held # {}
  <2> DEFINE c == CHOOSE z \in held : \A y \in held : IsSubdomain(z, y)
  <2>1. Closest(n) = c
    BY <1>2 DEF Closest
  <2>2. \A z \in held : z \in Names /\ zones[z] # {} /\ IsSubdomain(n, z)
    OBVIOUS
  <2>3. held \in SUBSET Names
    OBVIOUS
  <2> HIDE DEF held
  <2>4. c \in held
    BY <1>2, <2>2, <2>3, Deepest
  <2> QED BY <2>1, <2>2, <2>4
<1> QED BY <1>1, <1>2

LEMMA NewFrameSound ==
  ASSUME ZonesInv, NEW n \in Names
  PROVE  NewFrame(n) \in Frames /\ NewFrame(n).name = n
<1> DEFINE z == Closest(n)
           servers == IF z = Root THEN Roots ELSE zones[z]
<1>1. z \in Names /\ IsSubdomain(n, z) /\ (z # Root => zones[z] # {})
  BY ClosestZone
<1>2. servers \in SUBSET Addresses /\ Known(z) /\ OwnServers(z, servers)
  <2>1. CASE z = Root
    BY <2>1, WorldAssumption DEF Roots, Known, OwnServers
  <2>2. CASE z # Root
    BY <2>2, <1>1 DEF ZonesInv, SoundEntry
  <2> QED BY <2>1, <2>2
<1>3. NewFrame(n) =
        [name |-> n, zone |-> z, servers |-> servers,
         tried |-> {}, step |-> 0, restarted |-> FALSE, at |-> "ask", ip |-> NoName, cut |-> Root,
         ns |-> {}, addrs |-> {}, chain |-> {}]
  BY DEF NewFrame
<1> HIDE DEF z, servers
<1>4. Root \in Names
  BY RootIsAbove
<1>5. NewFrame(n) \in Frame
  BY <1>1, <1>2, <1>3, <1>4 DEF Frame
<1>6. SoundFrame(NewFrame(n))
  BY <1>1, <1>2, <1>3 DEF SoundFrame, TrueRecords
<1> QED BY <1>3, <1>5, <1>6 DEF Frames

LEMMA CallStep ==
  ASSUME ZonesInv, WalksInv, NEW w \in Walkers, stack[w] # <<>>, ret[w] = Nothing,
         NEW g \in Frames, g.name = Top(w).name, g.zone = Top(w).zone,
         NEW n \in Names, g.at = "ns" => n \in g.ns, Call(w, g, n)
  PROVE  WalksInv' /\ Descent
<1>1. /\ SoundStack(stack[w]) /\ Len(stack[w]) \in Nat \ {0}
      /\ Top(w) = stack[w][Len(stack[w])]
  BY InnermostIsTop
<1>2. CASE Len(stack[w]) > MaxDepth
  <2> DEFINE s == [stack[w] EXCEPT ![Len(stack[w])] = g]
             r == [rcode |-> "fail", records |-> {}, name |-> n]
  <2>1. /\ SoundStack(s) /\ Len(s) = Len(stack[w]) /\ s[Len(stack[w])] = g
        /\ \A i \in 1 .. Len(stack[w]) - 1 : s[i] = stack[w][i]
    BY <1>1, StackStays
  <2>2. stack' = [stack EXCEPT ![w] = s] /\ ret' = [ret EXCEPT ![w] = r]
    BY <1>2 DEF Call
  <2> HIDE DEF s
  <2>3. SoundAnswer(r)
    BY DEF SoundAnswer, Returning, TrueAnswer, TrueRecords
  <2>4. Fits(s, r)
    BY <2>1 DEF Fits
  <2>5. \A i \in 1 .. Len(stack[w]) : Down(stack[w][i], s[i])
    BY <1>1, <2>1 DEF Down
  <2> HIDE DEF r
  <2> QED BY <2>1, <2>2, <2>3, <2>4, <2>5, OneWalks
<1>3. CASE Len(stack[w]) <= MaxDepth
  <2> DEFINE h == NewFrame(n)
             s == Append([stack[w] EXCEPT ![Len(stack[w])] = g], h)
  <2>1. h \in Frames /\ h.name = n
    BY NewFrameSound
  <2>2. stack' = [stack EXCEPT ![w] = s] /\ ret' = [ret EXCEPT ![w] = Nothing]
    <3>1. MaxDepth \in Nat
      BY LimitAssumption
    <3> QED BY <1>1, <1>3, <3>1 DEF Call, WalksInv
  <2> HIDE DEF h
  <2>3. /\ SoundStack(s) /\ s[Len(stack[w])] = g
        /\ \A i \in 1 .. Len(stack[w]) - 1 : s[i] = stack[w][i]
    BY <1>1, <1>3, <2>1, StackGrows
  <2> HIDE DEF s
  <2>4. SoundAnswer(Nothing) /\ Fits(s, Nothing)
    BY DEF WalksInv, Fits
  <2>5. \A i \in 1 .. Len(stack[w]) : Down(stack[w][i], s[i])
    BY <1>1, <2>3 DEF Down
  <2> QED BY <2>2, <2>3, <2>4, <2>5, OneWalks
<1>4. Len(stack[w]) > MaxDepth \/ Len(stack[w]) <= MaxDepth
  BY <1>1, LimitAssumption
<1> QED BY <1>2, <1>3, <1>4

LEMMA FailureSound ==
  ASSUME NEW n \in Names
  PROVE  SoundAnswer([rcode |-> "fail", records |-> {}, name |-> n])
BY DEF SoundAnswer, Returning, TrueAnswer, TrueRecords

\* The frame at the zone it goes to.
Visiting(f, zone, servers) ==
  [f EXCEPT !.zone = zone, !.servers = servers, !.tried = {}, !.step = @ + 1,
            !.at = "ask", !.ip = NoName, !.ns = {}, !.addrs = {}, !.cut = Root]

LEMMA VisitingSound ==
  ASSUME NEW f \in Frames, NEW zone \in Names, NEW servers \in SUBSET Addresses,
         IsSubdomain(f.name, zone), Known(zone), OwnServers(zone, servers)
  PROVE  LET g == Visiting(f, zone, servers)
         IN  /\ g \in Frames
             /\ g.name = f.name /\ g.zone = zone /\ g.servers = servers /\ g.at = "ask"
             /\ g.chain = f.chain /\ g.restarted = f.restarted /\ g.addrs = {}
             /\ g.tried = {} /\ g.step = f.step + 1
<1> DEFINE g == Visiting(f, zone, servers)
<1>1. f \in Frame /\ TrueRecords(f.chain) /\ f.name \in Names /\ f.step \in Nat
  BY FrameFields DEF SoundFrame
<1>2. g \in Frame
  <2> DEFINE k == f.step + 1
             h == [f EXCEPT !.zone = zone, !.servers = servers, !.tried = {}, !.step = k]
  <2>1. g = [h EXCEPT !.at = "ask", !.ip = NoName, !.ns = {}, !.addrs = {}, !.cut = Root]
    BY DEF Visiting
  <2>2. k \in Nat
    BY <1>1
  <2> HIDE DEF k
  <2>3. h \in Frame
    BY <1>1, <2>2 DEF Frame
  <2> HIDE DEF g, h
  <2> QED BY <2>1, <2>3, RootIsAbove DEF Frame
<1>3. /\ g.name = f.name /\ g.zone = zone /\ g.servers = servers /\ g.at = "ask"
      /\ g.chain = f.chain /\ g.restarted = f.restarted /\ g.addrs = {}
      /\ g.tried = {} /\ g.step = f.step + 1
  BY <1>1 DEF Frame, Visiting
<1> HIDE DEF g
<1>4. g \in Frames
  BY <1>1, <1>2, <1>3 DEF Frames, SoundFrame
<1> QED BY <1>3, <1>4 DEF g

\* A walk that goes to a zone whose own servers it has been told, down or to
\* the root, is sound there.
LEMMA VisitStep ==
  ASSUME WalksInv, NEW w \in Walkers, stack[w] # <<>>, ret[w] = Nothing,
         NEW f \in Frames, f.name = Top(w).name, NEW zone \in Names, NEW servers \in SUBSET Addresses,
         IsSubdomain(f.name, zone), Known(zone), OwnServers(zone, servers),
         \/ IsSubdomain(zone, Top(w).zone)
         \/ zone = Root /\ ~Top(w).restarted /\ f.restarted,
         Visit(w, f, zone, servers)
  PROVE  WalksInv' /\ Descent
<1> DEFINE g == Visiting(f, zone, servers)
<1>1. f.name \in Names
  BY FrameFields
<1>2. Visit(w, f, zone, servers) => Stay(w, g) \/ Return(w, Failed)
  BY DEF Visit, Visiting
<1> HIDE DEF g
<1>3. g \in Frames /\ g.name = f.name /\ g.zone = zone /\ g.restarted = f.restarted
  BY VisitingSound DEF g
<1>4. CASE Stay(w, g)
  <2>1. Down(Top(w), g)
    BY <1>3 DEF Down
  <2> QED BY <1>3, <1>4, <2>1, StayStep
<1>5. CASE Return(w, Failed)
  BY <1>1, <1>5, FailureSound, ReturnStep DEF Failed
<1> QED BY <1>2, <1>4, <1>5

\* What resolveUncached makes of an answer that is believed.
LEMMA ConcludeStep ==
  ASSUME ZonesInv, WalksInv, NEW w \in Walkers, stack[w] # <<>>, ret[w] = Nothing,
         NEW f \in Frames, f.name = Top(w).name, f.zone = Top(w).zone,
         NEW rcode, rcode \in {"ok", "nx"}, NEW records \in SUBSET Records, TrueRecords(records),
         HonestName(f.name) =>
           /\ \A r \in records : r.owner = f.name /\ r.data # f.name
           /\ rcode = "nx" => Data[f.name] = {NoName}
           /\ rcode = "ok" =>
                Data[f.name] = {NoData} \/ \E r \in records : r.data \in Names \cup Addresses,
         Conclude(w, f, rcode, records)
  PROVE  WalksInv' /\ Descent
<1> DEFINE c == FollowChain(f.name, records)
           g == [f EXCEPT !.at = "alias", !.chain = c.chain, !.servers = {}, !.tried = {}, !.step = 0]
<1>1. f \in Frame /\ SoundFrame(f) /\ f.name \in Names
  BY FrameFields
<1>2. Along(c, f.name, records) /\ Thorough(c, f.name, records)
  BY <1>1, ChainFollowed
<1>3. \/ c.complete /\ Return(w, Ok(c.chain))
      \/ rcode = "nx" /\ Return(w, [rcode |-> "nx", records |-> c.chain])
      \/ ~c.complete /\ rcode = "ok" /\ c.target = f.name /\ Return(w, Ok({}))
      \/ c.target # f.name /\ Call(w, g, c.target)
  BY DEF Conclude
<1> HIDE DEF c
<1>4. /\ c.chain \in SUBSET Records /\ c.target \in Names /\ TrueRecords(c.chain)
      /\ (\E r \in c.chain : r.owner # f.name) => Aliases(f.name, c.chain)
  BY <1>2 DEF Along, Walk, TrueRecords
<1>5. CASE c.complete /\ Return(w, Ok(c.chain))
  <2>1. c.chain # {}
    BY <1>2, <1>5 DEF Along
  <2>2. SoundAnswer([rcode |-> "ok", records |-> c.chain, name |-> f.name])
    BY <1>1, <1>4, <2>1 DEF SoundAnswer, Returning, TrueAnswer
  <2> QED BY <1>5, <2>2, ReturnStep DEF Ok
<1>6. CASE rcode = "nx" /\ Return(w, [rcode |-> "nx", records |-> c.chain])
  <2>1. SoundAnswer([rcode |-> "nx", records |-> c.chain, name |-> f.name])
    BY <1>1, <1>4, <1>6 DEF SoundAnswer, Returning, TrueAnswer
  <2> QED BY <1>6, <2>1, ReturnStep
<1>7. CASE ~c.complete /\ rcode = "ok" /\ c.target = f.name /\ Return(w, Ok({}))
  <2>1. HonestName(f.name) => Data[f.name] = {NoData}
    BY <1>2, <1>7 DEF Thorough
  <2>2. SoundAnswer([rcode |-> "ok", records |-> {}, name |-> f.name])
    BY <1>1, <2>1 DEF SoundAnswer, Returning, TrueAnswer, TrueRecords
  <2> QED BY <1>7, <2>2, ReturnStep DEF Ok
<1>8. CASE c.target # f.name /\ Call(w, g, c.target)
  <2>1. g \in Frame
    BY <1>1, <1>4 DEF Frame
  <2>2. /\ g.name = f.name /\ g.zone = f.zone /\ g.servers = {} /\ g.at = "alias"
        /\ g.chain = c.chain
    BY <1>1 DEF Frame
  <2> HIDE DEF g
  <2>3. SoundFrame(g)
    BY <1>1, <1>2, <1>4, <1>8, <2>2 DEF SoundFrame, Along, OwnServers
  <2>4. g \in Frames
    BY <2>1, <2>3 DEF Frames
  <2> QED BY <1>4, <1>8, <2>2, <2>4, CallStep
<1> QED BY <1>3, <1>5, <1>6, <1>7, <1>8

-----------------------------------------------------------------------------
(* The steps *)

LEMMA PutSound ==
  ASSUME ZonesInv, NEW z \in Names, NEW servers \in SUBSET Addresses,
         servers # {} => Known(z) /\ OwnServers(z, servers),
         zones' = [zones EXCEPT ![z] = servers]
  PROVE  ZonesInv'
BY DEF ZonesInv, SoundEntry, OwnServers, Known

LEMMA Asked ==
  ASSUME WalksInv, NEW w \in Walkers, NEW a, NEW proto, Asks(w, a, proto)
  PROVE  /\ stack[w] # <<>> /\ ret[w] = Nothing /\ Top(w) \in Frames
         /\ Top(w).at \in {"ask", "tcp"}
         /\ a \in Addresses /\ a \in Top(w).servers /\ OwnServers(Top(w).zone, {a})
         /\ Past(w, a) \in Frames
         /\ Past(w, a).name = Top(w).name /\ Past(w, a).zone = Top(w).zone
         /\ Past(w, a).restarted = Top(w).restarted /\ Past(w, a).addrs = {}
<1>1. stack[w] # <<>> /\ ret[w] = Nothing /\ Top(w).at \in {"ask", "tcp"}
  BY DEF Asks, At
<1> DEFINE f == Top(w)
           g == Past(w, a)
<1>2. f \in Frames
  BY <1>1, InnermostIsTop
<1>3. f \in Frame /\ SoundFrame(f) /\ f.servers \subseteq Addresses
  BY <1>2, FrameFields
<1>4. a \in f.servers
  BY <1>3 DEF Asks, At, Untried, SoundFrame
<1>5. OwnServers(f.zone, {a})
  BY <1>3, <1>4 DEF SoundFrame, OwnServers
<1> HIDE DEF f
<1>6. g = [f EXCEPT !.tried = @ \cup {a}, !.at = "ask", !.ip = NoName]
  BY DEF Past, f
<1> HIDE DEF g
<1>7. g \in Frame
  BY <1>3, <1>4, <1>6 DEF Frame
<1>8. /\ g.name = f.name /\ g.zone = f.zone /\ g.servers = f.servers /\ g.at = "ask"
      /\ g.chain = f.chain /\ g.restarted = f.restarted /\ g.addrs = {}
  BY <1>1, <1>3, <1>6 DEF Frame, SoundFrame, f
<1>9. g \in Frames
  BY <1>3, <1>7, <1>8 DEF Frames, SoundFrame
<1> QED BY <1>1, <1>2, <1>3, <1>4, <1>5, <1>8, <1>9 DEF f, g

LEMMA StackKept ==
  ASSUME WalksInv, UNCHANGED <<stack, ret>>
  PROVE  WalksInv' /\ Descent
BY DEF WalksInv, Descent, Down, SoundStack, SoundAnswer, Fits, TrueAnswer, TrueRecords

LEMMA WorldKept ==
  ASSUME WorldInv, UNCHANGED inUse
  PROVE  WorldInv'
BY DEF WorldInv, Reachable

LEMMA ZonesKept ==
  ASSUME ZonesInv, UNCHANGED zones
  PROVE  ZonesInv'
BY DEF ZonesInv

LEMMA BeginStep ==
  ASSUME LookupInv, NEW w \in Walkers, NEW n \in Questions[w], Begin(w, n)
  PROVE  LookupInv' /\ Descent
<1>1. n \in Names
  BY WorldAssumption
<1> DEFINE h == NewFrame(n)
           s == <<h>>
<1>2. stack' = [stack EXCEPT ![w] = s] /\ ret' = [ret EXCEPT ![w] = Nothing] /\ stack[w] = <<>>
  BY DEF Begin, LookupInv, WalksInv
<1>3. h \in Frames
  BY <1>1, NewFrameSound DEF LookupInv
<1> HIDE DEF h
<1>4. SoundStack(s)
  BY <1>3, LimitAssumption DEF SoundStack, Linked
<1>5. SoundAnswer(Nothing) /\ Fits(s, Nothing)
  BY <1>2 DEF LookupInv, WalksInv, Begin, Fits
<1> HIDE DEF s
<1>6. \A i \in 1 .. Len(stack[w]) : i \in 1 .. Len(s) => Down(stack[w][i], s[i])
  BY <1>2
<1>7. WalksInv' /\ Descent
  BY <1>2, <1>4, <1>5, <1>6, OneWalks DEF LookupInv
<1> QED BY <1>7, WorldKept, ZonesKept DEF Begin, LookupInv

LEMMA TimeoutStep ==
  ASSUME LookupInv, NEW w \in Walkers, Timeout(w)
  PROVE  LookupInv' /\ Descent
<1>1. PICK a \in Addresses :
        /\ \E proto \in {"udp", "tcp"} : Asks(w, a, proto)
        /\ Stay(w, Past(w, a))
        /\ lost' = [lost EXCEPT ![w] = @ \/ a \in inUse]
  BY DEF Timeout
<1>2. /\ stack[w] # <<>> /\ ret[w] = Nothing /\ Past(w, a) \in Frames
      /\ Past(w, a).name = Top(w).name /\ Past(w, a).zone = Top(w).zone
  BY <1>1, Asked DEF LookupInv
<1>3. Down(Top(w), Past(w, a))
  BY <1>2 DEF Down
<1>4. WalksInv' /\ Descent
  BY <1>1, <1>2, <1>3, StayStep DEF LookupInv
<1>5. lost' \in [Walkers -> BOOLEAN]
  BY <1>1 DEF LookupInv
<1> QED BY <1>4, <1>5, WorldKept, ZonesKept DEF Timeout, LookupInv

LEMMA TruncatedStep ==
  ASSUME LookupInv, NEW w \in Walkers, Truncated(w)
  PROVE  LookupInv' /\ Descent
<1>1. PICK a \in inUse :
        /\ Asks(w, a, "udp")
        /\ Stay(w, [Top(w) EXCEPT !.tried = @ \cup {a}, !.at = "tcp", !.ip = a])
  BY DEF Truncated
<1> DEFINE f == Top(w)
           g == [f EXCEPT !.tried = @ \cup {a}, !.at = "tcp", !.ip = a]
<1>2. /\ stack[w] # <<>> /\ ret[w] = Nothing /\ f \in Frames
      /\ a \in Addresses /\ a \in f.servers /\ f.at \in {"ask", "tcp"}
  BY <1>1, Asked DEF LookupInv
<1>3. Stay(w, g)
  BY <1>1
<1> HIDE DEF f
<1>4. f \in Frame /\ SoundFrame(f)
  BY <1>2, FrameFields
<1>5. g \in Frame
  BY <1>2, <1>4 DEF Frame
<1>6. /\ g.name = f.name /\ g.zone = f.zone /\ g.servers = f.servers /\ g.at = "tcp" /\ g.ip = a
      /\ g.chain = f.chain /\ g.addrs = f.addrs
  BY <1>4 DEF Frame
<1> HIDE DEF g
<1>7. g \in Frames /\ Down(f, g)
  BY <1>2, <1>4, <1>5, <1>6 DEF Frames, SoundFrame, Down
<1>8. WalksInv' /\ Descent
  BY <1>2, <1>3, <1>6, <1>7, StayStep DEF LookupInv, f
<1> QED BY <1>8, WorldKept, ZonesKept DEF Truncated, LookupInv

\* What a walk learns from a reply that is believed.
LEMMA Answered ==
  ASSUME LookupInv, NEW w \in Walkers, NEW a \in Addresses, NEW proto, Asks(w, a, proto),
         NEW m \in Replies(a, Top(w).name, proto), NEW f, f = Past(w, a),
         Classify(m, f.zone, f.name) \in {"answer", "nx", "nodata"}
  PROVE  /\ InZone(m.answers, f.zone) \in SUBSET Records /\ m.rcode \in {"ok", "nx"}
         /\ TrueRecords(InZone(m.answers, f.zone))
         /\ HonestName(f.name) =>
              /\ \A r \in InZone(m.answers, f.zone) : r.owner = f.name /\ r.data # f.name
              /\ m.rcode = "nx" => Data[f.name] = {NoName}
              /\ m.rcode = "ok" =>
                   \/ Data[f.name] = {NoData}
                   \/ \E r \in InZone(m.answers, f.zone) : r.data \in Names \cup Addresses
<1>1. /\ f \in Frames /\ f.name = Top(w).name /\ OwnServers(f.zone, {a})
  BY Asked DEF LookupInv
<1>2. f.name \in Names /\ f.zone \in Names /\ IsSubdomain(f.name, f.zone) /\ Known(f.zone)
  BY <1>1, FrameFields DEF SoundFrame
<1>3. m \in Message
  BY <1>1, <1>2, SoundReply DEF LookupInv, WorldInv
<1>4. InZone(m.answers, f.zone) \in SUBSET Records /\ m.rcode \in {"ok", "nx"}
  BY <1>3 DEF Message, InZone, Classify
<1> QED BY <1>1, <1>2, <1>4, SoundReply DEF LookupInv, WorldInv

LEMMA Referred ==
  ASSUME LookupInv, NEW w \in Walkers, NEW a \in Addresses, NEW proto, Asks(w, a, proto),
         NEW m \in Replies(a, Top(w).name, proto), NEW f, f = Past(w, a),
         Classify(m, f.zone, f.name) = "referral", NEW cut \in Cuts(m, f.zone, f.name)
  PROVE  /\ cut \in Names /\ cut # f.zone /\ IsSubdomain(cut, f.zone) /\ IsSubdomain(f.name, cut)
         /\ Targets(m, cut) \in SUBSET Names
         /\ GlueAddrs(m, Targets(m, cut), f.zone) \in SUBSET Addresses
         /\ Known(cut) /\ OwnServers(cut, GlueAddrs(m, Targets(m, cut), f.zone))
         /\ cut \in Honest => Targets(m, cut) \subseteq NSNames[cut]
<1>1. /\ f \in Frames /\ f.name = Top(w).name /\ OwnServers(f.zone, {a})
  BY Asked DEF LookupInv
<1>2. f.name \in Names /\ f.zone \in Names /\ IsSubdomain(f.name, f.zone) /\ Known(f.zone)
  BY <1>1, FrameFields DEF SoundFrame
<1>3. m \in Message
  BY <1>1, <1>2, SoundReply DEF LookupInv, WorldInv
<1>4. /\ m.ns \in SUBSET [owner : Names, target : Names]
      /\ m.glue \in SUBSET [owner : Names, ip : Addresses]
  BY <1>3 DEF Message
<1>5. cut \in Names /\ cut # f.zone /\ IsSubdomain(cut, f.zone) /\ IsSubdomain(f.name, cut)
  BY <1>4 DEF Cuts
<1>6. Targets(m, cut) \in SUBSET Names /\ GlueAddrs(m, Targets(m, cut), f.zone) \in SUBSET Addresses
  BY <1>4 DEF Targets, GlueAddrs
<1>7. /\ Known(cut)
      /\ cut \in Honest => Targets(m, cut) \subseteq NSNames[cut]
      /\ OwnServers(cut, GlueAddrs(m, Targets(m, cut), f.zone))
  BY <1>1, <1>2, SoundReply DEF LookupInv, WorldInv
<1> QED BY <1>5, <1>6, <1>7

\* The frame that looks for the addresses of a zone's servers.
Seeking(f, cut, ns) ==
  [f EXCEPT !.at = "ns", !.cut = cut, !.ns = ns, !.servers = {}, !.tried = {}]

LEMMA SeekingSound ==
  ASSUME NEW f \in Frames, f.addrs = {}, NEW cut \in Names, NEW ns \in SUBSET Names,
         cut # f.zone, IsSubdomain(cut, f.zone), IsSubdomain(f.name, cut),
         Known(cut), cut \in Honest => ns \subseteq NSNames[cut]
  PROVE  LET g == Seeking(f, cut, ns)
         IN  /\ g \in Frames
             /\ g.name = f.name /\ g.zone = f.zone /\ g.servers = {} /\ g.at = "ns" /\ g.cut = cut
             /\ g.ns = ns /\ g.addrs = {} /\ g.chain = f.chain /\ g.tried = {} /\ g.step = f.step
<1> DEFINE g == Seeking(f, cut, ns)
<1>1. f \in Frame /\ SoundFrame(f)
  BY FrameFields
<1>2. g \in Frame
  BY <1>1 DEF Frame, Seeking
<1>3. /\ g.name = f.name /\ g.zone = f.zone /\ g.servers = {} /\ g.at = "ns" /\ g.cut = cut
      /\ g.ns = ns /\ g.addrs = {} /\ g.chain = f.chain /\ g.tried = {} /\ g.step = f.step
  BY <1>1 DEF Frame, Seeking
<1> HIDE DEF g
<1>4. SoundFrame(g)
  BY <1>1, <1>3 DEF SoundFrame, OwnServers
<1> QED BY <1>2, <1>3, <1>4 DEF Frames, g

\* The ways on from a reply.
LEMMA HandleCases ==
  ASSUME NEW w, NEW a, NEW m, Handle(w, a, m), NEW f, f = Past(w, a)
  PROVE  \/ Classify(m, f.zone, f.name) = "lame" /\ Stay(w, f) /\ UNCHANGED zones
         \/ /\ Classify(m, f.zone, f.name) \in {"answer", "nx", "nodata"}
            /\ Conclude(w, f, m.rcode, InZone(m.answers, f.zone)) /\ UNCHANGED zones
         \/ /\ Classify(m, f.zone, f.name) = "referral"
            /\ \E cut \in Cuts(m, f.zone, f.name) :
                 \/ /\ GlueAddrs(m, Targets(m, cut), f.zone) = {}
                    /\ Stay(w, Seeking(f, cut, Targets(m, cut))) /\ UNCHANGED zones
                 \/ /\ GlueAddrs(m, Targets(m, cut), f.zone) # {}
                    /\ Put(cut, GlueAddrs(m, Targets(m, cut), f.zone))
                    /\ Visit(w, f, cut, GlueAddrs(m, Targets(m, cut), f.zone))
BY DEF Handle, Seeking

LEMMA HandleStep ==
  ASSUME LookupInv, NEW w \in Walkers, NEW a \in Addresses, NEW proto, Asks(w, a, proto),
         NEW m \in Replies(a, Top(w).name, proto), Handle(w, a, m)
  PROVE  ZonesInv' /\ WalksInv' /\ Descent
<1> DEFINE f == Past(w, a)
<1>1. /\ stack[w] # <<>> /\ ret[w] = Nothing /\ f \in Frames
      /\ f.name = Top(w).name /\ f.zone = Top(w).zone /\ f.restarted = Top(w).restarted
      /\ f.addrs = {}
  BY Asked DEF LookupInv
<1>2. CASE Stay(w, f) /\ UNCHANGED zones
  <2>1. Down(Top(w), f)
    BY <1>1 DEF Down
  <2> QED BY <1>1, <1>2, <2>1, StayStep, ZonesKept DEF LookupInv
<1>3. CASE /\ Classify(m, f.zone, f.name) \in {"answer", "nx", "nodata"}
           /\ Conclude(w, f, m.rcode, InZone(m.answers, f.zone)) /\ UNCHANGED zones
  <2> DEFINE records == InZone(m.answers, f.zone)
  <2>1. /\ records \in SUBSET Records /\ m.rcode \in {"ok", "nx"} /\ TrueRecords(records)
        /\ HonestName(f.name) =>
             /\ \A r \in records : r.owner = f.name /\ r.data # f.name
             /\ m.rcode = "nx" => Data[f.name] = {NoName}
             /\ m.rcode = "ok" =>
                  Data[f.name] = {NoData} \/ \E r \in records : r.data \in Names \cup Addresses
    BY <1>3, Answered
  <2>2. Conclude(w, f, m.rcode, records)
    BY <1>3
  <2> HIDE DEF records, f
  <2>3. WalksInv' /\ Descent
    BY <1>1, <2>1, <2>2, ConcludeStep DEF LookupInv
  <2> QED BY <1>3, <2>3, ZonesKept DEF LookupInv
<1>4. ASSUME Classify(m, f.zone, f.name) = "referral", NEW cut \in Cuts(m, f.zone, f.name),
             Stay(w, Seeking(f, cut, Targets(m, cut))), UNCHANGED zones
      PROVE  ZonesInv' /\ WalksInv' /\ Descent
  <2> DEFINE g == Seeking(f, cut, Targets(m, cut))
  <2>1. /\ cut \in Names /\ cut # f.zone /\ IsSubdomain(cut, f.zone) /\ IsSubdomain(f.name, cut)
        /\ Targets(m, cut) \in SUBSET Names /\ Known(cut)
        /\ cut \in Honest => Targets(m, cut) \subseteq NSNames[cut]
    BY <1>4, Referred
  <2> HIDE DEF f
  <2>2. g \in Frames /\ g.name = f.name /\ g.zone = f.zone
    BY <1>1, <2>1, SeekingSound
  <2>3. Stay(w, g)
    BY <1>4
  <2> HIDE DEF g
  <2>4. Down(Top(w), g)
    BY <1>1, <2>2 DEF Down
  <2> QED BY <1>1, <1>4, <2>2, <2>3, <2>4, StayStep, ZonesKept DEF LookupInv
<1>5. ASSUME Classify(m, f.zone, f.name) = "referral", NEW cut \in Cuts(m, f.zone, f.name),
             NEW addrs, addrs = GlueAddrs(m, Targets(m, cut), f.zone),
             Put(cut, addrs), Visit(w, f, cut, addrs)
      PROVE  ZonesInv' /\ WalksInv' /\ Descent
  <2>1. /\ cut \in Names /\ IsSubdomain(cut, f.zone) /\ IsSubdomain(f.name, cut)
        /\ addrs \in SUBSET Addresses /\ Known(cut) /\ OwnServers(cut, addrs)
    BY <1>5, Referred
  <2> HIDE DEF f
  <2>2. WalksInv' /\ Descent
    BY <1>1, <1>5, <2>1, VisitStep DEF LookupInv
  <2>3. ZonesInv'
    BY <1>5, <2>1, PutSound DEF Put, LookupInv
  <2> QED BY <2>2, <2>3
<1> QED BY <1>2, <1>3, <1>4, <1>5, HandleCases

LEMMA ReceiveStep ==
  ASSUME LookupInv, NEW w \in Walkers, Receive(w)
  PROVE  LookupInv' /\ Descent
<1>1. PICK a \in Addresses, proto \in {"udp", "tcp"} :
        /\ Asks(w, a, proto)
        /\ \E m \in Replies(a, Top(w).name, proto) :
             /\ Handle(w, a, m)
             /\ lost' = [lost EXCEPT ![w] = @ \/ Classify(m, Top(w).zone, Top(w).name) = "lame"]
  BY DEF Receive
<1>2. PICK m \in Replies(a, Top(w).name, proto) :
        /\ Handle(w, a, m)
        /\ lost' = [lost EXCEPT ![w] = @ \/ Classify(m, Top(w).zone, Top(w).name) = "lame"]
  BY <1>1
<1>3. ZonesInv' /\ WalksInv' /\ Descent
  BY <1>1, <1>2, HandleStep
<1>4. lost' \in [Walkers -> BOOLEAN]
  BY <1>2 DEF LookupInv
<1> QED BY <1>3, <1>4, WorldKept DEF Receive, LookupInv

LEMMA GiveUpStep ==
  ASSUME LookupInv, NEW w \in Walkers, GiveUp(w)
  PROVE  LookupInv' /\ Descent
<1> DEFINE f == Top(w)
           g == [f EXCEPT !.restarted = TRUE]
<1>1. stack[w] # <<>> /\ ret[w] = Nothing /\ f.at = "ask"
  BY DEF GiveUp, At
<1>2. f \in Frames
  BY <1>1, InnermostIsTop DEF LookupInv
<1>3. \/ /\ ~f.restarted /\ zones' = [zones EXCEPT ![f.zone] = {}]
         /\ Visit(w, g, Root, Roots)
      \/ Return(w, Failed) /\ UNCHANGED zones
  BY DEF GiveUp
<1>4. Top(w) = f
  OBVIOUS
<1> HIDE DEF f
<1>5. f \in Frame /\ SoundFrame(f) /\ f.name \in Names /\ f.zone \in Names
  BY <1>2, FrameFields
<1>6. CASE /\ ~f.restarted /\ zones' = [zones EXCEPT ![f.zone] = {}]
           /\ Visit(w, g, Root, Roots)
  <2>1. g \in Frame
    BY <1>5 DEF Frame
  <2>2. /\ g.name = f.name /\ g.zone = f.zone /\ g.servers = f.servers /\ g.at = "ask"
        /\ g.chain = f.chain /\ g.restarted = TRUE /\ g.addrs = f.addrs
    BY <1>1, <1>4, <1>5 DEF Frame
  <2> HIDE DEF g
  <2>3. g \in Frames
    BY <1>1, <1>4, <1>5, <2>1, <2>2 DEF Frames, SoundFrame
  <2>4. Root \in Names /\ IsSubdomain(g.name, Root) /\ Known(Root)
    BY <1>5, <2>2, RootIsAbove, WorldAssumption DEF Known
  <2>5. Roots \in SUBSET Addresses /\ OwnServers(Root, Roots)
    BY DEF Roots, OwnServers
  <2>6. WalksInv' /\ Descent
    BY <1>1, <1>4, <1>6, <2>2, <2>3, <2>4, <2>5, VisitStep DEF LookupInv
  <2>7. ZonesInv'
    BY <1>5, <1>6, PutSound DEF LookupInv
  <2> QED BY <2>6, <2>7, WorldKept DEF GiveUp, LookupInv
<1>7. CASE Return(w, Failed) /\ UNCHANGED zones
  <2>1. WalksInv' /\ Descent
    BY <1>1, <1>4, <1>5, <1>7, FailureSound, ReturnStep DEF Failed, LookupInv
  <2> QED BY <1>7, <2>1, WorldKept, ZonesKept DEF GiveUp, LookupInv
<1> QED BY <1>3, <1>6, <1>7

LEMMA ResolveNSStep ==
  ASSUME LookupInv, NEW w \in Walkers, ResolveNS(w)
  PROVE  LookupInv' /\ Descent
<1> DEFINE f == Top(w)
<1>1. stack[w] # <<>> /\ ret[w] = Nothing /\ f.at = "ns"
  BY DEF ResolveNS, At
<1>2. f \in Frames
  BY <1>1, InnermostIsTop DEF LookupInv
<1>3. PICK n \in Unresolved(f) : Call(w, [f EXCEPT !.tried = @ \cup {n}], n)
  BY DEF ResolveNS
<1>4. Top(w) = f
  OBVIOUS
<1> HIDE DEF f
<1>5. f \in Frame /\ SoundFrame(f)
  BY <1>2, FrameFields
<1>6. n \in f.ns /\ n \in Names
  BY <1>2, FrameFields DEF Unresolved
<1> DEFINE g == [f EXCEPT !.tried = @ \cup {n}]
<1>7. g \in Frame
  BY <1>5, <1>6 DEF Frame
<1>8. /\ g.name = f.name /\ g.zone = f.zone /\ g.servers = f.servers /\ g.at = f.at
      /\ g.ip = f.ip /\ g.cut = f.cut /\ g.ns = f.ns /\ g.addrs = f.addrs /\ g.chain = f.chain
  BY <1>5 DEF Frame
<1>9. Call(w, g, n)
  BY <1>3
<1> HIDE DEF g
<1>10. g \in Frames
  BY <1>5, <1>7, <1>8 DEF Frames, SoundFrame
<1>11. WalksInv' /\ Descent
  BY <1>1, <1>4, <1>6, <1>8, <1>9, <1>10, CallStep DEF LookupInv
<1> QED BY <1>11, WorldKept, ZonesKept DEF ResolveNS, LookupInv

LEMMA EnterZoneStep ==
  ASSUME LookupInv, NEW w \in Walkers, EnterZone(w)
  PROVE  LookupInv' /\ Descent
<1> DEFINE f == Top(w)
<1>1. stack[w] # <<>> /\ ret[w] = Nothing /\ f.at = "ns"
  BY DEF EnterZone, At
<1>2. f \in Frames
  BY <1>1, InnermostIsTop DEF LookupInv
<1>3. \/ Return(w, Failed) /\ UNCHANGED zones
      \/ Put(f.cut, f.addrs) /\ Visit(w, f, f.cut, f.addrs)
  BY DEF EnterZone
<1>4. Top(w) = f
  OBVIOUS
<1> HIDE DEF f
<1>5. /\ f.name \in Names /\ f.cut \in Names /\ f.addrs \in SUBSET Addresses
      /\ IsSubdomain(f.cut, f.zone) /\ IsSubdomain(f.name, f.cut)
      /\ Known(f.cut) /\ OwnServers(f.cut, f.addrs)
  BY <1>1, <1>2, <1>4, FrameFields DEF SoundFrame
<1>6. CASE Return(w, Failed) /\ UNCHANGED zones
  <2>1. WalksInv' /\ Descent
    BY <1>1, <1>4, <1>5, <1>6, FailureSound, ReturnStep DEF Failed, LookupInv
  <2> QED BY <1>6, <2>1, WorldKept, ZonesKept DEF EnterZone, LookupInv
<1>7. CASE Put(f.cut, f.addrs) /\ Visit(w, f, f.cut, f.addrs)
  <2>1. WalksInv' /\ Descent
    BY <1>1, <1>2, <1>4, <1>5, <1>7, VisitStep DEF LookupInv
  <2>2. ZonesInv'
    BY <1>5, <1>7, PutSound DEF Put, LookupInv
  <2> QED BY <2>1, <2>2, WorldKept DEF EnterZone, LookupInv
<1> QED BY <1>3, <1>6, <1>7

\* Whoever waits for a server's address takes only that server's.
LEMMA AddressesSound ==
  ASSUME NEW f \in Frames, f.at = "ns", NEW r, SoundAnswer(r), r.name \in f.ns, r # Nothing
  PROVE  /\ {d.data : d \in {s \in r.records : s.data \in Addresses}} \in SUBSET Addresses
         /\ OwnServers(f.cut, {d.data : d \in {s \in r.records : s.data \in Addresses}})
<1>1. /\ SoundFrame(f) /\ f.zone \in Names /\ f.cut \in Names
  BY FrameFields
<1>2. ASSUME f.cut \in Honest, NEW d \in r.records, d.data \in Addresses
      PROVE  Serves[d.data] = f.cut
  <2>1. r.name \in NSNames[f.cut] /\ f.cut # Root
    <3>1. f.cut # f.zone /\ IsSubdomain(f.cut, f.zone) /\ r.name \in NSNames[f.cut]
      BY <1>1, <1>2 DEF SoundFrame
    <3>2. IsSubdomain(f.zone, Root) /\ Len(Root) <= Len(f.zone)
      BY <1>1, RootIsAbove DEF IsSubdomain
    <3> QED BY <1>1, <3>1, <3>2, NoLonger, RootIsAbove
  <2>2. HonestName(r.name) /\ Data[r.name] \subseteq {a \in Addresses : Serves[a] = f.cut}
    BY <1>2, <2>1, WorldAssumption
  <2>3. TrueRecords(r.records)
    BY DEF SoundAnswer, TrueAnswer
  <2>4. ~ Aliases(r.name, r.records)
    <3>1. Names \cap Addresses = {}
      BY WorldAssumption
    <3> QED BY <2>2, <2>3, <3>1 DEF Aliases, TrueRecords
  <2>5. d.owner = r.name
    BY <2>4 DEF SoundAnswer
  <2> QED BY <2>2, <2>3, <2>5 DEF TrueRecords
<1> QED BY <1>2 DEF OwnServers

LEMMA ResumeStep ==
  ASSUME LookupInv, NEW w \in Walkers, Resume(w)
  PROVE  LookupInv' /\ Descent
<1> DEFINE f == Top(w)
           s == stack[w]
           r == ret[w]
           new == {d.data : d \in {e \in r.records : e.data \in Addresses}}
           g == [f EXCEPT !.addrs = @ \cup new]
<1>1. s # <<>> /\ r # Nothing
  BY DEF Resume
<1>2. /\ f \in Frames /\ f = s[Len(s)] /\ SoundStack(s) /\ Len(s) \in Nat \ {0}
      /\ SoundAnswer(r) /\ Fits(s, r)
  BY <1>1, InnermostIsTop DEF LookupInv, WalksInv
<1>3. \/ /\ f.at = "ns"
         /\ stack' = [stack EXCEPT ![w][Len(stack[w])].addrs = @ \cup new]
         /\ ret' = [ret EXCEPT ![w] = Nothing]
      \/ /\ f.at = "alias"
         /\ Return(w, IF r.rcode = "fail" THEN Failed
                      ELSE [rcode |-> r.rcode, records |-> f.chain \cup r.records])
  BY DEF Resume
<1>4. CASE /\ f.at = "ns"
           /\ stack' = [stack EXCEPT ![w][Len(stack[w])].addrs = @ \cup new]
           /\ ret' = [ret EXCEPT ![w] = Nothing]
  <2> DEFINE t == [s EXCEPT ![Len(s)] = g]
  <2>1. stack' = [stack EXCEPT ![w] = t]
    BY <1>2, <1>4
  <2>2. new \in SUBSET Addresses /\ OwnServers(f.cut, new)
    BY <1>1, <1>2, <1>4, AddressesSound DEF Fits
  <2> HIDE DEF new, f, s, r
  <2>3. f \in Frame /\ SoundFrame(f) /\ f.addrs \in SUBSET Addresses
    BY <1>2, FrameFields
  <2>4. g \in Frame
    BY <2>2, <2>3 DEF Frame
  <2>5. /\ g.name = f.name /\ g.zone = f.zone /\ g.servers = f.servers /\ g.at = "ns"
        /\ g.cut = f.cut /\ g.ns = f.ns /\ g.addrs = f.addrs \cup new /\ g.chain = f.chain
    BY <1>4, <2>3 DEF Frame
  <2> HIDE DEF g
  <2>6. g \in Frames
    BY <1>4, <2>2, <2>3, <2>4, <2>5 DEF Frames, SoundFrame, OwnServers
  <2>7. /\ SoundStack(t) /\ Len(t) = Len(s) /\ t[Len(s)] = g
        /\ \A i \in 1 .. Len(s) - 1 : t[i] = s[i]
    BY <1>1, <1>2, <2>5, <2>6, StackStays
  <2> HIDE DEF t
  <2>8. SoundAnswer(Nothing) /\ Fits(t, Nothing)
    BY DEF SoundAnswer, TrueAnswer, TrueRecords, Nothing, Fits
  <2>9. \A i \in 1 .. Len(s) : Down(s[i], t[i])
    BY <1>2, <2>5, <2>7 DEF Down
  <2>10. WalksInv' /\ Descent
    BY <1>4, <2>1, <2>7, <2>8, <2>9, OneWalks DEF LookupInv, s
  <2> QED BY <2>10, WorldKept, ZonesKept DEF Resume, LookupInv
<1>5. CASE /\ f.at = "alias"
           /\ Return(w, IF r.rcode = "fail" THEN Failed
                        ELSE [rcode |-> r.rcode, records |-> f.chain \cup r.records])
  <2>1. /\ f.name \in Names /\ f.chain \in SUBSET Records /\ TrueRecords(f.chain)
        /\ Aliases(f.name, f.chain)
    BY <1>2, <1>5, FrameFields DEF SoundFrame
  <2>2. r \in Returning /\ TrueRecords(r.records)
    BY <1>1, <1>2 DEF SoundAnswer, TrueAnswer
  <2> DEFINE ans == IF r.rcode = "fail" THEN Failed
                    ELSE [rcode |-> r.rcode, records |-> f.chain \cup r.records]
  <2>3. Top(w) = f /\ stack[w] = s
    OBVIOUS
  <2> HIDE DEF f, s, r
  <2>4. SoundAnswer([rcode |-> ans.rcode, records |-> ans.records, name |-> f.name])
    <3>1. CASE r.rcode = "fail"
      BY <2>1, <3>1, FailureSound DEF Failed
    <3>2. CASE r.rcode # "fail"
      <4> DEFINE u == [rcode |-> r.rcode, records |-> f.chain \cup r.records, name |-> f.name]
      <4>1. u \in Returning
        BY <2>1, <2>2 DEF Returning
      <4>2. TrueRecords(u.records) /\ u.records # {} /\ Aliases(u.name, u.records)
        BY <2>1, <2>2 DEF TrueRecords, Aliases
      <4>3. SoundAnswer(u)
        BY <4>1, <4>2 DEF SoundAnswer, TrueAnswer
      <4> QED BY <3>2, <4>3
    <3> QED BY <3>1, <3>2
  <2>5. Return(w, ans)
    BY <1>5
  <2> HIDE DEF ans
  <2>6. WalksInv' /\ Descent
    BY <1>1, <2>3, <2>4, <2>5, ReturnStep DEF LookupInv
  <2> QED BY <2>6, WorldKept, ZonesKept DEF Resume, LookupInv
<1> QED BY <1>3, <1>4, <1>5

LEMMA ExpireStep ==
  ASSUME LookupInv, NEW z \in Names, Expire(z)
  PROVE  LookupInv' /\ Descent
<1>1. ZonesInv'
  BY PutSound DEF Expire, LookupInv
<1> QED BY <1>1, StackKept, WorldKept DEF Expire, LookupInv

LEMMA FlushStep ==
  ASSUME LookupInv, FlushZones
  PROVE  LookupInv' /\ Descent
<1>1. ZonesInv'
  BY DEF FlushZones, ZonesInv, SoundEntry
<1> QED BY <1>1, StackKept, WorldKept DEF FlushZones, LookupInv

LEMMA RenumberStep ==
  ASSUME LookupInv, NEW old \in Addresses, NEW new \in Addresses, Renumber(old, new)
  PROVE  LookupInv' /\ Descent
<1>1. /\ old \in inUse /\ Serves[old] = Serves[new] /\ inUse' = (inUse \ {old}) \cup {new}
      /\ lost' \in [Walkers -> BOOLEAN]
  BY DEF Renumber
<1>2. inUse' \subseteq Addresses
  BY <1>1 DEF LookupInv, WorldInv
<1>3. ASSUME NEW n \in Names, Data[n] \cap Addresses # {}
      PROVE  Data[n] \cap inUse' # {}
  <2>1. PICK a \in Data[n] : a \in inUse
    BY <1>3 DEF LookupInv, WorldInv, Reachable
  <2>2. a \in Addresses /\ old \in Data[n] => new \in Data[n]
    BY <1>1, <1>3, Kinds
  <2> QED BY <1>1, <2>1, <2>2
<1>4. WorldInv'
  BY <1>2, <1>3 DEF WorldInv, Reachable
<1> QED BY <1>1, <1>4, StackKept, ZonesKept DEF Renumber, LookupInv

-----------------------------------------------------------------------------
(* The theorems *)

LEMMA Initially ==
  ASSUME Init
  PROVE  LookupInv
<1>1. ZonesInv
  BY DEF Init, ZonesInv, SoundEntry
<1>2. SoundStack(<<>>) /\ SoundAnswer(Nothing) /\ Fits(<<>>, Nothing)
  BY LimitAssumption DEF SoundStack, Linked, SoundAnswer, TrueAnswer, TrueRecords, Nothing, Fits
<1>3. WalksInv
  BY <1>2 DEF Init, WalksInv
<1>4. WorldInv
  <2>1. inUse = Published /\ Published \subseteq Addresses
    BY WorldAssumption DEF Init
  <2>2. \A n \in Names : Data[n] \cap Addresses # {} => Data[n] \cap Published # {}
    BY Kinds
  <2> QED BY <2>1, <2>2 DEF WorldInv, Reachable
<1> QED BY <1>1, <1>3, <1>4 DEF Init, LookupInv

LEMMA Steps ==
  ASSUME LookupInv, [Next]_vars
  PROVE  LookupInv' /\ Descent
<1>1. CASE UNCHANGED vars
  BY <1>1, StackKept, ZonesKept, WorldKept DEF vars, LookupInv
<1>2. ASSUME NEW w \in Walkers, Alone(w)
      PROVE  LookupInv' /\ Descent
  BY <1>2, TimeoutStep, GiveUpStep, ResolveNSStep, EnterZoneStep, ResumeStep DEF Alone
<1> QED BY <1>1, <1>2, BeginStep, TruncatedStep, ReceiveStep, ExpireStep, FlushStep, RenumberStep DEF Next

LEMMA Invariant == Spec => []LookupInv
<1>1. Init => LookupInv
  BY Initially
<1>2. LookupInv /\ [Next]_vars => LookupInv'
  BY Steps
<1> QED BY <1>1, <1>2, PTL DEF Spec

\* Every variable keeps its type, and no walk goes deeper than MaxDepth names.
THEOREM LookupTypesCorrect == Spec => []LookupTypeOK
<1>1. LookupInv => LookupTypeOK
  <2> SUFFICES ASSUME LookupInv PROVE LookupTypeOK
    OBVIOUS
  <2>1. stack \in [Walkers -> Seq(Frame)]
    <3>1. \A s \in Seq(Frames) : s \in Seq(Frame)
      BY DEF Frames
    <3> QED BY <3>1 DEF LookupInv, WalksInv
  <2> QED BY <2>1 DEF LookupInv, ZonesInv, WalksInv, WorldInv, SoundStack, LookupTypeOK
<1> QED BY <1>1, Invariant, PTL

\* Whatever the liars send and wherever a device on the way answers for others,
\* the servers taken for an honest zone's are its own, and what is said of
\* honest names is true: for any namespace, any number of walks that share the
\* zone cache, and any lies.
THEOREM NobodyDeceived == Spec => []Undeceived
<1>1. LookupInv => Undeceived
  <2> SUFFICES ASSUME LookupInv PROVE Undeceived
    OBVIOUS
  <2>1. \A z \in Names : OwnServers(z, zones[z])
    BY DEF LookupInv, ZonesInv, SoundEntry, OwnServers
  <2>2. ASSUME NEW w \in Walkers
        PROVE  /\ TrueAnswer(ret[w])
               /\ \A i \in 1 .. Len(stack[w]) : OwnServers(stack[w][i].zone, stack[w][i].servers)
    <3>1. SoundAnswer(ret[w]) /\ stack[w] \in Seq(Frames)
      BY DEF LookupInv, WalksInv
    <3>2. \A i \in 1 .. Len(stack[w]) : stack[w][i] \in Frames
      BY <3>1
    <3> QED BY <3>1, <3>2 DEF SoundAnswer, Frames, SoundFrame
  <2> QED BY <2>1, <2>2 DEF Undeceived
<1> QED BY <1>1, Invariant, PTL

\* Referrals lead a walk only down, towards the name it is about, but for one
\* restart from the root.
THEOREM WalksDescend == Spec => Descends
<1>1. LookupInv /\ [Next]_vars =>
        [\A w \in Walkers : \A i \in 1 .. Len(stack[w]) :
           i \in 1 .. Len(stack'[w]) /\ stack'[w][i].zone # stack[w][i].zone
             => \/ /\ IsSubdomain(stack'[w][i].zone, stack[w][i].zone)
                   /\ IsSubdomain(stack[w][i].name, stack'[w][i].zone)
                \/ /\ stack'[w][i].zone = Root
                   /\ ~stack[w][i].restarted /\ stack'[w][i].restarted]_vars
  BY Steps DEF Descent, Down
<1> QED BY <1>1, Invariant, PTL DEF Spec, Descends

-----------------------------------------------------------------------------
(* Names that can be resolved *)

\* The recursive function Resolvable is what it looks like.
LEMMA Levels ==
  \A k \in 0 .. MaxDepth :
    Resolvable[k] = OneDeeper(IF k = 0 THEN {} ELSE Resolvable[k - 1])
<1> DEFINE Deeper(g) == [k \in 0 .. MaxDepth |-> OneDeeper(IF k = 0 THEN {} ELSE g[k - 1])]
           R == CHOOSE g : g = Deeper(g)
           S == SUBSET Names
           F == [deeper \in S |-> OneDeeper(deeper)]
<1>1. Resolvable = R
  BY DEF Resolvable
<1>2. MaxDepth \in Nat
  BY LimitAssumption
<1>3. F \in [S -> S] /\ OneDeeper({}) \in S
  BY DEF OneDeeper
<1>4. PICK g : Iterates(g, F, OneDeeper({}), MaxDepth, S)
  <2>1. Maps(F, S)
    BY <1>3 DEF Maps
  <2> HIDE DEF F, S
  <2> QED BY <1>2, <1>3, <2>1, Repeated
<1>5. g = Deeper(g)
  <2>1. ASSUME NEW k \in 0 .. MaxDepth
        PROVE  g[k] = Deeper(g)[k]
    <3>1. CASE k = 0
      BY <3>1, <1>4 DEF Iterates
    <3>2. CASE k # 0
      <4>1. k \in 1 .. MaxDepth /\ k - 1 \in 0 .. MaxDepth
        BY <3>2, <1>2
      <4>2. g[k - 1] \in S
        BY <4>1, <1>4 DEF Iterates
      <4>3. F[g[k - 1]] = OneDeeper(g[k - 1])
        BY <4>2
      <4>4. g[k] = F[g[k - 1]]
        BY <4>1, <1>4 DEF Iterates
      <4> QED BY <3>2, <4>3, <4>4
    <3> QED BY <3>1, <3>2
  <2> QED BY <2>1, <1>4 DEF Iterates
<1> HIDE DEF Deeper
<1>6. R = Deeper(R)
  BY <1>5
<1> HIDE DEF R
<1>7. \A k \in 0 .. MaxDepth : Deeper(R)[k] = OneDeeper(IF k = 0 THEN {} ELSE R[k - 1])
  BY DEF Deeper
<1> QED BY <1>1, <1>6, <1>7

\* What it means for a name.
LEMMA ResolvableName ==
  ASSUME NEW k \in 0 .. MaxDepth, NEW n \in Resolvable[k]
  PROVE  /\ n \in Names /\ HonestName(n)
         /\ \A t \in Data[n] \cap Names : k > 0 /\ t \in Resolvable[k - 1]
         /\ \A z \in Zones : \A c \in Below(z, n) :
              \/ c \notin Glueless /\ \E s \in NSNames[c] : IsSubdomain(s, z)
              \/ NSNames[c] = {}
              \/ k > 0 /\ NSNames[c] \subseteq Resolvable[k - 1]
<1> DEFINE deeper == IF k = 0 THEN {} ELSE Resolvable[k - 1]
<1>1. n \in OneDeeper(deeper)
  BY Levels
<1>2. \A t \in deeper : k > 0 /\ t \in Resolvable[k - 1]
  OBVIOUS
<1> HIDE DEF deeper
<1> QED BY <1>1, <1>2 DEF OneDeeper

\* On the way down to a name there are fewer zones left at each.
LEMMA FewerBelow ==
  ASSUME IsFiniteSet(Zones), NEW z \in Names, NEW n \in Names
  PROVE  /\ Cardinality(Below(z, n)) \in Nat
         /\ Cardinality(Below(z, n)) <= Cardinality(Below(Root, n))
         /\ \A cut \in Below(z, n) :
              /\ Cardinality(Below(cut, n)) \in Nat
              /\ Cardinality(Below(cut, n)) < Cardinality(Below(z, n))
<1>1. \A y : Below(y, n) \subseteq Zones
  BY DEF Below
<1>2. \A y : IsFiniteSet(Below(y, n)) /\ Cardinality(Below(y, n)) \in Nat
  BY <1>1, FS_Subset, FS_CardinalityType
<1>3. ASSUME NEW y \in Names, NEW x \in Names, IsSubdomain(x, y), IsSubdomain(y, x)
      PROVE  x = y
  <2>1. Len(x) <= Len(y)
    BY <1>3 DEF IsSubdomain
  <2> QED BY <1>3, <2>1, NoLonger
<1>4. Below(z, n) \subseteq Below(Root, n)
  <2> SUFFICES ASSUME NEW c \in Below(z, n) PROVE c \in Below(Root, n)
    OBVIOUS
  <2>1. c \in Zones /\ c \in Names /\ c # z /\ IsSubdomain(c, z) /\ IsSubdomain(n, c)
    BY WorldAssumption DEF Below
  <2>2. c # Root
    BY <1>3, <2>1, RootIsAbove
  <2> QED BY <2>1, <2>2, RootIsAbove DEF Below
<1>5. Cardinality(Below(z, n)) <= Cardinality(Below(Root, n))
  BY <1>2, <1>4, FS_Subset
<1>6. ASSUME NEW cut \in Below(z, n)
      PROVE  Cardinality(Below(cut, n)) < Cardinality(Below(z, n))
  <2>1. cut \in Names /\ cut # z /\ IsSubdomain(cut, z)
    BY WorldAssumption DEF Below
  <2>2. Below(cut, n) \subseteq Below(z, n) \ {cut}
    <3> SUFFICES ASSUME NEW c \in Below(cut, n) PROVE c \in Below(z, n) \ {cut}
      OBVIOUS
    <3>1. c \in Zones /\ c \in Names /\ c # cut /\ IsSubdomain(c, cut) /\ IsSubdomain(n, c)
      BY WorldAssumption DEF Below
    <3>2. IsSubdomain(c, z)
      BY <2>1, <3>1, Above
    <3>3. c # z
      BY <1>3, <2>1, <3>1
    <3> QED BY <3>1, <3>2, <3>3 DEF Below
  <2>3. /\ IsFiniteSet(Below(z, n) \ {cut})
        /\ Cardinality(Below(z, n) \ {cut}) = Cardinality(Below(z, n)) - 1
    BY <1>2, FS_RemoveElement
  <2>4. Cardinality(Below(cut, n)) <= Cardinality(Below(z, n) \ {cut})
    BY <2>2, <2>3, FS_Subset
  <2> QED BY <1>2, <2>3, <2>4
<1> QED BY <1>2, <1>5, <1>6

-----------------------------------------------------------------------------
(* Whoever loses no reply resolves *)

\* The addresses of a zone's servers that are not in use.
Retired(z, use) == {a \in Addresses \ use : Serves[a] = z}

ServedInv ==
  /\ Roots \cap inUse # {}
  /\ \A z \in Honest : Cardinality(Retired(z, inUse)) < MaxTries

\* An answer that is no failure and, if the name has addresses, with one in use.
Usable(r, use) ==
  /\ r.rcode # "fail"
  /\ Data[r.name] \cap Addresses # {} => \E d \in r.records : d.data \in Addresses \cap use

\* A frame that cannot fail, with k levels to spare: the steps suffice for the
\* zones below, the first visit aside a server is in use, those tried are not,
\* and the names it needs lead less deep.
SureFrame(f, waits, k, use) ==
  /\ f.name \in Resolvable[k]
  /\ f.at # "alias" =>
       f.step + Cardinality(Below(f.zone, f.name))
         <= Cardinality(Below(Root, f.name)) + (IF f.step > 0 THEN 1 ELSE 0)
  /\ f.at \in {"ask", "tcp"} =>
       /\ ~waits /\ f.tried \subseteq f.servers
       /\ f.step = 0 => ~f.restarted /\ (f.zone = Root => f.servers = Roots)
       /\ f.step > 0 => f.servers \cap use # {}
  /\ f.at = "ask" => f.tried \cap use = {}
  /\ f.at = "tcp" => f.ip \in use
  /\ f.at = "ns" =>
       /\ k > 0 /\ f.ns # {} /\ f.ns \subseteq Resolvable[k - 1]
       /\ waits \/ f.addrs \cap use # {} \/ (f.tried = {} /\ f.addrs = {})
  /\ f.at = "alias" => waits /\ k > 0

SureStack(s, r, use) ==
  /\ \A i \in 1 .. Len(s) : SureFrame(s[i], i < Len(s) \/ r # Nothing, MaxDepth + 1 - i, use)
  /\ r # Nothing => Usable(r, use)

\* What holds of a query for a name that can be resolved.
Sure(s, r, use) ==
  /\ s = <<>> /\ r # Nothing /\ r.name \in Resolvable[MaxDepth] => r.rcode # "fail"
  /\ s # <<>> /\ s[1].name \in Resolvable[MaxDepth] => SureStack(s, r, use)

SureInv == ServedInv /\ \A w \in Walkers : ~lost[w] => Sure(stack[w], ret[w], inUse)

\* The levels that the innermost frame has to spare.
Spare(w) == MaxDepth + 1 - Len(stack[w])

\* The innermost frame of w cannot fail.
SureTop(w) ==
  /\ SureFrame(Top(w), ret[w] # Nothing, Spare(w), inUse)
  /\ ret[w] # Nothing => Usable(ret[w], inUse)

\* Only w moves, and it knows whether it has lost a reply.
OnlyMoves(w) ==
  /\ UNCHANGED inUse
  /\ \A v \in Walkers \ {w} : lost'[v] = lost[v]
  /\ ~lost'[w] => ~lost[w]

\* One walker's stack becomes s and what it was told r.
LEMMA OneSure ==
  ASSUME LookupInv, SureInv, NEW w \in Walkers, NEW s, NEW r, OnlyMoves(w),
         stack' = [stack EXCEPT ![w] = s], ret' = [ret EXCEPT ![w] = r],
         ~lost'[w] => Sure(s, r, inUse)
  PROVE  SureInv'
<1>1. ServedInv'
  BY DEF SureInv, ServedInv, OnlyMoves
<1>2. ASSUME NEW v \in Walkers, ~lost'[v]
      PROVE  Sure(stack'[v], ret'[v], inUse')
  <2>1. stack \in [Walkers -> Seq(Frames)] /\ ret \in [Walkers -> Returning \cup {Nothing}]
    BY DEF LookupInv, WalksInv
  <2>2. CASE v = w
    BY <2>1, <2>2, <1>2 DEF OnlyMoves
  <2>3. CASE v # w
    <3>1. lost'[v] = lost[v] /\ inUse' = inUse
      BY <2>3 DEF OnlyMoves
    <3>2. stack'[v] = stack[v] /\ ret'[v] = ret[v]
      BY <2>1, <2>3
    <3> QED BY <1>2, <3>1, <3>2 DEF SureInv
  <2> QED BY <2>2, <2>3
<1> QED BY <1>1, <1>2 DEF SureInv

\* What SureStack says of the innermost frame.
LEMMA SureInnermost ==
  ASSUME LookupInv, NEW w \in Walkers, stack[w] # <<>>, SureStack(stack[w], ret[w], inUse)
  PROVE  SureTop(w)
<1> DEFINE n == Len(stack[w])
<1>1. n \in 1 .. n /\ Top(w) = stack[w][n] /\ (n < n) = FALSE
  BY InnermostIsTop DEF LookupInv
<1>2. SureFrame(stack[w][n], n < n \/ ret[w] # Nothing, MaxDepth + 1 - n, inUse)
  BY <1>1 DEF SureStack
<1>3. (n < n \/ ret[w] # Nothing) = (ret[w] # Nothing)
  BY <1>1
<1> HIDE DEF n
<1>4. SureFrame(Top(w), ret[w] # Nothing, MaxDepth + 1 - n, inUse)
  BY <1>1, <1>2, <1>3
<1> QED BY <1>4 DEF SureTop, SureStack, Spare, n

\* The innermost frame goes on.
LEMMA SureGoesOn ==
  ASSUME LookupInv, SureInv, NEW w \in Walkers, OnlyMoves(w), stack[w] # <<>>,
         NEW g \in Frames, g.name = Top(w).name,
         stack' = [stack EXCEPT ![w] = [stack[w] EXCEPT ![Len(stack[w])] = g]],
         ret' = [ret EXCEPT ![w] = Nothing],
         ~lost'[w] /\ SureTop(w) => SureFrame(g, FALSE, Spare(w), inUse)
  PROVE  SureInv'
<1> DEFINE n == Len(stack[w])
           s == [stack[w] EXCEPT ![n] = g]
<1>1. SoundStack(stack[w]) /\ n \in Nat \ {0} /\ Top(w) = stack[w][n]
  BY InnermostIsTop DEF LookupInv
<1>2. /\ Len(s) = n /\ s # <<>> /\ s[n] = g
      /\ \A i \in 1 .. n - 1 : s[i] = stack[w][i]
  BY <1>1, StackStays
<1>3. stack' = [stack EXCEPT ![w] = s] /\ ret' = [ret EXCEPT ![w] = Nothing]
  OBVIOUS
<1> HIDE DEF s, n
<1>4. s[1].name = stack[w][1].name
  <2>1. CASE n = 1
    BY <2>1, <1>1, <1>2
  <2>2. CASE n # 1
    BY <2>2, <1>1, <1>2
  <2> QED BY <2>1, <2>2
<1>5. ASSUME ~lost'[w], s[1].name \in Resolvable[MaxDepth]
      PROVE  SureStack(s, Nothing, inUse)
  <2>1. SureStack(stack[w], ret[w], inUse)
    BY <1>4, <1>5 DEF SureInv, OnlyMoves, Sure
  <2>2. SureFrame(g, FALSE, MaxDepth + 1 - n, inUse)
    BY <1>5, <2>1, SureInnermost DEF Spare, n
  <2>3. ASSUME NEW i \in 1 .. n
        PROVE  SureFrame(s[i], i < n, MaxDepth + 1 - i, inUse)
    <3>1. CASE i = n
      <4>1. (i < n) = FALSE
        BY <3>1, <1>1
      <4> QED BY <3>1, <4>1, <2>2, <1>2
    <3>2. CASE i # n
      <4>1. i \in 1 .. n - 1 /\ (i < n) = TRUE /\ (i < n \/ ret[w] # Nothing) = TRUE
        BY <3>2, <1>1
      <4>2. SureFrame(stack[w][i], i < n \/ ret[w] # Nothing, MaxDepth + 1 - i, inUse)
        BY <2>1 DEF SureStack, n
      <4> QED BY <4>1, <4>2, <1>2
    <3> QED BY <3>1, <3>2
  <2> QED BY <2>3, <1>2 DEF SureStack
<1>6. ~lost'[w] => Sure(s, Nothing, inUse)
  BY <1>2, <1>5 DEF Sure
<1> QED BY <1>3, <1>6, OneSure

LEMMA SureStays ==
  ASSUME LookupInv, SureInv, NEW w \in Walkers, OnlyMoves(w), stack[w] # <<>>, ret[w] = Nothing,
         NEW g \in Frames, g.name = Top(w).name, Stay(w, g),
         ~lost'[w] /\ SureTop(w) => SureFrame(g, FALSE, Spare(w), inUse)
  PROVE  SureInv'
<1>1. /\ stack' = [stack EXCEPT ![w] = [stack[w] EXCEPT ![Len(stack[w])] = g]]
      /\ ret' = [ret EXCEPT ![w] = Nothing]
  BY DEF Stay, LookupInv, WalksInv
<1> QED BY <1>1, SureGoesOn

\* The innermost frame returns.
LEMMA SureReturns ==
  ASSUME LookupInv, SureInv, NEW w \in Walkers, OnlyMoves(w), stack[w] # <<>>,
         NEW ans, Return(w, ans), NEW r,
         r = [rcode |-> ans.rcode, records |-> ans.records, name |-> Top(w).name], r # Nothing,
         ~lost'[w] /\ SureTop(w) => Usable(r, inUse)
  PROVE  SureInv'
<1> DEFINE n == Len(stack[w])
           s == SubSeq(stack[w], 1, n - 1)
<1>1. SoundStack(stack[w]) /\ n \in Nat \ {0} /\ Top(w) = stack[w][n]
  BY InnermostIsTop DEF LookupInv
<1>2. r.name = Top(w).name
  OBVIOUS
<1>3. SoundStack(s) /\ Len(s) = n - 1 /\ \A i \in 1 .. n - 1 : s[i] = stack[w][i]
  BY <1>1, <1>2, StackReturns
<1>4. stack' = [stack EXCEPT ![w] = s] /\ ret' = [ret EXCEPT ![w] = r]
  BY DEF Return
<1> HIDE DEF s
<1>5. s # <<>> => n - 1 \in Nat \ {0} /\ s[1] = stack[w][1]
  BY <1>1, <1>3 DEF SoundStack
<1>6. s = <<>> => r.name = stack[w][1].name
  BY <1>1, <1>2, <1>3
<1>7. ASSUME ~lost'[w], stack[w][1].name \in Resolvable[MaxDepth]
      PROVE  Usable(r, inUse) /\ SureStack(s, r, inUse)
  <2>1. SureStack(stack[w], ret[w], inUse)
    BY <1>7 DEF SureInv, OnlyMoves, Sure
  <2>2. Usable(r, inUse)
    BY <1>7, <2>1, SureInnermost
  <2>3. ASSUME NEW i \in 1 .. n - 1
        PROVE  SureFrame(s[i], i < n - 1 \/ r # Nothing, MaxDepth + 1 - i, inUse)
    <3>1. i \in 1 .. n /\ i < n /\ s[i] = stack[w][i]
      BY <1>1, <1>3
    <3>2. SureFrame(stack[w][i], i < n \/ ret[w] # Nothing, MaxDepth + 1 - i, inUse)
      BY <2>1, <3>1 DEF SureStack
    <3>3. (i < n \/ ret[w] # Nothing) = (i < n - 1 \/ r # Nothing)
      BY <3>1
    <3> QED BY <3>1, <3>2, <3>3
  <2> QED BY <2>2, <2>3, <1>3 DEF SureStack
<1> HIDE DEF n
<1>8. ~lost'[w] => Sure(s, r, inUse)
  BY <1>5, <1>6, <1>7 DEF Sure, Usable
<1> QED BY <1>4, <1>8, OneSure

\* A frame that begins cannot fail, if what it is about can be resolved.
LEMMA SureBegins ==
  ASSUME LimitsSuffice, NEW k \in 0 .. MaxDepth, NEW n \in Resolvable[k], NEW use
  PROVE  SureFrame(NewFrame(n), FALSE, k, use)
<1> DEFINE f == NewFrame(n)
<1>1. n \in Names
  BY ResolvableName
<1>2. /\ f.name = n /\ f.zone = Closest(n) /\ f.tried = {} /\ f.step = 0 /\ f.restarted = FALSE
      /\ f.at = "ask" /\ (f.zone = Root => f.servers = Roots)
  BY DEF NewFrame
<1> HIDE DEF f
<1>3. /\ Cardinality(Below(f.zone, n)) \in Nat
      /\ Cardinality(Below(f.zone, n)) <= Cardinality(Below(Root, n))
  BY <1>1, <1>2, ClosestZone, FewerBelow DEF LimitsSuffice
<1>4. Cardinality(Below(Root, n)) \in Nat
  BY <1>1, RootIsAbove, FewerBelow DEF LimitsSuffice
<1> QED BY <1>2, <1>3, <1>4 DEF SureFrame, f

\* The innermost frame goes on as g and waits for the name n.
LEMMA SureCalls ==
  ASSUME LimitsSuffice, LookupInv, SureInv, NEW w \in Walkers, OnlyMoves(w),
         stack[w] # <<>>, ret[w] = Nothing,
         NEW g \in Frames, g.name = Top(w).name, NEW n \in Names, g.at = "ns" => n \in g.ns,
         Call(w, g, n),
         ~lost'[w] /\ SureTop(w) =>
           /\ SureFrame(g, TRUE, Spare(w), inUse)
           /\ Spare(w) > 0 /\ n \in Resolvable[Spare(w) - 1]
  PROVE  SureInv'
<1> DEFINE m == Len(stack[w])
<1>1. SoundStack(stack[w]) /\ m \in Nat \ {0} /\ Top(w) = stack[w][m]
  BY InnermostIsTop DEF LookupInv
<1>2. MaxDepth \in Nat
  BY LimitAssumption
<1>3. ASSUME ~lost'[w], stack[w][1].name \in Resolvable[MaxDepth]
      PROVE  /\ SureStack(stack[w], Nothing, inUse)
             /\ SureFrame(g, TRUE, Spare(w), inUse)
             /\ Spare(w) > 0 /\ n \in Resolvable[Spare(w) - 1]
  <2>1. SureStack(stack[w], Nothing, inUse)
    BY <1>3 DEF SureInv, OnlyMoves, Sure
  <2> QED BY <1>3, <2>1, SureInnermost
<1>4. CASE m > MaxDepth
  <2> DEFINE s == [stack[w] EXCEPT ![m] = g]
             r == [rcode |-> "fail", records |-> {}, name |-> n]
  <2>1. s # <<>> /\ s[m] = g /\ \A i \in 1 .. m - 1 : s[i] = stack[w][i]
    BY <1>1, StackStays
  <2>2. stack' = [stack EXCEPT ![w] = s] /\ ret' = [ret EXCEPT ![w] = r]
    BY <1>4 DEF Call
  <2> HIDE DEF s, r
  <2>3. s[1].name = stack[w][1].name
    BY <1>1, <2>1
  <2>4. ~lost'[w] => stack[w][1].name \notin Resolvable[MaxDepth]
    <3>1. ~ (Spare(w) > 0)
      BY <1>1, <1>2, <1>4 DEF Spare
    <3> QED BY <1>3, <3>1
  <2>5. ~lost'[w] => Sure(s, r, inUse)
    BY <2>1, <2>3, <2>4 DEF Sure
  <2> QED BY <2>2, <2>5, OneSure
<1>5. CASE m <= MaxDepth
  <2> DEFINE h == NewFrame(n)
             s == Append([stack[w] EXCEPT ![m] = g], h)
  <2>1. h \in Frames /\ h.name = n
    BY NewFrameSound DEF LookupInv
  <2>2. stack' = [stack EXCEPT ![w] = s] /\ ret' = [ret EXCEPT ![w] = Nothing]
    BY <1>1, <1>2, <1>5 DEF Call, LookupInv, WalksInv
  <2> HIDE DEF h
  <2>3. /\ Len(s) = m + 1 /\ s[m] = g /\ s \in Seq(Frames)
        /\ \A i \in 1 .. m - 1 : s[i] = stack[w][i]
    BY <1>1, <1>5, <2>1, StackGrows DEF SoundStack
  <2>4. s[m + 1] = h
    <3>1. [stack[w] EXCEPT ![m] = g] \in Seq(Frames) /\ Len([stack[w] EXCEPT ![m] = g]) = m
      BY <1>1 DEF SoundStack
    <3> QED BY <3>1, <1>1
  <2> HIDE DEF s
  <2>5. s[1].name = stack[w][1].name
    BY <1>1, <2>3
  <2>6. ASSUME ~lost'[w], stack[w][1].name \in Resolvable[MaxDepth]
        PROVE  SureStack(s, Nothing, inUse)
    <3>1. ASSUME NEW i \in 1 .. m
          PROVE  SureFrame(stack[w][i], i < m, MaxDepth + 1 - i, inUse)
      <4>1. SureFrame(stack[w][i], i < m \/ Nothing # Nothing, MaxDepth + 1 - i, inUse)
        BY <1>3, <2>6 DEF SureStack
      <4>2. (i < m \/ Nothing # Nothing) = (i < m)
        BY <1>1
      <4> QED BY <4>1, <4>2
    <3>2. SureFrame(g, TRUE, MaxDepth + 1 - m, inUse)
      BY <1>3, <2>6 DEF Spare
    <3>3. SureFrame(h, FALSE, MaxDepth + 1 - (m + 1), inUse)
      <4>1. MaxDepth - m \in 0 .. MaxDepth /\ n \in Resolvable[MaxDepth - m]
        <5>1. Spare(w) - 1 = MaxDepth - m /\ MaxDepth - m \in 0 .. MaxDepth
          BY <1>1, <1>2, <1>5 DEF Spare
        <5>2. n \in Resolvable[Spare(w) - 1]
          BY <1>3, <2>6
        <5> QED BY <5>1, <5>2
      <4>2. SureFrame(h, FALSE, MaxDepth - m, inUse)
        BY <4>1, SureBegins DEF h
      <4>3. MaxDepth + 1 - (m + 1) = MaxDepth - m
        BY <1>1, <1>2
      <4> QED BY <4>2, <4>3
    <3>4. ASSUME NEW i \in 1 .. m + 1
          PROVE  SureFrame(s[i], i < m + 1, MaxDepth + 1 - i, inUse)
      <4>1. CASE i = m + 1
        <5>1. (i < m + 1) = FALSE
          BY <4>1, <1>1
        <5> QED BY <4>1, <5>1, <3>3, <2>4
      <4>2. CASE i = m
        <5>1. (i < m + 1) = TRUE
          BY <4>2, <1>1
        <5> QED BY <4>2, <5>1, <3>2, <2>3
      <4>3. CASE i # m + 1 /\ i # m
        <5>1. i \in 1 .. m - 1 /\ i \in 1 .. m /\ (i < m + 1) = (i < m)
          BY <4>3, <1>1
        <5>2. SureFrame(stack[w][i], i < m, MaxDepth + 1 - i, inUse)
          BY <5>1, <3>1
        <5> QED BY <5>1, <5>2, <2>3
      <4> QED BY <4>1, <4>2, <4>3
    <3> QED BY <3>4, <2>3 DEF SureStack
  <2>7. s # <<>>
    BY <1>1, <2>3
  <2> HIDE DEF m
  <2>8. ~lost'[w] => Sure(s, Nothing, inUse)
    BY <2>5, <2>6, <2>7 DEF Sure
  <2> QED BY <2>2, <2>8, OneSure
<1> QED BY <1>1, <1>2, <1>4, <1>5

\* A frame that cannot fail is about an honest name, at an honest zone.
LEMMA SureSpare ==
  ASSUME LookupInv, NEW w \in Walkers, stack[w] # <<>>, SureTop(w)
  PROVE  /\ Spare(w) \in 0 .. MaxDepth
         /\ Top(w) \in Frames /\ Top(w).name \in Names /\ HonestName(Top(w).name)
         /\ Top(w).zone \in Honest /\ IsSubdomain(Top(w).name, Top(w).zone)
         /\ OwnServers(Top(w).zone, Top(w).servers) /\ Top(w).servers \subseteq Addresses
<1>1. Top(w) \in Frames
  BY InnermostIsTop DEF LookupInv
<1>2. /\ IsSubdomain(Top(w).name, Top(w).zone) /\ Known(Top(w).zone)
      /\ OwnServers(Top(w).zone, Top(w).servers)
      /\ Top(w).name \in Names /\ Top(w).zone \in Names /\ Top(w).servers \subseteq Addresses
  BY <1>1, FrameFields DEF SoundFrame
<1>3. Spare(w) \in 0 .. MaxDepth
  BY InnermostIsTop, LimitAssumption DEF LookupInv, SoundStack, Spare
<1>4. HonestName(Top(w).name)
  BY <1>3, ResolvableName DEF SureTop, SureFrame
<1>5. Top(w).zone \in Honest
  BY <1>2, <1>4, NamesAboveHonest DEF Known
<1> QED BY <1>1, <1>2, <1>3, <1>4, <1>5

\* A walk that cannot fail finds servers in use at the zone it goes to, and it
\* has a step left for it.
LEMMA SureVisits ==
  ASSUME LimitsSuffice, LookupInv, SureInv, NEW w \in Walkers, OnlyMoves(w),
         stack[w] # <<>>, ret[w] = Nothing,
         NEW f \in Frames, f.name = Top(w).name, NEW zone \in Names, NEW servers \in SUBSET Addresses,
         IsSubdomain(f.name, zone), Known(zone), OwnServers(zone, servers),
         Visit(w, f, zone, servers),
         ~lost'[w] /\ SureTop(w) =>
           /\ servers \cap inUse # {}
           /\ f.step + Cardinality(Below(zone, f.name)) <= Cardinality(Below(Root, f.name))
  PROVE  SureInv'
<1> DEFINE g == Visiting(f, zone, servers)
           below == Cardinality(Below(zone, f.name))
           all == Cardinality(Below(Root, f.name))
<1>1. g \in Frames /\ g.name = f.name /\ g.zone = zone /\ g.servers = servers /\ g.at = "ask"
      /\ g.tried = {} /\ g.step = f.step + 1
  BY VisitingSound
<1>2. f.name \in Names /\ f.step \in Nat
  BY FrameFields
<1>3. below \in Nat /\ all \in Nat
  BY <1>2, FewerBelow, RootIsAbove DEF LimitsSuffice
<1>4. IF f.step + 1 < MaxSteps THEN Stay(w, g) ELSE Return(w, Failed)
  BY DEF Visit, Visiting
<1> HIDE DEF g, below, all
<1>5. ASSUME ~lost'[w], SureTop(w)
      PROVE  /\ f.step + 1 < MaxSteps
             /\ SureFrame(g, FALSE, Spare(w), inUse)
  <2>1. f.name \in Resolvable[Spare(w)]
    BY <1>5 DEF SureTop, SureFrame
  <2>2. servers \cap inUse # {} /\ f.step + below <= all
    BY <1>5 DEF below, all
  <2>3. all + 1 < MaxSteps
    <3>1. HonestName(f.name)
      BY <1>5, SureSpare
    <3> QED BY <1>2, <3>1 DEF LimitsSuffice, all
  <2>4. f.step + 1 < MaxSteps
    BY <1>2, <1>3, <2>2, <2>3, LimitAssumption
  <2>5. g.step + below <= all + 1 /\ g.step > 0
    BY <1>1, <1>2, <1>3, <2>2
  <2>6. SureFrame(g, FALSE, Spare(w), inUse)
    BY <1>1, <1>2, <2>1, <2>2, <2>5 DEF SureFrame, below, all
  <2> QED BY <2>4, <2>6
<1>6. CASE Stay(w, g)
  BY <1>1, <1>5, <1>6, SureStays
<1>7. CASE Return(w, Failed) /\ ~(f.step + 1 < MaxSteps)
  <2> DEFINE r == [rcode |-> Failed.rcode, records |-> Failed.records, name |-> Top(w).name]
  <2>1. r # Nothing
    BY DEF Failed, Nothing
  <2> HIDE DEF r
  <2>2. ~(~lost'[w] /\ SureTop(w))
    BY <1>5, <1>7
  <2> QED BY <1>7, <2>1, <2>2, SureReturns DEF r
<1> QED BY <1>4, <1>6, <1>7

\* An answer of an honest server is usable, or leads on by an alias to a name
\* that is resolved at the next level.
LEMMA SureConcludes ==
  ASSUME LimitsSuffice, LookupInv, SureInv, NEW w \in Walkers, OnlyMoves(w),
         stack[w] # <<>>, ret[w] = Nothing,
         NEW f \in Frames, f.name = Top(w).name,
         NEW rcode, rcode \in {"ok", "nx"}, NEW records \in SUBSET Records, TrueRecords(records),
         Conclude(w, f, rcode, records),
         ~lost'[w] /\ SureTop(w) =>
           /\ \A r \in records :
                r.owner = f.name /\ r.data \in Data[f.name] /\ r.data # f.name
                /\ r.data \in Names \cup inUse
           /\ rcode = "nx" => Data[f.name] = {NoName}
           /\ rcode = "ok" =>
                Data[f.name] = {NoData} \/ \E r \in records : r.data \in Names \cup Addresses
  PROVE  SureInv'
<1> DEFINE c == FollowChain(f.name, records)
           g == [f EXCEPT !.at = "alias", !.chain = c.chain, !.servers = {}, !.tried = {}, !.step = 0]
<1>1. f \in Frame /\ SoundFrame(f) /\ f.name \in Names
  BY FrameFields
<1>2. Along(c, f.name, records) /\ Thorough(c, f.name, records)
  BY <1>1, ChainFollowed
<1>3. \/ c.complete /\ Return(w, Ok(c.chain))
      \/ rcode = "nx" /\ Return(w, [rcode |-> "nx", records |-> c.chain])
      \/ ~c.complete /\ rcode = "ok" /\ c.target = f.name /\ Return(w, Ok({}))
      \/ c.target # f.name /\ Call(w, g, c.target)
  BY DEF Conclude
<1> HIDE DEF c
<1>4. /\ c.chain \in SUBSET Records /\ c.target \in Names /\ TrueRecords(c.chain)
      /\ c.chain \subseteq records
  BY <1>2 DEF Along, Walk, TrueRecords
<1>5. ASSUME NEW r, r.rcode \in {"ok", "nx"}, r.name = f.name,
             Data[f.name] \cap Addresses = {} \/ ~(~lost'[w] /\ SureTop(w))
      PROVE  r # Nothing /\ (~lost'[w] /\ SureTop(w) => Usable(r, inUse))
  BY <1>5 DEF Usable, Nothing
<1>6. {NoData, NoName} \cap Addresses = {}
  BY WorldAssumption
<1>7. CASE c.complete /\ Return(w, Ok(c.chain))
  <2> DEFINE r == [rcode |-> "ok", records |-> c.chain, name |-> f.name]
  <2>1. ASSUME ~lost'[w], SureTop(w)
        PROVE  \E d \in c.chain : d.data \in Addresses \cap inUse
    <3>1. PICK d \in c.chain : d.data \in Addresses
      BY <1>2, <1>7 DEF Along
    <3>2. d.data \in Names \cup inUse
      BY <1>4, <2>1, <3>1
    <3> QED BY <3>1, <3>2, <1>1, Kinds
  <2>2. r # Nothing /\ (~lost'[w] /\ SureTop(w) => Usable(r, inUse))
    BY <2>1 DEF Usable, Nothing
  <2>3. r = [rcode |-> Ok(c.chain).rcode, records |-> Ok(c.chain).records, name |-> Top(w).name]
    BY DEF Ok
  <2> HIDE DEF r
  <2> QED BY <1>7, <2>2, <2>3, SureReturns
<1>8. CASE rcode = "nx" /\ Return(w, [rcode |-> "nx", records |-> c.chain])
  <2> DEFINE r == [rcode |-> "nx", records |-> c.chain, name |-> f.name]
             ans == [rcode |-> "nx", records |-> c.chain]
  <2>1. r # Nothing /\ (~lost'[w] /\ SureTop(w) => Usable(r, inUse))
    BY <1>5, <1>6, <1>8
  <2>2. r = [rcode |-> ans.rcode, records |-> ans.records, name |-> Top(w).name] /\ Return(w, ans)
    BY <1>8
  <2> HIDE DEF r, ans
  <2> QED BY <2>1, <2>2, SureReturns
<1>9. CASE ~c.complete /\ rcode = "ok" /\ c.target = f.name /\ Return(w, Ok({}))
  <2> DEFINE r == [rcode |-> "ok", records |-> {}, name |-> f.name]
  <2>1. ~lost'[w] /\ SureTop(w) => Data[f.name] = {NoData}
    BY <1>2, <1>9 DEF Thorough
  <2>2. r # Nothing /\ (~lost'[w] /\ SureTop(w) => Usable(r, inUse))
    BY <1>5, <1>6, <2>1
  <2>3. r = [rcode |-> Ok({}).rcode, records |-> Ok({}).records, name |-> Top(w).name]
    BY DEF Ok
  <2> HIDE DEF r
  <2> QED BY <1>9, <2>2, <2>3, SureReturns
<1>10. CASE c.target # f.name /\ Call(w, g, c.target)
  <2>1. g \in Frame
    BY <1>1, <1>4 DEF Frame
  <2>2. /\ g.name = f.name /\ g.zone = f.zone /\ g.servers = {} /\ g.at = "alias"
        /\ g.chain = c.chain
    BY <1>1 DEF Frame
  <2>3. Call(w, g, c.target)
    BY <1>10
  <2> HIDE DEF g
  <2>4. g \in Frames
    <3>1. SoundFrame(g)
      BY <1>1, <1>2, <1>4, <1>10, <2>2 DEF SoundFrame, Along, OwnServers
    <3> QED BY <2>1, <3>1 DEF Frames
  <2>5. ASSUME ~lost'[w], SureTop(w)
        PROVE  /\ SureFrame(g, TRUE, Spare(w), inUse)
               /\ Spare(w) > 0 /\ c.target \in Resolvable[Spare(w) - 1]
    <3>1. Spare(w) \in 0 .. MaxDepth /\ f.name \in Resolvable[Spare(w)]
      BY <2>5, SureSpare DEF SureTop, SureFrame
    <3>2. PICK r \in c.chain : r.data = c.target
      BY <1>2, <1>10 DEF Along
    <3>3. c.target \in Data[f.name] \cap Names
      BY <1>4, <2>5, <3>2
    <3>4. Spare(w) > 0 /\ c.target \in Resolvable[Spare(w) - 1]
      BY <3>1, <3>3, ResolvableName
    <3> QED BY <2>2, <3>1, <3>4 DEF SureFrame
  <2> QED BY <1>4, <2>2, <2>3, <2>4, <2>5, SureCalls
<1> QED BY <1>3, <1>7, <1>8, <1>9, <1>10

LEMMA Knows ==
  ASSUME LookupInv, UNCHANGED inUse, NEW w \in Walkers, NEW b \in BOOLEAN,
         lost' = [lost EXCEPT ![w] = @ \/ b]
  PROVE  OnlyMoves(w) /\ (~lost'[w] => ~b)
BY DEF LookupInv, OnlyMoves

LEMMA KnowsNothing ==
  ASSUME NEW w \in Walkers, UNCHANGED <<inUse, lost>>
  PROVE  OnlyMoves(w)
BY DEF OnlyMoves

LEMMA PastFields ==
  ASSUME LookupInv, NEW w \in Walkers, NEW a, NEW proto, Asks(w, a, proto)
  PROVE  /\ Past(w, a).servers = Top(w).servers /\ Past(w, a).tried = Top(w).tried \cup {a}
         /\ Past(w, a).step = Top(w).step /\ Past(w, a).at = "ask"
<1> DEFINE f == Top(w)
<1>1. f \in Frame
  BY Asked, FrameFields DEF LookupInv
<1>2. Past(w, a) = [f EXCEPT !.tried = @ \cup {a}, !.at = "ask", !.ip = NoName]
  BY DEF Past
<1> HIDE DEF f
<1>3. /\ Past(w, a).servers = f.servers /\ Past(w, a).tried = f.tried \cup {a}
      /\ Past(w, a).step = f.step /\ Past(w, a).at = "ask"
  BY <1>1, <1>2 DEF Frame
<1> QED BY <1>3 DEF f

LEMMA SureTimeout ==
  ASSUME LookupInv, SureInv, NEW w \in Walkers, Timeout(w)
  PROVE  SureInv'
<1>1. PICK a \in Addresses :
        /\ \E proto \in {"udp", "tcp"} : Asks(w, a, proto)
        /\ Stay(w, Past(w, a))
        /\ lost' = [lost EXCEPT ![w] = @ \/ a \in inUse]
  BY DEF Timeout
<1>2. PICK proto \in {"udp", "tcp"} : Asks(w, a, proto)
  BY <1>1
<1> DEFINE f == Top(w)
           g == Past(w, a)
<1>3. OnlyMoves(w) /\ (~lost'[w] => a \notin inUse)
  BY <1>1, Knows DEF Timeout
<1>4. /\ stack[w] # <<>> /\ ret[w] = Nothing /\ g \in Frames /\ a \in f.servers
      /\ g.name = f.name /\ g.zone = f.zone /\ g.restarted = f.restarted
      /\ g.servers = f.servers /\ g.tried = f.tried \cup {a} /\ g.step = f.step /\ g.at = "ask"
  BY <1>2, Asked, PastFields DEF LookupInv
<1>5. ASSUME ~lost'[w], SureTop(w)
      PROVE  SureFrame(g, FALSE, Spare(w), inUse)
  <2>1. SureFrame(f, FALSE, Spare(w), inUse)
    BY <1>4, <1>5 DEF SureTop
  <2>2. f.at = "ask"
    <3>1. f.at = "tcp" => f.ip = a /\ f.ip \in inUse
      BY <1>2, <2>1 DEF Asks, At, SureFrame
    <3> QED BY <1>2, <1>3, <1>5, <3>1 DEF Asks, At
  <2> HIDE DEF f, g
  <2> QED BY <1>3, <1>4, <1>5, <2>1, <2>2 DEF SureFrame
<1> QED BY <1>1, <1>3, <1>4, <1>5, SureStays

LEMMA SureTruncated ==
  ASSUME LookupInv, SureInv, NEW w \in Walkers, Truncated(w)
  PROVE  SureInv'
<1>1. PICK a \in inUse :
        /\ Asks(w, a, "udp")
        /\ Stay(w, [Top(w) EXCEPT !.tried = @ \cup {a}, !.at = "tcp", !.ip = a])
  BY DEF Truncated
<1> DEFINE f == Top(w)
           g == [f EXCEPT !.tried = @ \cup {a}, !.at = "tcp", !.ip = a]
<1>2. /\ stack[w] # <<>> /\ ret[w] = Nothing /\ f \in Frames
      /\ a \in Addresses /\ a \in f.servers /\ f.at = "ask"
  BY <1>1, Asked DEF LookupInv, Asks, At
<1>3. Stay(w, g) /\ OnlyMoves(w)
  BY <1>1, KnowsNothing DEF Truncated
<1>4. f \in Frame /\ SoundFrame(f)
  BY <1>2, FrameFields
<1>5. SureTop(w) => SureFrame(f, FALSE, Spare(w), inUse)
  BY <1>2 DEF SureTop
<1>6. Top(w) = f
  OBVIOUS
<1> HIDE DEF f
<1>7. g \in Frame
  BY <1>2, <1>4 DEF Frame
<1>8. /\ g.name = f.name /\ g.zone = f.zone /\ g.servers = f.servers /\ g.at = "tcp" /\ g.ip = a
      /\ g.chain = f.chain /\ g.addrs = f.addrs /\ g.step = f.step /\ g.restarted = f.restarted
      /\ g.tried = f.tried \cup {a}
  BY <1>4 DEF Frame
<1> HIDE DEF g
<1>9. g \in Frames
  BY <1>2, <1>4, <1>7, <1>8 DEF Frames, SoundFrame
<1>10. SureTop(w) => SureFrame(g, FALSE, Spare(w), inUse)
  BY <1>1, <1>2, <1>5, <1>8 DEF SureFrame
<1> QED BY <1>2, <1>3, <1>6, <1>8, <1>9, <1>10, SureStays

LEMMA SureBegin ==
  ASSUME LimitsSuffice, LookupInv, SureInv, NEW w \in Walkers, NEW n \in Questions[w], Begin(w, n)
  PROVE  SureInv'
<1> DEFINE h == NewFrame(n)
           s == <<h>>
<1>1. n \in Names /\ MaxDepth \in 0 .. MaxDepth
  BY WorldAssumption, LimitAssumption
<1>2. stack' = [stack EXCEPT ![w] = s] /\ ret' = [ret EXCEPT ![w] = Nothing] /\ OnlyMoves(w)
  BY KnowsNothing DEF Begin, LookupInv, WalksInv
<1>3. h.name = n
  BY <1>1, NewFrameSound DEF LookupInv
<1>4. n \in Resolvable[MaxDepth] => SureFrame(h, FALSE, MaxDepth, inUse)
  BY <1>1, SureBegins
<1> HIDE DEF h
<1>5. Len(s) = 1 /\ s[1] = h /\ s # <<>> /\ MaxDepth + 1 - 1 = MaxDepth
  BY <1>1
<1> HIDE DEF s
<1>6. ASSUME n \in Resolvable[MaxDepth]
      PROVE  SureStack(s, Nothing, inUse)
  <2>1. \A i \in 1 .. 1 : i = 1 /\ (i < 1) = FALSE
    OBVIOUS
  <2> QED BY <1>4, <1>5, <1>6, <2>1 DEF SureStack
<1>7. Sure(s, Nothing, inUse)
  BY <1>3, <1>5, <1>6 DEF Sure
<1> QED BY <1>2, <1>7, OneSure

\* A name's servers' addresses that a referral gives.
LEMMA GlueGiven ==
  ASSUME LookupInv, NEW m, NEW cut \in Zones, NEW z \in Names, Given(cut, m.glue), cut \notin Glueless,
         NEW s \in NSNames[cut], IsSubdomain(s, z), Data[s] \cap Addresses # {},
         Targets(m, cut) = NSNames[cut]
  PROVE  GlueAddrs(m, Targets(m, cut), z) # {}
<1>1. s \in Names
  BY WorldAssumption
<1>2. PICK b \in inUse : b \in Data[s]
  BY <1>1 DEF LookupInv, WorldInv, Reachable
<1> DEFINE g == [owner |-> s, ip |-> b]
<1>3. g \in m.glue /\ g.owner = s /\ g.ip = b
  BY <1>2 DEF Given
<1> HIDE DEF g
<1>4. g.ip \in GlueAddrs(m, Targets(m, cut), z)
  BY <1>3 DEF GlueAddrs
<1> QED BY <1>4

\* The servers of an honest zone have addresses, all of that zone's servers.
LEMMA ServersHaveAddresses ==
  ASSUME NEW cut \in Honest, cut # Root, NEW s \in NSNames[cut]
  PROVE  /\ s \in Names /\ Data[s] \cap Addresses # {}
         /\ Data[s] \subseteq {a \in Addresses : Serves[a] = cut}
<1>1. Data[s] \subseteq {a \in Addresses : Serves[a] = cut} /\ cut \in Zones
  BY WorldAssumption
<1>2. s \in Names
  BY <1>1, WorldAssumption
<1>3. Data[s] # {}
  BY <1>2, Kinds
<1> QED BY <1>1, <1>2, <1>3

\* Nothing is above the root.
LEMMA NotRoot ==
  ASSUME NEW z \in Names, NEW cut \in Names, cut # z, IsSubdomain(cut, z)
  PROVE  cut # Root
<1>1. cut = Root => IsSubdomain(z, cut)
  BY RootIsAbove
<1>2. cut = Root => Len(z) <= Len(cut) /\ Len(cut) <= Len(z)
  BY <1>1 DEF IsSubdomain
<1> QED BY <1>2, NoLonger

LEMMA SureHandle ==
  ASSUME LimitsSuffice, LookupInv, SureInv,
         NEW w \in Walkers, NEW a \in Addresses, NEW proto, Asks(w, a, proto),
         NEW m \in Replies(a, Top(w).name, proto), Handle(w, a, m),
         OnlyMoves(w), ~lost'[w] => Classify(m, Top(w).zone, Top(w).name) # "lame"
  PROVE  SureInv'
<1> DEFINE f == Past(w, a)
           k == Spare(w)
<1>1. /\ stack[w] # <<>> /\ ret[w] = Nothing /\ f \in Frames /\ Top(w).at \in {"ask", "tcp"}
      /\ f.name = Top(w).name /\ f.zone = Top(w).zone /\ f.restarted = Top(w).restarted
      /\ f.addrs = {} /\ f.step = Top(w).step
      /\ OwnServers(f.zone, {a}) /\ f.name \in Names /\ f.zone \in Names /\ f.step \in Nat
  BY Asked, PastFields, FrameFields DEF LookupInv
<1>2. ASSUME ~lost'[w], SureTop(w)
      PROVE  /\ k \in 0 .. MaxDepth /\ f.name \in Resolvable[k]
             /\ f.zone \in Honest /\ HonestName(f.name) /\ IsSubdomain(f.name, f.zone)
             /\ m = Truth(f.zone, f.name)
             /\ f.step + Cardinality(Below(f.zone, f.name))
                  <= Cardinality(Below(Root, f.name)) + (IF f.step > 0 THEN 1 ELSE 0)
  <2>1. SureFrame(Top(w), FALSE, k, inUse)
    BY <1>1, <1>2 DEF SureTop
  <2>2. /\ k \in 0 .. MaxDepth /\ f.zone \in Honest /\ HonestName(f.name)
        /\ IsSubdomain(f.name, f.zone)
    BY <1>1, <1>2, SureSpare
  <2>3. Serves[a] = f.zone
    BY <1>1, <2>2 DEF OwnServers
  <2>4. Classify(m, f.zone, f.name) # "lame" /\ m \in Replies(a, f.name, proto)
    BY <1>1, <1>2
  <2> HIDE DEF f
  <2>5. m = Truth(f.zone, f.name)
    BY <1>1, <2>2, <2>3, <2>4, HonestReply
  <2> QED BY <1>1, <2>1, <2>2, <2>5 DEF SureFrame
<1>3. CASE Classify(m, f.zone, f.name) = "lame" /\ Stay(w, f)
  BY <1>1, <1>3, SureStays
<1>4. CASE /\ Classify(m, f.zone, f.name) \in {"answer", "nx", "nodata"}
           /\ Conclude(w, f, m.rcode, InZone(m.answers, f.zone))
  <2> DEFINE records == InZone(m.answers, f.zone)
  <2>1. /\ records \in SUBSET Records /\ m.rcode \in {"ok", "nx"} /\ TrueRecords(records)
        /\ HonestName(f.name) =>
             /\ m.rcode = "nx" => Data[f.name] = {NoName}
             /\ m.rcode = "ok" =>
                  Data[f.name] = {NoData} \/ \E r \in records : r.data \in Names \cup Addresses
    BY <1>4, Answered
  <2>2. Conclude(w, f, m.rcode, records)
    BY <1>4
  <2>3. records \subseteq m.answers
    BY DEF InZone
  <2> HIDE DEF records, f
  <2>4. ASSUME ~lost'[w], SureTop(w)
        PROVE  /\ \A r \in records :
                    r.owner = f.name /\ r.data \in Data[f.name] /\ r.data # f.name
                    /\ r.data \in Names \cup inUse
               /\ m.rcode = "nx" => Data[f.name] = {NoName}
               /\ m.rcode = "ok" =>
                    Data[f.name] = {NoData} \/ \E r \in records : r.data \in Names \cup Addresses
    <3>1. \A r \in m.answers :
            r.owner = f.name /\ r.data \in Data[f.name] /\ r.data # f.name
            /\ r.data \in Names \cup inUse
      BY <1>1, <1>2, <1>4, <2>4, HonestAnswer DEF LookupInv, WorldInv
    <3> QED BY <3>1, <1>2, <2>1, <2>3, <2>4
  <2> QED BY <1>1, <2>1, <2>2, <2>4, SureConcludes
<1>5. ASSUME ~lost'[w], SureTop(w), Classify(m, f.zone, f.name) = "referral",
             NEW cut \in Cuts(m, f.zone, f.name)
      PROVE  /\ cut \in Below(f.zone, f.name) /\ cut \in Zones
             /\ Targets(m, cut) = NSNames[cut] /\ NSNames[cut] # {}
             /\ \A g \in m.glue : g.ip \in inUse
             /\ Given(cut, m.glue)
             /\ \A s \in NSNames[cut] : s \in Names /\ Data[s] \cap Addresses # {}
             /\ f.step + Cardinality(Below(cut, f.name)) <= Cardinality(Below(Root, f.name))
  <2>1. /\ cut \in Names /\ cut # f.zone /\ IsSubdomain(cut, f.zone) /\ IsSubdomain(f.name, cut)
        /\ Known(cut)
    BY <1>5, Referred
  <2> HIDE DEF f
  <2>2. /\ cut \in Zones /\ Targets(m, cut) = NSNames[cut] /\ NSNames[cut] # {}
        /\ \A g \in m.glue : g.ip \in inUse
        /\ Given(cut, m.glue)
    BY <1>1, <1>2, <1>5, HonestReferral DEF LookupInv, WorldInv
  <2>3. cut \in Below(f.zone, f.name)
    BY <2>1, <2>2 DEF Below
  <2>4. cut \in Honest /\ cut # Root
    BY <1>1, <1>2, <1>5, <2>1, NamesAboveHonest, NotRoot DEF Known
  <2>5. /\ Cardinality(Below(cut, f.name)) \in Nat
        /\ Cardinality(Below(cut, f.name)) < Cardinality(Below(f.zone, f.name))
        /\ Cardinality(Below(f.zone, f.name)) \in Nat /\ Cardinality(Below(Root, f.name)) \in Nat
    BY <1>1, <2>3, FewerBelow, RootIsAbove DEF LimitsSuffice
  <2>6. f.step + Cardinality(Below(cut, f.name)) <= Cardinality(Below(Root, f.name))
    <3>1. f.step + Cardinality(Below(f.zone, f.name))
            <= Cardinality(Below(Root, f.name)) + (IF f.step > 0 THEN 1 ELSE 0)
      BY <1>2, <1>5
    <3>2. f.step \in Nat
      BY <1>1
    <3> QED BY <3>1, <3>2, <2>5
  <2> QED BY <2>2, <2>3, <2>4, <2>6, ServersHaveAddresses
<1>6. ASSUME Classify(m, f.zone, f.name) = "referral", NEW cut \in Cuts(m, f.zone, f.name),
             GlueAddrs(m, Targets(m, cut), f.zone) = {},
             Stay(w, Seeking(f, cut, Targets(m, cut)))
      PROVE  SureInv'
  <2> DEFINE g == Seeking(f, cut, Targets(m, cut))
  <2>1. /\ cut \in Names /\ cut # f.zone /\ IsSubdomain(cut, f.zone) /\ IsSubdomain(f.name, cut)
        /\ Targets(m, cut) \in SUBSET Names /\ Known(cut)
        /\ cut \in Honest => Targets(m, cut) \subseteq NSNames[cut]
    BY <1>6, Referred
  <2> HIDE DEF f
  <2>2. /\ g \in Frames /\ g.name = f.name /\ g.zone = f.zone /\ g.at = "ns"
        /\ g.ns = Targets(m, cut) /\ g.addrs = {} /\ g.tried = {} /\ g.step = f.step
    BY <1>1, <2>1, SeekingSound
  <2>3. Stay(w, g)
    BY <1>6
  <2> HIDE DEF g
  <2>4. ASSUME ~lost'[w], SureTop(w)
        PROVE  SureFrame(g, FALSE, k, inUse)
    <3>1. /\ cut \in Below(f.zone, f.name) /\ cut \in Zones
          /\ Targets(m, cut) = NSNames[cut] /\ NSNames[cut] # {}
          /\ Given(cut, m.glue)
          /\ \A s \in NSNames[cut] : Data[s] \cap Addresses # {}
      BY <1>5, <1>6, <2>4
    <3>2. ~ (cut \notin Glueless /\ \E s \in NSNames[cut] : IsSubdomain(s, f.zone))
      BY <1>1, <1>6, <3>1, GlueGiven
    <3>3. k > 0 /\ NSNames[cut] \subseteq Resolvable[k - 1]
      <4>1. f.zone \in Zones
        BY <1>2, <2>4, HonestZones
      <4> QED BY <1>2, <2>4, <3>1, <3>2, <4>1, ResolvableName
    <3> QED BY <1>2, <2>2, <2>4, <3>1, <3>3 DEF SureFrame
  <2> QED BY <1>1, <2>2, <2>3, <2>4, SureStays
<1>7. ASSUME Classify(m, f.zone, f.name) = "referral", NEW cut \in Cuts(m, f.zone, f.name),
             NEW addrs, addrs = GlueAddrs(m, Targets(m, cut), f.zone), addrs # {},
             Visit(w, f, cut, addrs)
      PROVE  SureInv'
  <2>1. /\ cut \in Names /\ IsSubdomain(cut, f.zone) /\ IsSubdomain(f.name, cut)
        /\ addrs \in SUBSET Addresses /\ Known(cut) /\ OwnServers(cut, addrs)
    BY <1>7, Referred
  <2>2. ASSUME ~lost'[w], SureTop(w)
        PROVE  /\ addrs \cap inUse # {}
               /\ f.step + Cardinality(Below(cut, f.name)) <= Cardinality(Below(Root, f.name))
    <3>1. \A g \in m.glue : g.ip \in inUse
      BY <1>5, <1>7, <2>2
    <3>2. \A b \in addrs : b \in inUse
      BY <1>7, <3>1 DEF GlueAddrs
    <3> QED BY <1>5, <1>7, <2>2, <3>2
  <2> HIDE DEF f
  <2> QED BY <1>1, <1>7, <2>1, <2>2, SureVisits
<1> QED BY <1>3, <1>4, <1>6, <1>7, HandleCases

LEMMA SureReceive ==
  ASSUME LimitsSuffice, LookupInv, SureInv, NEW w \in Walkers, Receive(w)
  PROVE  SureInv'
<1>1. PICK a \in Addresses, proto \in {"udp", "tcp"} :
        /\ Asks(w, a, proto)
        /\ \E m \in Replies(a, Top(w).name, proto) :
             /\ Handle(w, a, m)
             /\ lost' = [lost EXCEPT ![w] = @ \/ Classify(m, Top(w).zone, Top(w).name) = "lame"]
  BY DEF Receive
<1>2. PICK m \in Replies(a, Top(w).name, proto) :
        /\ Handle(w, a, m)
        /\ lost' = [lost EXCEPT ![w] = @ \/ Classify(m, Top(w).zone, Top(w).name) = "lame"]
  BY <1>1
<1>3. OnlyMoves(w) /\ (~lost'[w] => Classify(m, Top(w).zone, Top(w).name) # "lame")
  BY <1>2, Knows DEF Receive
<1> QED BY <1>1, <1>2, <1>3, SureHandle

\* As long as a server of the zone is in use, it is asked before the tries are over.
LEMMA StillToTry ==
  ASSUME LimitsSuffice, LookupInv, SureInv, NEW w \in Walkers, stack[w] # <<>>, ret[w] = Nothing,
         SureTop(w), Top(w).at = "ask", Top(w).servers \cap inUse # {}
  PROVE  Untried(Top(w)) # {}
<1> DEFINE f == Top(w)
<1>1. f.tried \subseteq f.servers /\ f.tried \cap inUse = {}
  BY DEF SureTop, SureFrame
<1>2. f.zone \in Honest /\ OwnServers(f.zone, f.servers) /\ f.servers \subseteq Addresses
  BY SureSpare
<1> HIDE DEF f
<1>3. f.tried \subseteq Retired(f.zone, inUse)
  BY <1>1, <1>2 DEF OwnServers, Retired
<1>4. IsFiniteSet(Retired(f.zone, inUse))
  <2>1. Retired(f.zone, inUse) \subseteq Addresses
    BY DEF Retired
  <2> QED BY <2>1, FS_Subset DEF LimitsSuffice
<1>5. Cardinality(f.tried) <= Cardinality(Retired(f.zone, inUse))
  BY <1>3, <1>4, FS_Subset
<1>6. /\ Cardinality(f.tried) \in Nat /\ Cardinality(Retired(f.zone, inUse)) \in Nat
      /\ Cardinality(Retired(f.zone, inUse)) < MaxTries
  BY <1>2, <1>3, <1>4, FS_Subset, FS_CardinalityType DEF SureInv, ServedInv
<1>7. Cardinality(f.tried) < MaxTries
  BY <1>5, <1>6, LimitAssumption
<1>8. f.servers \ f.tried # {}
  BY <1>1 DEF f
<1> QED BY <1>7, <1>8 DEF Untried, f

LEMMA SureGiveUp ==
  ASSUME LimitsSuffice, LookupInv, SureInv, NEW w \in Walkers, GiveUp(w)
  PROVE  SureInv'
<1> DEFINE f == Top(w)
           g == [f EXCEPT !.restarted = TRUE]
<1>1. /\ stack[w] # <<>> /\ ret[w] = Nothing /\ f.at = "ask" /\ Untried(f) = {}
      /\ OnlyMoves(w)
  BY KnowsNothing DEF GiveUp, At
<1>2. f \in Frames
  BY <1>1, InnermostIsTop DEF LookupInv
<1>3. \/ f.zone # Root /\ ~f.restarted /\ Visit(w, g, Root, Roots)
      \/ ~(f.zone # Root /\ ~f.restarted) /\ Return(w, Failed)
  BY DEF GiveUp
<1>4. Top(w) = f
  OBVIOUS
<1>5. ASSUME SureTop(w)
      PROVE  f.step = 0 /\ ~f.restarted /\ f.zone # Root
  <2>1. /\ f.step = 0 => ~f.restarted /\ (f.zone = Root => f.servers = Roots)
        /\ f.step > 0 => f.servers \cap inUse # {}
    BY <1>1, <1>5 DEF SureTop, SureFrame
  <2>2. f.servers \cap inUse = {}
    BY <1>1, <1>5, StillToTry
  <2>3. f.step \in Nat
    BY <1>2, FrameFields
  <2> QED BY <2>1, <2>2, <2>3 DEF SureInv, ServedInv
<1> HIDE DEF f
<1>6. f \in Frame /\ SoundFrame(f) /\ f.name \in Names
  BY <1>2, FrameFields
<1>7. CASE Visit(w, g, Root, Roots)
  <2>1. g \in Frame
    BY <1>6 DEF Frame
  <2>2. /\ g.name = f.name /\ g.zone = f.zone /\ g.servers = f.servers /\ g.at = "ask"
        /\ g.chain = f.chain /\ g.addrs = f.addrs /\ g.step = f.step
    BY <1>1, <1>4, <1>6 DEF Frame
  <2> HIDE DEF g
  <2>3. g \in Frames
    BY <1>1, <1>4, <1>6, <2>1, <2>2 DEF Frames, SoundFrame
  <2>4. Root \in Names /\ IsSubdomain(g.name, Root) /\ Known(Root)
    BY <1>6, <2>2, RootIsAbove, WorldAssumption DEF Known
  <2>5. Roots \in SUBSET Addresses /\ OwnServers(Root, Roots)
    BY DEF Roots, OwnServers
  <2>6. Cardinality(Below(Root, g.name)) \in Nat
    BY <1>6, <2>2, RootIsAbove, FewerBelow DEF LimitsSuffice
  <2>7. SureTop(w) => /\ Roots \cap inUse # {}
                      /\ g.step + Cardinality(Below(Root, g.name)) <= Cardinality(Below(Root, g.name))
    BY <1>5, <2>2, <2>6 DEF SureInv, ServedInv
  <2> QED BY <1>1, <1>4, <1>7, <2>2, <2>3, <2>4, <2>5, <2>7, SureVisits
<1>8. CASE ~(f.zone # Root /\ ~f.restarted) /\ Return(w, Failed)
  <2> DEFINE r == [rcode |-> Failed.rcode, records |-> Failed.records, name |-> Top(w).name]
  <2>1. r # Nothing
    BY DEF Failed, Nothing
  <2> HIDE DEF r
  <2> QED BY <1>1, <1>5, <1>8, <2>1, SureReturns DEF r
<1> QED BY <1>3, <1>7, <1>8

LEMMA SureResolveNS ==
  ASSUME LimitsSuffice, LookupInv, SureInv, NEW w \in Walkers, ResolveNS(w)
  PROVE  SureInv'
<1> DEFINE f == Top(w)
<1>1. stack[w] # <<>> /\ ret[w] = Nothing /\ f.at = "ns" /\ OnlyMoves(w)
  BY KnowsNothing DEF ResolveNS, At
<1>2. f \in Frames
  BY <1>1, InnermostIsTop DEF LookupInv
<1>3. PICK n \in Unresolved(f) : Call(w, [f EXCEPT !.tried = @ \cup {n}], n)
  BY DEF ResolveNS
<1>4. Top(w) = f
  OBVIOUS
<1>5. SureTop(w) => SureFrame(f, FALSE, Spare(w), inUse)
  BY <1>1 DEF SureTop
<1> HIDE DEF f
<1>6. f \in Frame /\ SoundFrame(f)
  BY <1>2, FrameFields
<1>7. n \in f.ns /\ n \in Names
  BY <1>2, FrameFields DEF Unresolved
<1> DEFINE g == [f EXCEPT !.tried = @ \cup {n}]
<1>8. g \in Frame
  BY <1>6, <1>7 DEF Frame
<1>9. /\ g.name = f.name /\ g.zone = f.zone /\ g.servers = f.servers /\ g.at = f.at
      /\ g.ip = f.ip /\ g.cut = f.cut /\ g.ns = f.ns /\ g.addrs = f.addrs /\ g.chain = f.chain
      /\ g.step = f.step
  BY <1>6 DEF Frame
<1>10. Call(w, g, n)
  BY <1>3
<1> HIDE DEF g
<1>11. g \in Frames
  BY <1>6, <1>8, <1>9 DEF Frames, SoundFrame
<1>12. SureTop(w) => /\ SureFrame(g, TRUE, Spare(w), inUse)
                     /\ Spare(w) > 0 /\ n \in Resolvable[Spare(w) - 1]
  BY <1>1, <1>4, <1>5, <1>7, <1>9 DEF SureFrame
<1> QED BY <1>1, <1>4, <1>7, <1>9, <1>10, <1>11, <1>12, SureCalls

LEMMA SureEnterZone ==
  ASSUME LimitsSuffice, LookupInv, SureInv, NEW w \in Walkers, EnterZone(w)
  PROVE  SureInv'
<1> DEFINE f == Top(w)
<1>1. /\ stack[w] # <<>> /\ ret[w] = Nothing /\ f.at = "ns" /\ Unresolved(f) = {}
      /\ OnlyMoves(w)
  BY KnowsNothing DEF EnterZone, At
<1>2. f \in Frames
  BY <1>1, InnermostIsTop DEF LookupInv
<1>3. \/ f.addrs = {} /\ Return(w, Failed)
      \/ Visit(w, f, f.cut, f.addrs)
  BY DEF EnterZone
<1>4. Top(w) = f
  OBVIOUS
<1>5. SureTop(w) => SureFrame(f, FALSE, Spare(w), inUse) /\ HonestName(f.name)
  BY <1>1, SureSpare DEF SureTop
<1> HIDE DEF f
<1>6. /\ f.name \in Names /\ f.cut \in Names /\ f.zone \in Names /\ f.addrs \in SUBSET Addresses
      /\ f.cut # f.zone /\ IsSubdomain(f.cut, f.zone) /\ IsSubdomain(f.name, f.cut)
      /\ Known(f.cut) /\ OwnServers(f.cut, f.addrs) /\ f.step \in Nat
  BY <1>1, <1>2, <1>4, FrameFields DEF SoundFrame
<1>7. ASSUME SureTop(w)
      PROVE  /\ f.addrs \cap inUse # {}
             /\ f.step + Cardinality(Below(f.cut, f.name)) <= Cardinality(Below(Root, f.name))
  <2>1. ~ (f.tried = {} /\ f.addrs = {})
    <3> SUFFICES ASSUME f.tried = {}, f.addrs = {} PROVE FALSE
      OBVIOUS
    <3>1. Cardinality({}) = 0
      BY FS_EmptySet
    <3>2. Unresolved(f) = f.ns
      BY <3>1 DEF Unresolved, LimitsSuffice
    <3> QED BY <1>1, <1>4, <1>5, <1>7, <3>2 DEF SureFrame
  <2>2. f.addrs \cap inUse # {}
    BY <1>1, <1>4, <1>5, <1>7, <2>1 DEF SureFrame
  <2>3. f.cut \in Zones
    BY <1>5, <1>6, <1>7, NamesAboveHonest, HonestZones DEF Known
  <2>4. f.cut \in Below(f.zone, f.name)
    BY <1>6, <2>3 DEF Below
  <2>5. /\ Cardinality(Below(f.cut, f.name)) \in Nat
        /\ Cardinality(Below(f.cut, f.name)) < Cardinality(Below(f.zone, f.name))
        /\ Cardinality(Below(f.zone, f.name)) \in Nat /\ Cardinality(Below(Root, f.name)) \in Nat
    BY <1>6, <2>4, FewerBelow, RootIsAbove DEF LimitsSuffice
  <2>6. f.step + Cardinality(Below(f.zone, f.name))
          <= Cardinality(Below(Root, f.name)) + (IF f.step > 0 THEN 1 ELSE 0)
    BY <1>1, <1>4, <1>5, <1>7 DEF SureFrame
  <2> QED BY <1>6, <2>2, <2>5, <2>6
<1>8. CASE f.addrs = {} /\ Return(w, Failed)
  <2> DEFINE r == [rcode |-> Failed.rcode, records |-> Failed.records, name |-> Top(w).name]
  <2>1. r # Nothing
    BY DEF Failed, Nothing
  <2> HIDE DEF r
  <2> QED BY <1>1, <1>7, <1>8, <2>1, SureReturns DEF r
<1>9. CASE Visit(w, f, f.cut, f.addrs)
  BY <1>1, <1>2, <1>4, <1>6, <1>7, <1>9, SureVisits
<1> QED BY <1>3, <1>8, <1>9

LEMMA SureResume ==
  ASSUME LimitsSuffice, LookupInv, SureInv, NEW w \in Walkers, Resume(w)
  PROVE  SureInv'
<1> DEFINE f == Top(w)
           s == stack[w]
           r == ret[w]
           new == {d.data : d \in {e \in r.records : e.data \in Addresses}}
           g == [f EXCEPT !.addrs = @ \cup new]
<1>1. s # <<>> /\ r # Nothing /\ OnlyMoves(w)
  BY KnowsNothing DEF Resume
<1>2. /\ f \in Frames /\ f = s[Len(s)] /\ SoundStack(s) /\ Len(s) \in Nat \ {0}
      /\ SoundAnswer(r) /\ Fits(s, r)
  BY <1>1, InnermostIsTop DEF LookupInv, WalksInv
<1>3. \/ /\ f.at = "ns"
         /\ stack' = [stack EXCEPT ![w][Len(stack[w])].addrs = @ \cup new]
         /\ ret' = [ret EXCEPT ![w] = Nothing]
      \/ /\ f.at = "alias"
         /\ Return(w, IF r.rcode = "fail" THEN Failed
                      ELSE [rcode |-> r.rcode, records |-> f.chain \cup r.records])
  BY DEF Resume
<1>4. f \in Frame /\ SoundFrame(f) /\ f.name \in Names /\ f.zone \in Names /\ f.cut \in Names
  BY <1>2, FrameFields
<1>5. SureTop(w) => /\ SureFrame(f, TRUE, Spare(w), inUse) /\ Usable(r, inUse)
                    /\ HonestName(f.name)
  <2>1. (r # Nothing) = TRUE
    BY <1>1
  <2> QED BY <1>1, <2>1, SureSpare DEF SureTop
<1>6. CASE /\ f.at = "ns"
           /\ stack' = [stack EXCEPT ![w][Len(stack[w])].addrs = @ \cup new]
           /\ ret' = [ret EXCEPT ![w] = Nothing]
  <2>1. stack' = [stack EXCEPT ![w] = [s EXCEPT ![Len(s)] = g]]
    BY <1>2, <1>6
  <2>2. new \in SUBSET Addresses /\ OwnServers(f.cut, new)
    BY <1>1, <1>2, <1>6, AddressesSound DEF Fits
  <2>3. r.name \in f.ns
    BY <1>1, <1>2, <1>6 DEF Fits
  <2>4. SureTop(w) => new \cap inUse # {}
    <3> SUFFICES ASSUME SureTop(w) PROVE new \cap inUse # {}
      OBVIOUS
    <3>1. f.cut \in Honest /\ f.cut # Root /\ f.ns \subseteq NSNames[f.cut]
      BY <1>4, <1>5, <1>6, NamesAboveHonest, NotRoot DEF SoundFrame, Known
    <3>2. Data[r.name] \cap Addresses # {}
      BY <2>3, <3>1, ServersHaveAddresses
    <3>3. PICK d \in r.records : d.data \in Addresses \cap inUse
      BY <1>5, <3>2 DEF Usable
    <3> QED BY <3>3
  <2>5. Top(w) = f /\ stack[w] = s
    OBVIOUS
  <2> HIDE DEF new, f, s, r
  <2>6. f.addrs \in SUBSET Addresses
    BY <1>2, FrameFields
  <2>7. g \in Frame
    BY <1>4, <2>2, <2>6 DEF Frame
  <2>8. /\ g.name = f.name /\ g.zone = f.zone /\ g.servers = f.servers /\ g.at = "ns"
        /\ g.cut = f.cut /\ g.ns = f.ns /\ g.addrs = f.addrs \cup new /\ g.chain = f.chain
        /\ g.step = f.step
    BY <1>4, <1>6 DEF Frame
  <2> HIDE DEF g
  <2>9. g \in Frames
    BY <1>4, <1>6, <2>2, <2>6, <2>7, <2>8 DEF Frames, SoundFrame, OwnServers
  <2>10. SureTop(w) => SureFrame(g, FALSE, Spare(w), inUse)
    BY <1>5, <1>6, <2>4, <2>8 DEF SureFrame
  <2> QED BY <1>1, <1>6, <2>1, <2>5, <2>8, <2>9, <2>10, SureGoesOn
<1>7. CASE /\ f.at = "alias"
           /\ Return(w, IF r.rcode = "fail" THEN Failed
                        ELSE [rcode |-> r.rcode, records |-> f.chain \cup r.records])
  <2> DEFINE ans == IF r.rcode = "fail" THEN Failed
                    ELSE [rcode |-> r.rcode, records |-> f.chain \cup r.records]
             q == [rcode |-> ans.rcode, records |-> ans.records, name |-> f.name]
  <2>1. Return(w, ans) /\ Top(w) = f
    BY <1>7
  <2>2. r \in Returning
    BY <1>1, <1>2 DEF SoundAnswer
  <2> HIDE DEF f, s, r
  <2>3. q # Nothing
    BY <2>2 DEF Returning, Failed, Nothing
  <2>4. ASSUME SureTop(w)
        PROVE  Usable(q, inUse)
    <3>1. PICK d \in f.chain : d.owner = f.name /\ d.data \in Names
      BY <1>4, <1>7 DEF SoundFrame, Aliases
    <3>2. d.data \in Data[f.name]
      BY <1>4, <1>5, <2>4, <3>1 DEF SoundFrame, TrueRecords
    <3>3. Data[f.name] \cap Addresses = {}
      BY <1>4, <3>1, <3>2, Kinds
    <3>4. r.rcode # "fail"
      BY <1>5, <2>4 DEF Usable
    <3>5. q.rcode # "fail" /\ q.name = f.name
      BY <3>4
    <3> QED BY <3>3, <3>5 DEF Usable
  <2>5. q = [rcode |-> ans.rcode, records |-> ans.records, name |-> Top(w).name]
    BY <2>1
  <2> HIDE DEF q, ans
  <2> QED BY <1>1, <2>1, <2>3, <2>4, <2>5, SureReturns DEF s
<1> QED BY <1>3, <1>6, <1>7

LEMMA SureKept ==
  ASSUME SureInv, UNCHANGED <<stack, ret, inUse, lost>>
  PROVE  SureInv'
BY DEF SureInv, ServedInv

\* A zone's server moves: as many addresses as before are not in use, and whoever
\* is on a walk may have missed it.
LEMMA SureRenumber ==
  ASSUME LimitsSuffice, LookupInv, SureInv,
         NEW old \in Addresses, NEW new \in Addresses, Renumber(old, new)
  PROVE  SureInv'
<1>1. /\ old \in inUse /\ new \notin inUse /\ Serves[old] = Serves[new]
      /\ inUse' = (inUse \ {old}) \cup {new}
      /\ lost' = [w \in Walkers |-> lost[w] \/ stack[w] # <<>>]
      /\ UNCHANGED <<stack, ret>>
  BY DEF Renumber
<1>2. Roots \cap inUse' # {}
  <2>1. PICK a \in Roots : a \in inUse
    BY DEF SureInv, ServedInv
  <2>2. a = old => new \in Roots
    BY <1>1, <2>1 DEF Roots
  <2> QED BY <1>1, <2>1, <2>2
<1>3. ASSUME NEW z \in Honest
      PROVE  Cardinality(Retired(z, inUse')) < MaxTries
  <2>1. Cardinality(Retired(z, inUse)) < MaxTries
    BY DEF SureInv, ServedInv
  <2>2. CASE Serves[old] # z
    <3>1. Retired(z, inUse') = Retired(z, inUse)
      BY <1>1, <2>2 DEF Retired
    <3> QED BY <2>1, <3>1
  <2>3. CASE Serves[old] = z
    <3> DEFINE S == Retired(z, inUse)
    <3>1. Retired(z, inUse') = (S \ {new}) \cup {old}
      BY <1>1, <2>3 DEF Retired
    <3>2. new \in S /\ old \notin S /\ S \subseteq Addresses
      BY <1>1, <2>3 DEF Retired
    <3> HIDE DEF S
    <3>3. IsFiniteSet(S) /\ Cardinality(S) \in Nat
      BY <3>2, FS_Subset, FS_CardinalityType DEF LimitsSuffice
    <3>4. IsFiniteSet(S \ {new}) /\ Cardinality(S \ {new}) = Cardinality(S) - 1
      BY <3>2, <3>3, FS_RemoveElement
    <3>5. Cardinality((S \ {new}) \cup {old}) = Cardinality(S \ {new}) + 1
      BY <3>2, <3>4, FS_AddElement
    <3>6. Cardinality((S \ {new}) \cup {old}) = Cardinality(S)
      BY <3>3, <3>4, <3>5
    <3> QED BY <2>1, <3>1, <3>6 DEF S
  <2> QED BY <2>2, <2>3
<1>4. ASSUME NEW w \in Walkers, ~lost'[w]
      PROVE  Sure(stack'[w], ret'[w], inUse')
  <2>1. ~lost[w] /\ stack[w] = <<>>
    BY <1>1, <1>4
  <2> QED BY <1>1, <2>1 DEF SureInv, Sure
<1> QED BY <1>2, <1>3, <1>4 DEF SureInv, ServedInv

LEMMA SureInitially ==
  ASSUME LimitsSuffice, Init
  PROVE  SureInv
<1>1. \A z \in Honest : Retired(z, inUse) = {a \in Addresses \ Published : Serves[a] = z}
  BY DEF Init, Retired
<1>2. ServedInv
  BY <1>1 DEF Init, LimitsSuffice, ServedInv
<1>3. Sure(<<>>, Nothing, inUse)
  BY DEF Sure, Nothing
<1> QED BY <1>2, <1>3 DEF Init, SureInv

LEMMA SureSteps ==
  ASSUME LimitsSuffice, LookupInv, SureInv, [Next]_vars
  PROVE  SureInv'
<1>1. CASE UNCHANGED vars
  BY <1>1, SureKept DEF vars
<1>2. ASSUME NEW w \in Walkers, Alone(w)
      PROVE  SureInv'
  BY <1>2, SureTimeout, SureGiveUp, SureResolveNS, SureEnterZone, SureResume DEF Alone
<1>3. ASSUME NEW z \in Names, Expire(z)
      PROVE  SureInv'
  BY <1>3, SureKept DEF Expire
<1>4. CASE FlushZones
  BY <1>4, SureKept DEF FlushZones
<1> QED BY <1>1, <1>2, <1>3, <1>4, SureBegin, SureTruncated, SureReceive, SureRenumber DEF Next

\* If the limits suffice for the namespace, a name that does not lead too deep is
\* answered, an alias or not, whatever zones and addresses the cache remembers
\* and whoever lies about others, unless a reply of a server in use was lost.
THEOREM FailsOnlyOnLoss ==
  ASSUME LimitsSuffice
  PROVE  Spec => []FailsOnlyIfLost
<1>1. Init => SureInv
  BY SureInitially
<1>2. LookupInv /\ SureInv /\ [Next]_vars => SureInv'
  BY SureSteps
<1>3. SureInv => FailsOnlyIfLost
  BY DEF SureInv, Sure, FailsOnlyIfLost, Nothing
<1> QED BY <1>1, <1>2, <1>3, Invariant, PTL DEF Spec

-----------------------------------------------------------------------------
(* Every step leaves less to do *)

\* A frame is within the limits: its steps, the servers tried at a zone, the
\* names resolved for the next one.  Who asks does not wait.
SmallFrame(f, waits) ==
  /\ IsFiniteSet(f.tried) /\ f.step <= MaxSteps
  /\ f.at \in {"ask", "tcp"} => ~waits /\ Cardinality(f.tried) <= MaxTries
  /\ f.at = "tcp" => f.ip \in f.tried
  /\ f.at = "ns" => Cardinality(f.tried) <= MaxNS
  /\ f.at = "alias" => waits

SmallStack(s, r) == \A i \in 1 .. Len(s) : SmallFrame(s[i], i < Len(s) \/ r # Nothing)

SmallInv == \A w \in Walkers : SmallStack(stack[w], ret[w])

\* Whoever moves has less left to do.
Progress ==
  \A w \in Walkers :
    stack'[w] # stack[w] \/ ret'[w] # ret[w]
      => Less(Todo(stack'[w], ret'[w]), Todo(stack[w], ret[w]))

\* The work of the visits that are left after step k.
Visits(k) == (MaxSteps - k) * VisitWork

LEMMA VisitsLeft ==
  /\ VisitWork \in Nat /\ VisitWork = MaxNS + 2 * MaxTries + 2
  /\ MaxSteps \in Nat /\ MaxNS \in Nat /\ MaxTries \in Nat
  /\ Visits(0) \in Nat /\ Everything = 2 * Visits(0) + 2 * VisitWork + 3
  /\ \A k \in 0 .. MaxSteps :
       /\ Visits(k) \in Nat /\ Visits(k) <= Visits(0)
       /\ k < MaxSteps => Visits(k) = Visits(k + 1) + VisitWork
<1>1. MaxSteps \in Nat /\ MaxNS \in Nat /\ MaxTries \in Nat
  BY LimitAssumption
<1>2. VisitWork \in Nat /\ VisitWork = MaxNS + 2 * MaxTries + 2
  BY <1>1 DEF VisitWork
<1>3. \A m, v \in Nat : m * v \in Nat /\ (m + 1) * v = m * v + v /\ 2 * (m + 1) * v = 2 * (m * v) + 2 * v
  OBVIOUS
<1>4. \A m, n, v \in Nat : m <= n => m * v <= n * v
  OBVIOUS
<1>5. ASSUME NEW k \in 0 .. MaxSteps
      PROVE  /\ Visits(k) \in Nat /\ Visits(k) <= Visits(0)
             /\ k < MaxSteps => Visits(k) = Visits(k + 1) + VisitWork
  <2>1. MaxSteps - k \in Nat /\ MaxSteps - 0 \in Nat /\ MaxSteps - k <= MaxSteps - 0
    BY <1>1
  <2>2. Visits(k) \in Nat /\ Visits(k) <= Visits(0)
    BY <1>2, <1>3, <1>4, <2>1 DEF Visits
  <2>3. ASSUME k < MaxSteps
        PROVE  Visits(k) = Visits(k + 1) + VisitWork
    <3>1. MaxSteps - (k + 1) \in Nat /\ MaxSteps - k = MaxSteps - (k + 1) + 1
      BY <1>1, <2>3
    <3> QED BY <1>2, <1>3, <3>1 DEF Visits
  <2> QED BY <2>2, <2>3
<1>6. Visits(0) \in Nat
  BY <1>1, <1>5
<1>7. Everything = 2 * Visits(0) + 2 * VisitWork + 3
  <2>1. MaxSteps - 0 = MaxSteps
    BY <1>1
  <2>2. 2 * (MaxSteps + 1) * VisitWork = 2 * (MaxSteps * VisitWork) + 2 * VisitWork
    BY <1>1, <1>2, <1>3
  <2> QED BY <2>1, <2>2 DEF Everything, Visits
<1> QED BY <1>1, <1>2, <1>5, <1>6, <1>7

\* How much is left in each phase.
LEMMA LeftOf ==
  ASSUME NEW f \in Frames, NEW waits, SmallFrame(f, waits)
  PROVE  LET tried == Cardinality(f.tried)
         IN  /\ tried \in Nat /\ f.step \in 0 .. MaxSteps /\ Visits(f.step) \in Nat
             /\ f.at = "ask" =>
                  /\ tried <= MaxTries
                  /\ Left(f) = Visits(f.step) + 2 + MaxNS + 2 * (MaxTries - tried)
             /\ f.at = "tcp" =>
                  /\ tried <= MaxTries /\ tried > 0
                  /\ Left(f) = Visits(f.step) + 3 + MaxNS + 2 * (MaxTries - tried)
             /\ f.at = "ns" =>
                  /\ tried <= MaxNS
                  /\ Left(f) = Visits(f.step) + 1 + (MaxNS - tried)
             /\ f.at = "alias" => Left(f) = 0
             /\ f.at \in {"ask", "tcp", "ns", "alias"}
<1> DEFINE tried == Cardinality(f.tried)
<1>1. f.step \in Nat /\ f.at \in {"ask", "tcp", "ns", "alias"}
  BY FrameFields
<1>2. IsFiniteSet(f.tried) /\ f.step <= MaxSteps
  BY DEF SmallFrame
<1>3. tried \in Nat
  BY <1>2, FS_CardinalityType
<1>4. f.step \in 0 .. MaxSteps /\ Visits(f.step) \in Nat
  BY <1>1, <1>2, VisitsLeft
<1>5. f.at = "tcp" => tried > 0
  <2>1. f.at = "tcp" => f.tried # {}
    BY DEF SmallFrame
  <2>2. tried = 0 <=> f.tried = {}
    BY <1>2, FS_EmptySet
  <2> QED BY <1>3, <2>1, <2>2
<1>6. /\ f.at \in {"ask", "tcp"} => tried <= MaxTries
      /\ f.at = "ns" => tried <= MaxNS
  BY DEF SmallFrame
<1>7. Left(f) =
        IF f.at = "alias" THEN 0
        ELSE Visits(f.step) +
             IF f.at = "ns" THEN 1 + (MaxNS - tried)
             ELSE 2 + MaxNS + 2 * (MaxTries - tried) + (IF f.at = "tcp" THEN 1 ELSE 0)
  BY DEF Left, Visits
<1> HIDE DEF tried
<1>8. /\ f.at = "ask" => Left(f) = Visits(f.step) + 2 + MaxNS + 2 * (MaxTries - tried)
      /\ f.at = "tcp" => Left(f) = Visits(f.step) + 3 + MaxNS + 2 * (MaxTries - tried)
      /\ f.at = "ns" => Left(f) = Visits(f.step) + 1 + (MaxNS - tried)
      /\ f.at = "alias" => Left(f) = 0
  BY <1>3, <1>4, <1>7, VisitsLeft
<1> QED BY <1>1, <1>3, <1>4, <1>5, <1>6, <1>8 DEF tried

LEMMA LeftRange ==
  ASSUME NEW f \in Frames, NEW waits, SmallFrame(f, waits)
  PROVE  /\ Left(f) \in Nat /\ Left(f) <= Visits(0) + VisitWork
         /\ f.at # "alias" => Left(f) > Visits(f.step) /\ Left(f) > 0 /\ Visits(f.step) \in Nat
<1> DEFINE tried == Cardinality(f.tried)
           v == Visits(f.step)
<1>1. /\ v \in Nat /\ v <= Visits(0) /\ tried \in Nat
      /\ f.at \in {"ask", "tcp", "ns", "alias"}
  BY LeftOf, VisitsLeft
<1>2. /\ f.at = "ask" => tried <= MaxTries /\ Left(f) = v + 2 + MaxNS + 2 * (MaxTries - tried)
      /\ f.at = "tcp" => /\ tried <= MaxTries /\ tried > 0
                         /\ Left(f) = v + 3 + MaxNS + 2 * (MaxTries - tried)
      /\ f.at = "ns" => tried <= MaxNS /\ Left(f) = v + 1 + (MaxNS - tried)
      /\ f.at = "alias" => Left(f) = 0
  BY LeftOf
<1>3. /\ VisitWork = MaxNS + 2 * MaxTries + 2 /\ MaxNS \in Nat /\ MaxTries \in Nat
      /\ Visits(0) \in Nat
  BY VisitsLeft
<1> HIDE DEF tried
<1>4. v = Visits(f.step)
  OBVIOUS
<1> HIDE DEF v
<1>5. Left(f) \in Nat /\ Left(f) <= Visits(0) + VisitWork
  BY <1>1, <1>2, <1>3
<1>6. f.at # "alias" => Left(f) > v /\ Left(f) > 0
  BY <1>1, <1>2, <1>3
<1> QED BY <1>1, <1>4, <1>5, <1>6

\* What Todo is at a level: of a frame that waits or not, of one that has just
\* returned, and of one not yet begun.
LEMMA TodoLevels ==
  ASSUME NEW s, Len(s) \in Nat, NEW r
  PROVE  /\ DOMAIN Todo(s, r) = 1 .. MaxDepth + 1
         /\ \A i \in 1 .. MaxDepth + 1 :
              /\ i < Len(s) => Todo(s, r)[i] = 1 + 2 * Left(s[i]) + 1
              /\ i = Len(s) /\ r # Nothing => Todo(s, r)[i] = 1 + 2 * Left(s[i]) + 1
              /\ i = Len(s) /\ r = Nothing => Todo(s, r)[i] = 1 + 2 * Left(s[i]) + 0
              /\ i = Len(s) + 1 /\ r # Nothing => Todo(s, r)[i] = 0
              /\ i > Len(s) /\ (i > Len(s) + 1 \/ r = Nothing) => Todo(s, r)[i] = Everything
BY LimitAssumption DEF Todo

LEMMA TodoRange ==
  ASSUME NEW s, SoundStack(s), NEW r, SmallStack(s, r)
  PROVE  Todo(s, r) \in [1 .. MaxDepth + 1 -> 0 .. Everything]
<1>1. s \in Seq(Frames) /\ Len(s) \in Nat
  BY DEF SoundStack
<1>2. /\ Everything \in Nat /\ Everything = 2 * Visits(0) + 2 * VisitWork + 3
      /\ Visits(0) \in Nat /\ VisitWork \in Nat
  BY VisitsLeft
<1>3. ASSUME NEW i \in 1 .. Len(s)
      PROVE  1 + 2 * Left(s[i]) + 1 \in 0 .. Everything /\ 1 + 2 * Left(s[i]) + 0 \in 0 .. Everything
  <2>1. s[i] \in Frames /\ SmallFrame(s[i], i < Len(s) \/ r # Nothing)
    BY <1>1 DEF SmallStack
  <2>2. Left(s[i]) \in Nat /\ Left(s[i]) <= Visits(0) + VisitWork
    BY <2>1, LeftRange
  <2> DEFINE l == Left(s[i])
             most == Visits(0) + VisitWork
  <2>3. l \in Nat /\ most \in Nat /\ l <= most /\ Everything = 2 * most + 3
    BY <1>2, <2>2
  <2> HIDE DEF l, most
  <2>4. 1 + 2 * l + 1 \in 0 .. Everything /\ 1 + 2 * l + 0 \in 0 .. Everything
    BY <2>3
  <2> QED BY <2>4 DEF l
<1>4. ASSUME NEW i \in 1 .. MaxDepth + 1
      PROVE  Todo(s, r)[i] \in 0 .. Everything
  <2>1. i \in Nat /\ i > 0
    BY LimitAssumption
  <2>2. CASE i > Len(s)
    <3>1. Todo(s, r)[i] \in {0, Everything}
      BY <1>1, <2>1, <2>2 DEF Todo
    <3> QED BY <1>2, <3>1
  <2>3. CASE i <= Len(s)
    <3>1. i \in 1 .. Len(s)
      BY <1>1, <2>1, <2>3
    <3> QED BY <1>1, <1>3, <2>1, <2>3, <3>1, TodoLevels
  <2> QED BY <1>1, <2>1, <2>2, <2>3
<1> QED BY <1>4 DEF Todo

\* It is less if it is at the level of the innermost frame, and the outer ones
\* are as before.
LEMMA LessThere ==
  ASSUME NEW s, SoundStack(s), s # <<>>, NEW r, NEW t, NEW u, Len(t) \in Nat, Len(t) >= Len(s) - 1,
         Len(t) = Len(s) - 1 => u # Nothing,
         \A i \in 1 .. Len(s) - 1 : Left(t[i]) = Left(s[i]),
         Todo(t, u)[Len(s)] < Todo(s, r)[Len(s)]
  PROVE  Less(Todo(t, u), Todo(s, r))
<1> DEFINE n == Len(s)
<1>1. n \in 1 .. MaxDepth + 1 /\ MaxDepth \in Nat
  BY LimitAssumption DEF SoundStack
<1>2. ASSUME NEW i \in 1 .. n - 1
      PROVE  Todo(t, u)[i] = Todo(s, r)[i]
  <2>1. i \in 1 .. MaxDepth + 1 /\ i < Len(s) /\ (i < Len(t) \/ (i = Len(t) /\ u # Nothing))
    BY <1>1
  <2>2. Todo(t, u)[i] = 1 + 2 * Left(t[i]) + 1
    BY <2>1, TodoLevels
  <2>3. Todo(s, r)[i] = 1 + 2 * Left(s[i]) + 1
    BY <1>1, <2>1, TodoLevels
  <2> QED BY <1>2, <2>2, <2>3
<1>3. n \in DOMAIN Todo(t, u)
  BY <1>1, TodoLevels
<1> QED BY <1>2, <1>3 DEF Less

\* One walker's stack becomes s and what it was told r.
LEMMA OneNearer ==
  ASSUME LookupInv, SmallInv, NEW w \in Walkers, NEW s, NEW r, SmallStack(s, r),
         Less(Todo(s, r), Todo(stack[w], ret[w])),
         stack' = [stack EXCEPT ![w] = s], ret' = [ret EXCEPT ![w] = r]
  PROVE  SmallInv' /\ Progress
<1>1. stack \in [Walkers -> Seq(Frames)] /\ ret \in [Walkers -> Returning \cup {Nothing}]
  BY DEF LookupInv, WalksInv
<1>2. stack'[w] = s /\ ret'[w] = r
  BY <1>1
<1>3. \A v \in Walkers \ {w} : stack'[v] = stack[v] /\ ret'[v] = ret[v]
  BY <1>1
<1>4. \A v \in Walkers : SmallStack(stack'[v], ret'[v])
  BY <1>2, <1>3 DEF SmallInv
<1>5. Progress
  BY <1>2, <1>3 DEF Progress
<1>6. SmallInv'
  BY <1>4 DEF SmallInv, SmallStack
<1> QED BY <1>5, <1>6

\* The innermost frame, and what is left of it.
LEMMA SmallTop ==
  ASSUME LookupInv, SmallInv, NEW w \in Walkers, stack[w] # <<>>
  PROVE  /\ SmallFrame(Top(w), ret[w] # Nothing) /\ Top(w) \in Frames
         /\ Len(stack[w]) \in 1 .. MaxDepth + 1
         /\ Left(Top(w)) \in Nat
         /\ Todo(stack[w], ret[w])[Len(stack[w])]
              = 1 + 2 * Left(Top(w)) + (IF ret[w] # Nothing THEN 1 ELSE 0)
<1> DEFINE n == Len(stack[w])
<1>1. SoundStack(stack[w]) /\ n \in Nat \ {0} /\ Top(w) = stack[w][n] /\ Top(w) \in Frames
  BY InnermostIsTop DEF LookupInv
<1>2. n \in 1 .. MaxDepth + 1
  BY <1>1, LimitAssumption DEF SoundStack
<1>3. SmallFrame(stack[w][n], n < n \/ ret[w] # Nothing)
  BY <1>1 DEF SmallInv, SmallStack
<1>4. (n < n \/ ret[w] # Nothing) = (ret[w] # Nothing)
  BY <1>1
<1>5. SmallFrame(Top(w), ret[w] # Nothing)
  BY <1>1, <1>3, <1>4
<1>6. Left(Top(w)) \in Nat
  BY <1>1, <1>5, LeftRange
<1>7. Todo(stack[w], ret[w])[n] = 1 + 2 * Left(Top(w)) + (IF ret[w] # Nothing THEN 1 ELSE 0)
  BY <1>1, <1>2, TodoLevels
<1> QED BY <1>1, <1>2, <1>5, <1>6, <1>7

\* The innermost frame goes on.
LEMMA NearerGoesOn ==
  ASSUME LookupInv, SmallInv, NEW w \in Walkers, stack[w] # <<>>,
         NEW g \in Frames, g.name = Top(w).name, SmallFrame(g, FALSE),
         Left(g) < Left(Top(w)) \/ (Left(g) = Left(Top(w)) /\ ret[w] # Nothing),
         stack' = [stack EXCEPT ![w] = [stack[w] EXCEPT ![Len(stack[w])] = g]],
         ret' = [ret EXCEPT ![w] = Nothing]
  PROVE  SmallInv' /\ Progress
<1> DEFINE n == Len(stack[w])
           s == [stack[w] EXCEPT ![n] = g]
<1>1. /\ SoundStack(stack[w]) /\ n \in 1 .. MaxDepth + 1 /\ Top(w) = stack[w][n]
      /\ Left(Top(w)) \in Nat /\ Left(g) \in Nat
  BY InnermostIsTop, SmallTop, LeftRange DEF LookupInv
<1>2. /\ Len(s) = n /\ s[n] = g
      /\ \A i \in 1 .. n - 1 : s[i] = stack[w][i]
  BY <1>1, StackStays
<1>3. stack' = [stack EXCEPT ![w] = s]
  OBVIOUS
<1> HIDE DEF s
<1>4. ASSUME NEW i \in 1 .. n
      PROVE  SmallFrame(s[i], i < n \/ Nothing # Nothing)
  <2>1. CASE i = n
    <3>1. (i < n \/ Nothing # Nothing) = FALSE
      BY <2>1, <1>1
    <3> QED BY <2>1, <3>1, <1>2
  <2>2. CASE i # n
    <3>1. i \in 1 .. n - 1 /\ (i < n \/ Nothing # Nothing) = TRUE /\ (i < n \/ ret[w] # Nothing) = TRUE
      BY <2>2, <1>1
    <3>2. SmallFrame(stack[w][i], i < n \/ ret[w] # Nothing)
      BY DEF SmallInv, SmallStack
    <3> QED BY <3>1, <3>2, <1>2
  <2> QED BY <2>1, <2>2
<1>5. SmallStack(s, Nothing)
  BY <1>2, <1>4 DEF SmallStack
<1>6. Todo(s, Nothing)[n] < Todo(stack[w], ret[w])[n]
  <2>1. Todo(s, Nothing)[n] = 1 + 2 * Left(g) + 0
    BY <1>1, <1>2, TodoLevels
  <2>2. Todo(stack[w], ret[w])[n] = 1 + 2 * Left(Top(w)) + (IF ret[w] # Nothing THEN 1 ELSE 0)
    BY SmallTop
  <2> QED BY <1>1, <2>1, <2>2
<1>7. Less(Todo(s, Nothing), Todo(stack[w], ret[w]))
  BY <1>1, <1>2, <1>6, LessThere
<1> QED BY <1>3, <1>5, <1>7, OneNearer

LEMMA NearerStays ==
  ASSUME LookupInv, SmallInv, NEW w \in Walkers, stack[w] # <<>>, ret[w] = Nothing,
         NEW g \in Frames, g.name = Top(w).name, SmallFrame(g, FALSE), Left(g) < Left(Top(w)),
         Stay(w, g)
  PROVE  SmallInv' /\ Progress
<1>1. /\ stack' = [stack EXCEPT ![w] = [stack[w] EXCEPT ![Len(stack[w])] = g]]
      /\ ret' = [ret EXCEPT ![w] = Nothing]
  BY DEF Stay, LookupInv, WalksInv
<1> QED BY <1>1, NearerGoesOn

\* The innermost frame returns.
LEMMA NearerReturns ==
  ASSUME LookupInv, SmallInv, NEW w \in Walkers, stack[w] # <<>>,
         NEW ans, Return(w, ans), ans.rcode # "none"
  PROVE  SmallInv' /\ Progress
<1> DEFINE n == Len(stack[w])
           s == SubSeq(stack[w], 1, n - 1)
           r == [rcode |-> ans.rcode, records |-> ans.records, name |-> Top(w).name]
<1>1. /\ SoundStack(stack[w]) /\ n \in 1 .. MaxDepth + 1 /\ Top(w) = stack[w][n]
      /\ Left(Top(w)) \in Nat
  BY InnermostIsTop, SmallTop DEF LookupInv
<1>2. r # Nothing /\ r.name = stack[w][n].name
  BY <1>1 DEF Nothing
<1>3. stack' = [stack EXCEPT ![w] = s] /\ ret' = [ret EXCEPT ![w] = r]
  BY DEF Return
<1> HIDE DEF r
<1>4. Len(s) = n - 1 /\ \A i \in 1 .. n - 1 : s[i] = stack[w][i]
  BY <1>1, <1>2, StackReturns
<1> HIDE DEF s
<1>5. ASSUME NEW i \in 1 .. n - 1
      PROVE  SmallFrame(s[i], i < n - 1 \/ r # Nothing)
  <2>1. i \in 1 .. n /\ (i < n - 1 \/ r # Nothing) = TRUE /\ (i < n \/ ret[w] # Nothing) = TRUE
    BY <1>1, <1>2
  <2>2. SmallFrame(stack[w][i], i < n \/ ret[w] # Nothing)
    BY <2>1 DEF SmallInv, SmallStack
  <2> QED BY <2>1, <2>2, <1>4
<1>6. SmallStack(s, r)
  BY <1>4, <1>5 DEF SmallStack
<1>7. Todo(s, r)[n] < Todo(stack[w], ret[w])[n]
  <2>1. Todo(s, r)[n] = 0
    BY <1>1, <1>2, <1>4, TodoLevels
  <2>2. Todo(stack[w], ret[w])[n] = 1 + 2 * Left(Top(w)) + (IF ret[w] # Nothing THEN 1 ELSE 0)
    BY SmallTop
  <2> QED BY <1>1, <2>1, <2>2
<1>8. Less(Todo(s, r), Todo(stack[w], ret[w]))
  BY <1>1, <1>2, <1>4, <1>7, LessThere
<1> QED BY <1>3, <1>6, <1>8, OneNearer

\* A frame that begins has everything before it, and is within the limits.
LEMMA SmallBegins ==
  ASSUME ZonesInv, NEW n \in Names
  PROVE  /\ NewFrame(n) \in Frames /\ SmallFrame(NewFrame(n), FALSE)
         /\ 1 + 2 * Left(NewFrame(n)) < Everything
<1> DEFINE f == NewFrame(n)
<1>1. f \in Frames /\ f.tried = {} /\ f.step = 0 /\ f.at = "ask"
  BY NewFrameSound DEF NewFrame
<1> HIDE DEF f
<1>2. SmallFrame(f, FALSE)
  BY <1>1, FS_EmptySet, LimitAssumption DEF SmallFrame
<1>3. Left(f) \in Nat /\ Left(f) <= Visits(0) + VisitWork
  BY <1>1, <1>2, LeftRange
<1>4. 1 + 2 * Left(f) < Everything
  BY <1>3, VisitsLeft
<1> QED BY <1>1, <1>2, <1>4 DEF f

\* The innermost frame goes on as g and waits for the name n.
LEMMA NearerCalls ==
  ASSUME LookupInv, SmallInv, NEW w \in Walkers, stack[w] # <<>>, ret[w] = Nothing,
         NEW g \in Frames, g.name = Top(w).name, NEW n \in Names, g.at = "ns" => n \in g.ns,
         SmallFrame(g, TRUE), Left(g) < Left(Top(w)), Call(w, g, n)
  PROVE  SmallInv' /\ Progress
<1> DEFINE m == Len(stack[w])
<1>1. /\ SoundStack(stack[w]) /\ m \in 1 .. MaxDepth + 1 /\ Top(w) = stack[w][m]
      /\ Left(Top(w)) \in Nat /\ Left(g) \in Nat /\ MaxDepth \in Nat
  BY InnermostIsTop, SmallTop, LeftRange, LimitAssumption DEF LookupInv
<1>2. Todo(stack[w], ret[w])[m] = 1 + 2 * Left(Top(w)) + 0
  BY SmallTop
<1>3. 1 + 2 * Left(g) + 1 < 1 + 2 * Left(Top(w)) + 0
  BY <1>1
<1>4. \A i \in 1 .. m - 1 : SmallFrame(stack[w][i], TRUE)
  <2> SUFFICES ASSUME NEW i \in 1 .. m - 1 PROVE SmallFrame(stack[w][i], TRUE)
    OBVIOUS
  <2>1. i \in 1 .. m /\ (i < m \/ ret[w] # Nothing) = TRUE
    BY <1>1
  <2>2. SmallFrame(stack[w][i], i < m \/ ret[w] # Nothing)
    BY <2>1 DEF SmallInv, SmallStack
  <2> QED BY <2>1, <2>2
<1>5. CASE m > MaxDepth
  <2> DEFINE s == [stack[w] EXCEPT ![m] = g]
             r == [rcode |-> "fail", records |-> {}, name |-> n]
  <2>1. Len(s) = m /\ s[m] = g /\ \A i \in 1 .. m - 1 : s[i] = stack[w][i]
    BY <1>1, StackStays
  <2>2. stack' = [stack EXCEPT ![w] = s] /\ ret' = [ret EXCEPT ![w] = r]
    BY <1>5 DEF Call
  <2>3. r # Nothing
    BY DEF Nothing
  <2> HIDE DEF s, r
  <2>4. ASSUME NEW i \in 1 .. m
        PROVE  SmallFrame(s[i], i < m \/ r # Nothing)
    <3>1. (i < m \/ r # Nothing) = TRUE
      BY <2>3
    <3>2. SmallFrame(s[i], TRUE)
      <4>1. CASE i = m
        BY <4>1, <2>1
      <4>2. CASE i # m
        <5>1. i \in 1 .. m - 1
          BY <4>2, <1>1
        <5>2. s[i] = stack[w][i] /\ SmallFrame(stack[w][i], TRUE)
          BY <5>1, <1>4, <2>1
        <5> QED BY <5>2
      <4> QED BY <4>1, <4>2
    <3> QED BY <3>1, <3>2
  <2>5. SmallStack(s, r)
    BY <2>1, <2>4 DEF SmallStack
  <2>6. Todo(s, r)[m] = 1 + 2 * Left(g) + 1
    BY <1>1, <2>1, <2>3, TodoLevels
  <2>7. Todo(s, r)[m] < Todo(stack[w], ret[w])[m]
    BY <1>2, <1>3, <2>6
  <2>8. Less(Todo(s, r), Todo(stack[w], ret[w]))
    BY <1>1, <2>1, <2>7, LessThere
  <2> QED BY <2>2, <2>5, <2>8, OneNearer
<1>6. CASE m <= MaxDepth
  <2> DEFINE h == NewFrame(n)
             s == Append([stack[w] EXCEPT ![m] = g], h)
  <2>1. h \in Frames /\ SmallFrame(h, FALSE)
    BY SmallBegins DEF LookupInv
  <2>2. stack' = [stack EXCEPT ![w] = s] /\ ret' = [ret EXCEPT ![w] = Nothing]
    BY <1>1, <1>6 DEF Call, LookupInv, WalksInv
  <2>3. h.name = n
    BY NewFrameSound DEF LookupInv
  <2> HIDE DEF h
  <2>4. /\ Len(s) = m + 1 /\ s[m] = g
        /\ \A i \in 1 .. m - 1 : s[i] = stack[w][i]
    BY <1>1, <1>6, <2>1, <2>3, StackGrows
  <2>5. s[m + 1] = h
    <3>1. [stack[w] EXCEPT ![m] = g] \in Seq(Frames) /\ Len([stack[w] EXCEPT ![m] = g]) = m
      BY <1>1 DEF SoundStack
    <3> QED BY <3>1, <1>1
  <2> HIDE DEF s
  <2>6. ASSUME NEW i \in 1 .. m + 1
        PROVE  SmallFrame(s[i], i < m + 1 \/ Nothing # Nothing)
    <3>1. CASE i = m + 1
      <4>1. (i < m + 1 \/ Nothing # Nothing) = FALSE
        BY <3>1, <1>1
      <4> QED BY <3>1, <4>1, <2>1, <2>5
    <3>2. CASE i # m + 1
      <4>1. i \in 1 .. m /\ (i < m + 1 \/ Nothing # Nothing) = TRUE
        BY <3>2, <1>1
      <4>2. SmallFrame(s[i], TRUE)
        <5>1. CASE i = m
          BY <5>1, <2>4
        <5>2. CASE i # m
          <6>1. i \in 1 .. m - 1
            BY <5>2, <4>1, <1>1
          <6>2. s[i] = stack[w][i] /\ SmallFrame(stack[w][i], TRUE)
            BY <6>1, <1>4, <2>4
          <6> QED BY <6>2
        <5> QED BY <5>1, <5>2
      <4> QED BY <4>1, <4>2
    <3> QED BY <3>1, <3>2
  <2>7. SmallStack(s, Nothing)
    BY <2>4, <2>6 DEF SmallStack
  <2>8. Todo(s, Nothing)[m] = 1 + 2 * Left(g) + 1
    <3>1. m \in 1 .. MaxDepth + 1 /\ m < Len(s) /\ Len(s) \in Nat
      BY <1>1, <2>4
    <3> QED BY <2>4, <3>1, TodoLevels
  <2>9. Todo(s, Nothing)[m] < Todo(stack[w], ret[w])[m]
    BY <1>2, <1>3, <2>8
  <2>10. Less(Todo(s, Nothing), Todo(stack[w], ret[w]))
    <3>1. Len(s) \in Nat /\ Len(s) >= m - 1 /\ Len(s) # m - 1
      BY <1>1, <2>4
    <3>2. \A i \in 1 .. m - 1 : Left(s[i]) = Left(stack[w][i])
      BY <2>4
    <3> QED BY <1>1, <2>9, <3>1, <3>2, LessThere
  <2> QED BY <2>2, <2>7, <2>10, OneNearer
<1> QED BY <1>1, <1>5, <1>6

\* The next visit.
LEMMA NearerVisits ==
  ASSUME LookupInv, SmallInv, NEW w \in Walkers, stack[w] # <<>>, ret[w] = Nothing,
         NEW f \in Frames, f.name = Top(w).name, f.step = Top(w).step, Top(w).at # "alias",
         NEW zone \in Names, NEW servers \in SUBSET Addresses,
         IsSubdomain(f.name, zone), Known(zone), OwnServers(zone, servers),
         Visit(w, f, zone, servers)
  PROVE  SmallInv' /\ Progress
<1> DEFINE g == Visiting(f, zone, servers)
<1>1. g \in Frames /\ g.name = f.name /\ g.at = "ask" /\ g.tried = {} /\ g.step = f.step + 1
  BY VisitingSound
<1>2. f.step \in Nat
  BY FrameFields
<1>3. IF f.step + 1 < MaxSteps THEN Stay(w, g) ELSE Return(w, Failed)
  BY DEF Visit, Visiting
<1> HIDE DEF g
<1>4. CASE f.step + 1 < MaxSteps /\ Stay(w, g)
  <2>1. SmallFrame(g, FALSE)
    BY <1>1, <1>2, <1>4, FS_EmptySet, LimitAssumption DEF SmallFrame
  <2>2. Left(g) = Visits(f.step + 1) + 2 + MaxNS + 2 * MaxTries
    <3>1. Cardinality(g.tried) = 0
      BY <1>1, FS_EmptySet
    <3>2. Left(g) = Visits(g.step) + 2 + MaxNS + 2 * (MaxTries - 0)
      BY <1>1, <2>1, <3>1, LeftOf
    <3> QED BY <1>1, <3>2, VisitsLeft
  <2>3. Left(Top(w)) > Visits(f.step) /\ Left(Top(w)) \in Nat /\ Visits(f.step) \in Nat
    BY SmallTop, LeftRange
  <2>4. Visits(f.step) = Visits(f.step + 1) + VisitWork /\ Visits(f.step + 1) \in Nat
    <3>1. f.step \in 0 .. MaxSteps /\ f.step + 1 \in 0 .. MaxSteps /\ f.step < MaxSteps
      BY <1>2, <1>4, LimitAssumption
    <3> QED BY <3>1, VisitsLeft
  <2>5. Left(g) < Left(Top(w))
    <3>1. VisitWork = MaxNS + 2 * MaxTries + 2 /\ MaxNS \in Nat /\ MaxTries \in Nat
      BY VisitsLeft
    <3> QED BY <2>2, <2>3, <2>4, <3>1
  <2> QED BY <1>1, <1>4, <2>1, <2>5, NearerStays
<1>5. CASE Return(w, Failed)
  BY <1>5, NearerReturns DEF Failed
<1> QED BY <1>3, <1>4, <1>5

\* The frame that has asked a server has less left.
LEMMA PastLess ==
  ASSUME LookupInv, SmallInv, NEW w \in Walkers, NEW a, NEW proto, Asks(w, a, proto)
  PROVE  /\ SmallFrame(Past(w, a), FALSE) /\ Left(Past(w, a)) < Left(Top(w))
         /\ Past(w, a).step = Top(w).step /\ Top(w).at # "alias"
<1> DEFINE f == Top(w)
           g == Past(w, a)
           n == Cardinality(f.tried)
<1>1. /\ stack[w] # <<>> /\ ret[w] = Nothing /\ f \in Frames /\ f.at \in {"ask", "tcp"}
      /\ g \in Frames /\ g.at = "ask" /\ g.tried = f.tried \cup {a} /\ g.step = f.step
  <2>1. /\ stack[w] # <<>> /\ ret[w] = Nothing /\ f \in Frames /\ f.at \in {"ask", "tcp"}
        /\ g \in Frames
    BY Asked DEF LookupInv
  <2>2. g.at = "ask" /\ g.tried = f.tried \cup {a} /\ g.step = f.step
    BY PastFields
  <2> QED BY <2>1, <2>2
<1>2. SmallFrame(f, FALSE)
  <2>1. (ret[w] # Nothing) = FALSE
    BY <1>1
  <2> QED BY <1>1, <2>1, SmallTop
<1>3. IsFiniteSet(f.tried) /\ n \in Nat /\ n <= MaxTries /\ f.step <= MaxSteps
  BY <1>1, <1>2, FS_CardinalityType DEF SmallFrame
<1>4. /\ f.at = "ask" => Left(f) = Visits(f.step) + 2 + MaxNS + 2 * (MaxTries - n)
      /\ f.at = "tcp" => Left(f) = Visits(f.step) + 3 + MaxNS + 2 * (MaxTries - n)
      /\ Visits(f.step) \in Nat
  BY <1>2, <1>1, LeftOf
<1>5. /\ f.at = "ask" => a \notin f.tried /\ n < MaxTries
      /\ f.at = "tcp" => a \in f.tried
  BY <1>2 DEF Asks, At, Untried, SmallFrame
<1>6. /\ IsFiniteSet(g.tried)
      /\ f.at = "ask" => Cardinality(g.tried) = n + 1
      /\ f.at = "tcp" => Cardinality(g.tried) = n
  <2>1. IsFiniteSet(f.tried \cup {a}) /\ (a \notin f.tried => Cardinality(f.tried \cup {a}) = n + 1)
    BY <1>3, FS_AddElement
  <2>2. a \in f.tried => f.tried \cup {a} = f.tried
    OBVIOUS
  <2> QED BY <1>1, <1>5, <2>1, <2>2
<1> HIDE DEF n
<1>7. /\ MaxNS \in Nat /\ MaxTries \in Nat
  BY VisitsLeft
<1>8. Cardinality(g.tried) <= MaxTries
  BY <1>1, <1>3, <1>5, <1>6, <1>7
<1>9. SmallFrame(g, FALSE)
  BY <1>1, <1>3, <1>6, <1>8 DEF SmallFrame
<1>10. Left(g) = Visits(f.step) + 2 + MaxNS + 2 * (MaxTries - Cardinality(g.tried))
  BY <1>1, <1>9, LeftOf
<1> HIDE DEF f, g
<1>11. Left(g) < Left(f)
  <2>1. CASE f.at = "ask"
    BY <2>1, <1>3, <1>4, <1>6, <1>7, <1>10
  <2>2. CASE f.at = "tcp"
    BY <2>2, <1>3, <1>4, <1>6, <1>7, <1>10
  <2> QED BY <1>1, <2>1, <2>2
<1> QED BY <1>1, <1>9, <1>11 DEF f, g

LEMMA NearerTimeout ==
  ASSUME LookupInv, SmallInv, NEW w \in Walkers, Timeout(w)
  PROVE  SmallInv' /\ Progress
<1>1. PICK a \in Addresses, proto \in {"udp", "tcp"} : Asks(w, a, proto) /\ Stay(w, Past(w, a))
  BY DEF Timeout
<1>2. /\ stack[w] # <<>> /\ ret[w] = Nothing /\ Past(w, a) \in Frames
      /\ Past(w, a).name = Top(w).name
  BY <1>1, Asked DEF LookupInv
<1> QED BY <1>1, <1>2, PastLess, NearerStays

LEMMA NearerTruncated ==
  ASSUME LookupInv, SmallInv, NEW w \in Walkers, Truncated(w)
  PROVE  SmallInv' /\ Progress
<1>1. PICK a \in inUse :
        /\ Asks(w, a, "udp")
        /\ Stay(w, [Top(w) EXCEPT !.tried = @ \cup {a}, !.at = "tcp", !.ip = a])
  BY DEF Truncated
<1> DEFINE f == Top(w)
           g == [f EXCEPT !.tried = @ \cup {a}, !.at = "tcp", !.ip = a]
           n == Cardinality(f.tried)
<1>2. /\ stack[w] # <<>> /\ ret[w] = Nothing /\ f \in Frames /\ a \in Addresses
      /\ a \in f.servers /\ f.at = "ask" /\ a \notin f.tried /\ n < MaxTries
  BY <1>1, Asked DEF LookupInv, Asks, At, Untried
<1>3. Stay(w, g) /\ Top(w) = f
  BY <1>1
<1>4. SmallFrame(f, FALSE)
  <2>1. (ret[w] # Nothing) = FALSE
    BY <1>2
  <2> QED BY <1>2, <2>1, SmallTop
<1> HIDE DEF f
<1>5. f \in Frame /\ SoundFrame(f)
  BY <1>2, FrameFields
<1>6. g \in Frame
  BY <1>2, <1>5 DEF Frame
<1>7. /\ g.name = f.name /\ g.zone = f.zone /\ g.servers = f.servers /\ g.at = "tcp" /\ g.ip = a
      /\ g.chain = f.chain /\ g.addrs = f.addrs /\ g.tried = f.tried \cup {a} /\ g.step = f.step
  BY <1>5 DEF Frame
<1> HIDE DEF g
<1>8. g \in Frames
  BY <1>2, <1>5, <1>6, <1>7 DEF Frames, SoundFrame
<1>9. /\ IsFiniteSet(g.tried) /\ Cardinality(g.tried) = n + 1 /\ n \in Nat /\ f.step <= MaxSteps
  BY <1>2, <1>4, <1>7, FS_AddElement, FS_CardinalityType DEF SmallFrame
<1>10. /\ Left(f) = Visits(f.step) + 2 + MaxNS + 2 * (MaxTries - n)
       /\ Visits(f.step) \in Nat
  BY <1>2, <1>4, LeftOf
<1> HIDE DEF n
<1>11. MaxNS \in Nat /\ MaxTries \in Nat
  BY VisitsLeft
<1>12. SmallFrame(g, FALSE)
  BY <1>2, <1>7, <1>9, <1>11 DEF SmallFrame
<1>13. Left(g) = Visits(f.step) + 3 + MaxNS + 2 * (MaxTries - (n + 1))
  BY <1>7, <1>8, <1>9, <1>12, LeftOf
<1>14. Left(g) < Left(f)
  BY <1>9, <1>10, <1>11, <1>13
<1> QED BY <1>2, <1>3, <1>7, <1>8, <1>12, <1>14, NearerStays

LEMMA NearerConcludes ==
  ASSUME LookupInv, SmallInv, NEW w \in Walkers, stack[w] # <<>>, ret[w] = Nothing,
         NEW f \in Frames, f.name = Top(w).name, SmallFrame(f, FALSE), Left(f) < Left(Top(w)),
         NEW rcode, NEW records \in SUBSET Records, TrueRecords(records),
         Conclude(w, f, rcode, records)
  PROVE  SmallInv' /\ Progress
<1> DEFINE c == FollowChain(f.name, records)
           g == [f EXCEPT !.at = "alias", !.chain = c.chain, !.servers = {}, !.tried = {}, !.step = 0]
<1>1. f \in Frame /\ SoundFrame(f) /\ f.name \in Names
  BY FrameFields
<1>2. Along(c, f.name, records)
  BY <1>1, ChainFollowed
<1>3. \/ Return(w, Ok(c.chain)) \/ Return(w, [rcode |-> "nx", records |-> c.chain])
      \/ Return(w, Ok({}))
      \/ c.target # f.name /\ Call(w, g, c.target)
  BY DEF Conclude
<1> HIDE DEF c
<1>4. c.chain \in SUBSET Records /\ c.target \in Names /\ TrueRecords(c.chain)
  BY <1>2 DEF Along, Walk, TrueRecords
<1>5. CASE c.target # f.name /\ Call(w, g, c.target)
  <2>1. g \in Frame
    BY <1>1, <1>4 DEF Frame
  <2>2. /\ g.name = f.name /\ g.zone = f.zone /\ g.servers = {} /\ g.at = "alias"
        /\ g.chain = c.chain /\ g.tried = {} /\ g.step = 0
    BY <1>1 DEF Frame
  <2>3. Call(w, g, c.target)
    BY <1>5
  <2> HIDE DEF g
  <2>4. g \in Frames
    <3>1. SoundFrame(g)
      BY <1>1, <1>2, <1>4, <1>5, <2>2 DEF SoundFrame, Along, OwnServers
    <3> QED BY <2>1, <3>1 DEF Frames
  <2>5. SmallFrame(g, TRUE)
    BY <2>2, FS_EmptySet, LimitAssumption DEF SmallFrame
  <2>6. Left(g) < Left(Top(w))
    <3>1. Left(g) = 0
      BY <2>2 DEF Left
    <3>2. Left(f) \in Nat /\ Left(Top(w)) \in Nat
      BY SmallTop, LeftRange
    <3> QED BY <3>1, <3>2
  <2> QED BY <1>4, <2>2, <2>3, <2>4, <2>5, <2>6, NearerCalls
<1>6. CASE \/ Return(w, Ok(c.chain)) \/ Return(w, [rcode |-> "nx", records |-> c.chain])
           \/ Return(w, Ok({}))
  <2>1. \A ans : ans.rcode # "none" /\ Return(w, ans) => SmallInv' /\ Progress
    BY NearerReturns
  <2>2. Ok(c.chain).rcode # "none" /\ Ok({}).rcode # "none"
    BY DEF Ok
  <2>3. [rcode |-> "nx", records |-> c.chain].rcode # "none"
    OBVIOUS
  <2> QED BY <1>6, <2>1, <2>2, <2>3
<1> QED BY <1>3, <1>5, <1>6

LEMMA NearerReceive ==
  ASSUME LookupInv, SmallInv, NEW w \in Walkers, Receive(w)
  PROVE  SmallInv' /\ Progress
<1>1. PICK a \in Addresses, proto \in {"udp", "tcp"} :
        Asks(w, a, proto) /\ \E m \in Replies(a, Top(w).name, proto) : Handle(w, a, m)
  BY DEF Receive
<1>2. PICK m \in Replies(a, Top(w).name, proto) : Handle(w, a, m)
  BY <1>1
<1> DEFINE f == Past(w, a)
<1>3. /\ stack[w] # <<>> /\ ret[w] = Nothing /\ f \in Frames /\ f.addrs = {}
      /\ f.name = Top(w).name /\ f.zone = Top(w).zone
  BY <1>1, Asked DEF LookupInv
<1>4. /\ SmallFrame(f, FALSE) /\ Left(f) < Left(Top(w)) /\ f.step = Top(w).step
      /\ Top(w).at # "alias" /\ f.at = "ask"
  BY <1>1, PastLess, PastFields
<1>5. CASE Stay(w, f)
  BY <1>3, <1>4, <1>5, NearerStays
<1>6. CASE /\ Classify(m, f.zone, f.name) \in {"answer", "nx", "nodata"}
           /\ Conclude(w, f, m.rcode, InZone(m.answers, f.zone))
  <2> DEFINE records == InZone(m.answers, f.zone)
  <2>1. records \in SUBSET Records /\ TrueRecords(records)
    BY <1>1, <1>6, Answered
  <2>2. Conclude(w, f, m.rcode, records)
    BY <1>6
  <2> HIDE DEF records, f
  <2> QED BY <1>3, <1>4, <2>1, <2>2, NearerConcludes
<1>7. ASSUME Classify(m, f.zone, f.name) = "referral", NEW cut \in Cuts(m, f.zone, f.name),
             Stay(w, Seeking(f, cut, Targets(m, cut)))
      PROVE  SmallInv' /\ Progress
  <2> DEFINE g == Seeking(f, cut, Targets(m, cut))
  <2>1. /\ cut \in Names /\ cut # f.zone /\ IsSubdomain(cut, f.zone) /\ IsSubdomain(f.name, cut)
        /\ Targets(m, cut) \in SUBSET Names /\ Known(cut)
        /\ cut \in Honest => Targets(m, cut) \subseteq NSNames[cut]
    BY <1>1, <1>7, Referred
  <2> HIDE DEF f
  <2>2. /\ g \in Frames /\ g.name = f.name /\ g.at = "ns" /\ g.tried = {} /\ g.step = f.step
    BY <1>3, <2>1, SeekingSound
  <2>3. Stay(w, g)
    BY <1>7
  <2> HIDE DEF g
  <2>4. Cardinality(g.tried) = 0 /\ IsFiniteSet(g.tried) /\ MaxNS \in Nat /\ MaxTries \in Nat
    BY <2>2, FS_EmptySet, VisitsLeft
  <2>5. SmallFrame(g, FALSE)
    BY <1>4, <2>2, <2>4 DEF SmallFrame
  <2>6. Left(g) = Visits(f.step) + 1 + (MaxNS - 0)
    BY <2>2, <2>4, <2>5, LeftOf
  <2>7. /\ Visits(f.step) \in Nat /\ Cardinality(f.tried) \in Nat /\ Cardinality(f.tried) <= MaxTries
        /\ Left(f) = Visits(f.step) + 2 + MaxNS + 2 * (MaxTries - Cardinality(f.tried))
    BY <1>3, <1>4, LeftOf
  <2>8. Left(Top(w)) \in Nat
    BY <1>3, SmallTop
  <2>9. Left(g) < Left(Top(w))
    BY <1>4, <2>4, <2>6, <2>7, <2>8
  <2> QED BY <1>3, <2>2, <2>3, <2>5, <2>9, NearerStays
<1>8. ASSUME Classify(m, f.zone, f.name) = "referral", NEW cut \in Cuts(m, f.zone, f.name),
             NEW addrs, addrs = GlueAddrs(m, Targets(m, cut), f.zone),
             Visit(w, f, cut, addrs)
      PROVE  SmallInv' /\ Progress
  <2>1. /\ cut \in Names /\ IsSubdomain(f.name, cut)
        /\ addrs \in SUBSET Addresses /\ Known(cut) /\ OwnServers(cut, addrs)
    BY <1>1, <1>8, Referred
  <2> HIDE DEF f
  <2> QED BY <1>3, <1>4, <1>8, <2>1, NearerVisits
<1> QED BY <1>2, <1>5, <1>6, <1>7, <1>8, HandleCases

LEMMA NearerGiveUp ==
  ASSUME LookupInv, SmallInv, NEW w \in Walkers, GiveUp(w)
  PROVE  SmallInv' /\ Progress
<1> DEFINE f == Top(w)
           g == [f EXCEPT !.restarted = TRUE]
<1>1. stack[w] # <<>> /\ ret[w] = Nothing /\ f.at = "ask"
  BY DEF GiveUp, At
<1>2. f \in Frames
  BY <1>1, InnermostIsTop DEF LookupInv
<1>3. Visit(w, g, Root, Roots) \/ Return(w, Failed)
  BY DEF GiveUp
<1>4. Top(w) = f
  OBVIOUS
<1> HIDE DEF f
<1>5. f \in Frame /\ SoundFrame(f) /\ f.name \in Names
  BY <1>2, FrameFields
<1>6. CASE Visit(w, g, Root, Roots)
  <2>1. g \in Frame
    BY <1>5 DEF Frame
  <2>2. /\ g.name = f.name /\ g.zone = f.zone /\ g.servers = f.servers /\ g.at = "ask"
        /\ g.chain = f.chain /\ g.addrs = f.addrs /\ g.step = f.step
    BY <1>1, <1>5 DEF Frame
  <2> HIDE DEF g
  <2>3. g \in Frames
    BY <1>1, <1>5, <2>1, <2>2 DEF Frames, SoundFrame
  <2>4. Root \in Names /\ IsSubdomain(g.name, Root) /\ Known(Root)
    BY <1>5, <2>2, RootIsAbove, WorldAssumption DEF Known
  <2>5. Roots \in SUBSET Addresses /\ OwnServers(Root, Roots)
    BY DEF Roots, OwnServers
  <2> QED BY <1>1, <1>4, <1>6, <2>2, <2>3, <2>4, <2>5, NearerVisits
<1>7. CASE Return(w, Failed)
  BY <1>1, <1>7, NearerReturns DEF Failed
<1> QED BY <1>3, <1>6, <1>7

LEMMA NearerResolveNS ==
  ASSUME LookupInv, SmallInv, NEW w \in Walkers, ResolveNS(w)
  PROVE  SmallInv' /\ Progress
<1> DEFINE f == Top(w)
           t == Cardinality(f.tried)
<1>1. stack[w] # <<>> /\ ret[w] = Nothing /\ f.at = "ns"
  BY DEF ResolveNS, At
<1>2. f \in Frames
  BY <1>1, InnermostIsTop DEF LookupInv
<1>3. PICK n \in Unresolved(f) : Call(w, [f EXCEPT !.tried = @ \cup {n}], n)
  BY DEF ResolveNS
<1>4. Top(w) = f
  OBVIOUS
<1>5. SmallFrame(f, FALSE)
  <2>1. (ret[w] # Nothing) = FALSE
    BY <1>1
  <2> QED BY <1>1, <2>1, SmallTop
<1> HIDE DEF f
<1>6. f \in Frame /\ SoundFrame(f)
  BY <1>2, FrameFields
<1>7. n \in f.ns /\ n \in Names /\ n \notin f.tried /\ t < MaxNS
  BY <1>2, FrameFields DEF Unresolved
<1> DEFINE g == [f EXCEPT !.tried = @ \cup {n}]
<1>8. g \in Frame
  BY <1>6, <1>7 DEF Frame
<1>9. /\ g.name = f.name /\ g.zone = f.zone /\ g.servers = f.servers /\ g.at = "ns"
      /\ g.ip = f.ip /\ g.cut = f.cut /\ g.ns = f.ns /\ g.addrs = f.addrs /\ g.chain = f.chain
      /\ g.step = f.step /\ g.tried = f.tried \cup {n}
  BY <1>1, <1>4, <1>6 DEF Frame
<1>10. Call(w, g, n)
  BY <1>3
<1> HIDE DEF g
<1>11. g \in Frames
  BY <1>1, <1>4, <1>6, <1>8, <1>9 DEF Frames, SoundFrame
<1>12. /\ IsFiniteSet(g.tried) /\ Cardinality(g.tried) = t + 1 /\ t \in Nat /\ f.step <= MaxSteps
       /\ MaxNS \in Nat
  <2>1. IsFiniteSet(f.tried) /\ f.step <= MaxSteps
    BY <1>5 DEF SmallFrame
  <2>2. Cardinality(f.tried) \in Nat
    BY <2>1, FS_CardinalityType
  <2>3. IsFiniteSet(f.tried \cup {n}) /\ Cardinality(f.tried \cup {n}) = Cardinality(f.tried) + 1
    BY <1>7, <2>1, FS_AddElement
  <2>4. MaxNS \in Nat
    BY <2>1, <1>6, VisitsLeft DEF Frame
  <2> QED BY <1>9, <2>1, <2>2, <2>3, <2>4
<1>13. Left(f) = Visits(f.step) + 1 + (MaxNS - t) /\ Visits(f.step) \in Nat
  BY <1>1, <1>2, <1>4, <1>5, LeftOf
<1> HIDE DEF t
<1>14. SmallFrame(g, TRUE)
  BY <1>7, <1>9, <1>12 DEF SmallFrame
<1>15. Left(g) = Visits(f.step) + 1 + (MaxNS - (t + 1))
  BY <1>9, <1>11, <1>12, <1>14, LeftOf
<1>16. Left(g) < Left(f)
  BY <1>12, <1>13, <1>15
<1> QED BY <1>1, <1>4, <1>7, <1>9, <1>10, <1>11, <1>14, <1>16, NearerCalls

LEMMA NearerEnterZone ==
  ASSUME LookupInv, SmallInv, NEW w \in Walkers, EnterZone(w)
  PROVE  SmallInv' /\ Progress
<1> DEFINE f == Top(w)
<1>1. stack[w] # <<>> /\ ret[w] = Nothing /\ f.at = "ns"
  BY DEF EnterZone, At
<1>2. f \in Frames
  BY <1>1, InnermostIsTop DEF LookupInv
<1>3. Return(w, Failed) \/ Visit(w, f, f.cut, f.addrs)
  BY DEF EnterZone
<1>4. Top(w) = f
  OBVIOUS
<1> HIDE DEF f
<1>5. /\ f.cut \in Names /\ f.addrs \in SUBSET Addresses
      /\ IsSubdomain(f.name, f.cut) /\ Known(f.cut) /\ OwnServers(f.cut, f.addrs)
  BY <1>1, <1>2, <1>4, FrameFields DEF SoundFrame
<1>6. CASE Return(w, Failed)
  BY <1>1, <1>6, NearerReturns DEF Failed
<1>7. CASE Visit(w, f, f.cut, f.addrs)
  BY <1>1, <1>2, <1>4, <1>5, <1>7, NearerVisits
<1> QED BY <1>3, <1>6, <1>7

LEMMA NearerResume ==
  ASSUME LookupInv, SmallInv, NEW w \in Walkers, Resume(w)
  PROVE  SmallInv' /\ Progress
<1> DEFINE f == Top(w)
           s == stack[w]
           r == ret[w]
           new == {d.data : d \in {e \in r.records : e.data \in Addresses}}
           g == [f EXCEPT !.addrs = @ \cup new]
<1>1. s # <<>> /\ r # Nothing
  BY DEF Resume
<1>2. /\ f \in Frames /\ f = s[Len(s)] /\ SoundStack(s) /\ Len(s) \in Nat \ {0}
      /\ SoundAnswer(r) /\ Fits(s, r)
  BY <1>1, InnermostIsTop DEF LookupInv, WalksInv
<1>3. \/ /\ f.at = "ns"
         /\ stack' = [stack EXCEPT ![w][Len(stack[w])].addrs = @ \cup new]
         /\ ret' = [ret EXCEPT ![w] = Nothing]
      \/ Return(w, IF r.rcode = "fail" THEN Failed
                   ELSE [rcode |-> r.rcode, records |-> f.chain \cup r.records])
  BY DEF Resume
<1>4. SmallFrame(f, TRUE)
  <2>1. (r # Nothing) = TRUE
    BY <1>1
  <2> QED BY <1>1, <2>1, SmallTop
<1>5. CASE /\ f.at = "ns"
           /\ stack' = [stack EXCEPT ![w][Len(stack[w])].addrs = @ \cup new]
           /\ ret' = [ret EXCEPT ![w] = Nothing]
  <2>1. stack' = [stack EXCEPT ![w] = [s EXCEPT ![Len(s)] = g]]
    BY <1>2, <1>5
  <2>2. new \in SUBSET Addresses /\ OwnServers(f.cut, new)
    BY <1>1, <1>2, <1>5, AddressesSound DEF Fits
  <2>3. Top(w) = f /\ stack[w] = s /\ ret[w] = r
    OBVIOUS
  <2> HIDE DEF new, f, s, r
  <2>4. f \in Frame /\ SoundFrame(f) /\ f.addrs \in SUBSET Addresses
    BY <1>2, FrameFields
  <2>5. g \in Frame
    BY <2>2, <2>4 DEF Frame
  <2>6. /\ g.name = f.name /\ g.zone = f.zone /\ g.servers = f.servers /\ g.at = "ns"
        /\ g.cut = f.cut /\ g.ns = f.ns /\ g.addrs = f.addrs \cup new /\ g.chain = f.chain
        /\ g.step = f.step /\ g.tried = f.tried
    BY <1>5, <2>4 DEF Frame
  <2> HIDE DEF g
  <2>7. g \in Frames
    BY <1>5, <2>2, <2>4, <2>5, <2>6 DEF Frames, SoundFrame, OwnServers
  <2>8. SmallFrame(g, FALSE)
    BY <1>4, <1>5, <2>6 DEF SmallFrame
  <2>9. Left(g) = Left(f)
    BY <1>5, <2>6 DEF Left
  <2> QED BY <1>1, <1>5, <2>1, <2>3, <2>6, <2>7, <2>8, <2>9, NearerGoesOn
<1>6. CASE Return(w, IF r.rcode = "fail" THEN Failed
                     ELSE [rcode |-> r.rcode, records |-> f.chain \cup r.records])
  <2> DEFINE ans == IF r.rcode = "fail" THEN Failed
                    ELSE [rcode |-> r.rcode, records |-> f.chain \cup r.records]
  <2>1. r \in Returning
    BY <1>1, <1>2 DEF SoundAnswer
  <2>2. Return(w, ans)
    BY <1>6
  <2> HIDE DEF f, r
  <2>3. ans.rcode # "none"
    BY <2>1 DEF Returning, Failed
  <2> HIDE DEF ans
  <2> QED BY <1>1, <2>2, <2>3, NearerReturns DEF s
<1> QED BY <1>3, <1>5, <1>6

LEMMA NearerBegin ==
  ASSUME LookupInv, SmallInv, NEW w \in Walkers, NEW n \in Questions[w], Begin(w, n)
  PROVE  SmallInv' /\ Progress
<1> DEFINE h == NewFrame(n)
           s == <<h>>
<1>1. n \in Names
  BY WorldAssumption
<1>2. /\ stack[w] = <<>> /\ ret[w] = Nothing
      /\ stack' = [stack EXCEPT ![w] = s] /\ ret' = [ret EXCEPT ![w] = Nothing]
  BY DEF Begin, LookupInv, WalksInv
<1>3. SmallFrame(h, FALSE) /\ 1 + 2 * Left(h) < Everything /\ h \in Frames
  BY <1>1, SmallBegins DEF LookupInv
<1>4. Left(h) \in Nat
  BY <1>3, LeftRange
<1> HIDE DEF h
<1>5. Len(s) = 1 /\ s[1] = h
  OBVIOUS
<1> HIDE DEF s
<1>6. SmallStack(s, Nothing)
  <2>1. \A i \in 1 .. 1 : i = 1 /\ (i < 1 \/ Nothing # Nothing) = FALSE
    OBVIOUS
  <2> QED BY <1>3, <1>5, <2>1 DEF SmallStack
<1>7. Less(Todo(s, Nothing), Todo(stack[w], ret[w]))
  <2>1. 1 \in 1 .. MaxDepth + 1
    BY LimitAssumption
  <2>2. Todo(s, Nothing)[1] = 1 + 2 * Left(h) + 0
    BY <1>5, <2>1 DEF Todo
  <2>3. Todo(stack[w], ret[w])[1] = Everything
    BY <1>2, <2>1 DEF Todo
  <2>4. Todo(s, Nothing)[1] < Todo(stack[w], ret[w])[1]
    BY <1>3, <1>4, <2>2, <2>3
  <2>5. 1 \in DOMAIN Todo(s, Nothing)
    BY <2>1 DEF Todo
  <2> QED BY <2>4, <2>5 DEF Less
<1> QED BY <1>2, <1>6, <1>7, OneNearer

LEMMA SmallKept ==
  ASSUME SmallInv, UNCHANGED <<stack, ret>>
  PROVE  SmallInv' /\ Progress
BY DEF SmallInv, SmallStack, Progress

LEMMA NearerSteps ==
  ASSUME LookupInv, SmallInv, [Next]_vars
  PROVE  SmallInv' /\ Progress
<1>1. CASE UNCHANGED vars
  BY <1>1, SmallKept DEF vars
<1>2. ASSUME NEW w \in Walkers, Alone(w)
      PROVE  SmallInv' /\ Progress
  BY <1>2, NearerTimeout, NearerGiveUp, NearerResolveNS, NearerEnterZone, NearerResume DEF Alone
<1>3. ASSUME NEW z \in Names, Expire(z)
      PROVE  SmallInv' /\ Progress
  BY <1>3, SmallKept DEF Expire
<1>4. CASE FlushZones
  BY <1>4, SmallKept DEF FlushZones
<1>5. ASSUME NEW old \in Addresses, NEW new \in Addresses, Renumber(old, new)
      PROVE  SmallInv' /\ Progress
  BY <1>5, SmallKept DEF Renumber
<1> QED BY <1>1, <1>2, <1>3, <1>4, <1>5, NearerBegin, NearerTruncated, NearerReceive DEF Next

\* Whatever the servers reply, every step of a walk leaves less to do, of what
\* is bounded by the limits alone: a question takes a bounded number of steps.
THEOREM StepsLeaveLess == Spec => Closer
<1>1. Init => SmallInv
  BY DEF Init, SmallInv, SmallStack
<1>2. LookupInv /\ SmallInv /\ [Next]_vars => SmallInv'
  BY NearerSteps
<1>3. ASSUME LookupInv, SmallInv, LookupInv', [Next]_vars
      PROVE  \A w \in Walkers :
               /\ Todo(stack[w], ret[w])' \in [1 .. MaxDepth + 1 -> 0 .. Everything]
               /\ <<stack[w], ret[w]>>' # <<stack[w], ret[w]>>
                    => Less(Todo(stack[w], ret[w])', Todo(stack[w], ret[w]))
  <2>1. SmallInv' /\ Progress
    BY <1>3, NearerSteps
  <2> SUFFICES ASSUME NEW w \in Walkers
               PROVE  /\ Todo(stack'[w], ret'[w]) \in [1 .. MaxDepth + 1 -> 0 .. Everything]
                      /\ stack'[w] # stack[w] \/ ret'[w] # ret[w]
                           => Less(Todo(stack'[w], ret'[w]), Todo(stack[w], ret[w]))
    BY DEF Todo, Left
  <2>2. SmallStack(stack'[w], ret'[w])
    BY <2>1 DEF SmallInv, SmallStack
  <2>3. SoundStack(stack'[w])
    BY <1>3 DEF LookupInv, WalksInv, SoundStack
  <2> QED BY <2>1, <2>2, <2>3, TodoRange DEF Progress
<1>4. LookupInv /\ LookupInv' /\ SmallInv /\ [Next]_vars =>
        [\A w \in Walkers :
           /\ Todo(stack[w], ret[w])' \in [1 .. MaxDepth + 1 -> 0 .. Everything]
           /\ <<stack[w], ret[w]>>' # <<stack[w], ret[w]>>
                => Less(Todo(stack[w], ret[w])', Todo(stack[w], ret[w]))]_vars
  BY <1>3
<1> QED BY <1>1, <1>2, <1>4, Invariant, PTL DEF Spec, Closer
=============================================================================
