------------------------------- MODULE Lookup -------------------------------
(***************************************************************************)
(* The zone walk of resolver.go: lookup and what it calls (queryZone,      *)
(* queryServer, classify, referral, glueAddrs, resolveNSAddrs), the        *)
(* recursion of resolveUncached through aliases, and the zone cache of     *)
(* cache.go that concurrent walks share.  The answer cache is DNSCache's.  *)
(*                                                                         *)
(* Names are sequences of labels (DomainName).  All questions are for      *)
(* addresses.                                                              *)
(*                                                                         *)
(* The world outside is the namespace: which zones there are, who serves   *)
(* them, what a name's zone says of it.  Servers answer truthfully, except *)
(* those of the zones in Liars, which may send any message of Lies; any    *)
(* server may be silent, and a device on the way may answer in its place.  *)
(***************************************************************************)
EXTENDS DomainName, FiniteSets

CONSTANTS
  Walkers,      \* the goroutines that resolve, each one question
  Questions,    \* the names each may be asked for
  Names,        \* all the names there are in questions, zones and messages
  Addresses,    \* the IP addresses
  NoName, NoData,
  Zones,        \* the zones of the namespace
  Serves,       \* the zone that the server at an address serves
  NSNames,      \* the names of a zone's servers
  Data,         \* what is true of a name: its addresses, or {alias target}, {NoData}, {NoName}
  Liars,        \* the zones whose servers say what they like
  Lies,         \* what they say
  Honest,       \* zones out of the liars' reach
  Glueless,     \* zones whose delegation comes without addresses
  Intercepted,  \* the protocols that a device on the way listens to
  Published,    \* the addresses in use at first
  MaxDepth,     \* maxDepth
  MaxSteps,     \* the steps of one walk (24)
  MaxTries,     \* maxTriesPerZone
  MaxNS,        \* how many server names are resolved (3),
  EnoughAddrs,  \* and how many addresses are enough (2)
  MaxHops       \* how far an alias chain is followed in one message (16)

Roots == {a \in Addresses : Serves[a] = Root}

\* The zone a name belongs to.
IsZoneOf(z, n) ==
  /\ z \in Zones /\ IsSubdomain(n, z)
  /\ \A y \in Zones : IsSubdomain(n, y) => IsSubdomain(z, y)

\* A name is out of the liars' reach if its zone is.
HonestName(n) == \E z \in Honest : IsZoneOf(z, n)

Records == [owner : Names, data : Names \cup Addresses \cup {NoData, NoName}]
Message ==
  [rcode : {"ok", "nx", "other"}, aa : BOOLEAN, answers : SUBSET Records,
   ns : SUBSET [owner : Names, target : Names], glue : SUBSET [owner : Names, ip : Addresses]]

\* A name is of one kind, and no alias of itself; when a server moves, every name
\* that has the address it had gets the new one.
\* A zone is honest if all zones above it and the zones of its servers' names
\* are, those names are no aliases, and they name the zone's own servers.
ASSUME WorldAssumption ==
  /\ Names \subseteq Seq(STRING) /\ Zones \subseteq Names
  /\ Questions \in [Walkers -> SUBSET Names]
  /\ Root \in Zones
  /\ Serves \in [Addresses -> Zones]
  /\ NSNames \in [Zones -> SUBSET Names]
  /\ Published \subseteq Addresses
  /\ Data \in [Names -> SUBSET (Names \cup Addresses \cup {NoData, NoName})]
  /\ \A n \in Names :
       \/ Data[n] \in {{NoData}, {NoName}} \/ \E t \in Names \ {n} : Data[n] = {t}
       \/ /\ Data[n] \subseteq Addresses /\ Data[n] \cap Published # {}
          /\ \A a \in Data[n], b \in Addresses : Serves[a] = Serves[b] => b \in Data[n]
  /\ Names \cap Addresses = {} /\ {NoData, NoName} \cap (Names \cup Addresses) = {}
  /\ Lies \subseteq Message
  /\ Honest \subseteq Zones \ Liars
  /\ Root \in Honest
  /\ \A z \in Honest, y \in Zones : IsSubdomain(z, y) => y \in Honest
  /\ \A z \in Honest \ {Root} : \A n \in NSNames[z] :
       /\ HonestName(n)
       /\ Data[n] \subseteq {a \in Addresses : Serves[a] = z}
  /\ \A n \in Names : \E z \in Zones : IsZoneOf(z, n)

ASSUME LimitAssumption ==
  /\ {MaxDepth, MaxSteps, MaxTries, MaxNS, EnoughAddrs, MaxHops} \subseteq Nat
  /\ MaxHops > 0

VARIABLES
  zones,     \* z.m: the servers known for each zone, none if there is no valid entry
  stack,     \* the names each goroutine is resolving, the innermost last
  ret,       \* what resolve has just returned, or the answer to the question
  inUse,     \* the addresses now in use
  lost       \* ghost: a true server's reply has not reached this goroutine

vars == <<zones, stack, ret, inUse, lost>>

-----------------------------------------------------------------------------
(* Messages *)

Ok(records) == [rcode |-> "ok", records |-> records]
Failed == [rcode |-> "fail", records |-> {}]

Msg(rcode, aa, answers, ns, glue) ==
  [rcode |-> rcode, aa |-> aa, answers |-> answers, ns |-> ns, glue |-> glue]

\* What is said of n now: of its addresses those in use.
Current(n) == {d \in Data[n] : d \in Addresses => d \in inUse}

\* The zones on the way from z down to n.
Below(z, n) == {c \in Zones : c # z /\ IsSubdomain(c, z) /\ IsSubdomain(n, c)}

\* What the true server of zone z says about n: the delegation of the zone
\* below z that n is in, or what it knows of n itself.
Truth(z, n) ==
  LET cuts == Below(z, n)
  IN  IF ~IsSubdomain(n, z) THEN Msg("other", FALSE, {}, {}, {})
      ELSE IF cuts = {}
        THEN Msg(IF Data[n] = {NoName} THEN "nx" ELSE "ok", TRUE,
                 {r \in [owner : {n}, data : Current(n)] : r.data \notin {NoName, NoData}}, {}, {})
      ELSE LET cut == CHOOSE c \in cuts : \A d \in cuts : IsSubdomain(d, c)
           IN  Msg("ok", FALSE, {}, [owner : {cut}, target : NSNames[cut]],
                   {g \in [owner : NSNames[cut], ip : inUse] :
                      cut \notin Glueless /\ g.ip \in Data[g.owner]})

\* What a resolver in between says: it is not authoritative.
Forged(n, a) ==
  {Msg("ok", FALSE, {[owner |-> n, data |-> a]}, {}, {}), Msg("nx", FALSE, {}, {}, {}),
   Msg("ok", FALSE, {}, {}, {})}

\* The replies to the question n that come back from address a.
Replies(a, n, proto) ==
  (IF a \notin inUse THEN {}
   ELSE IF Serves[a] \in Liars THEN Lies ELSE {Truth(Serves[a], n)})
  \cup (IF proto \in Intercepted THEN Forged(n, a) ELSE {})

\* A wrong version: every NS record above the name is followed.
CutsAnywhere(m, zone, name) == {c \in {r.owner : r \in m.ns} : IsSubdomain(name, c)}

\* referral: the cuts a message may be taken to delegate, for the first NS
\* record that counts decides.
Cuts(m, zone, name) ==
  {c \in {r.owner : r \in m.ns} : c # zone /\ IsSubdomain(c, zone) /\ IsSubdomain(name, c)}

Targets(m, cut) == {r.target : r \in {s \in m.ns : s.owner = cut}}

\* glueAddrs: addresses of the servers named, if the sender may speak of them.
GlueAddrs(m, ns, zone) ==
  {g.ip : g \in {h \in m.glue : h.owner \in ns /\ IsSubdomain(h.owner, zone)}}

\* A wrong version: answers need no authority.
ClassifyAny(m, zone, name) ==
  IF m.rcode = "other" THEN "lame"
  ELSE IF m.rcode = "nx" THEN "nx"
  ELSE IF m.answers # {} THEN "answer"
  ELSE IF Cuts(m, zone, name) # {} THEN "referral" ELSE "nodata"

\* classify
Classify(m, zone, name) ==
  IF m.rcode = "other" THEN "lame"
  ELSE IF m.rcode = "nx" THEN IF m.aa THEN "nx" ELSE "lame"
  ELSE IF m.answers # {}
    THEN IF m.aa /\ \E r \in m.answers : r.owner = name THEN "answer" ELSE "lame"
  ELSE IF m.aa THEN "nodata"
  ELSE IF Cuts(m, zone, name) # {} THEN "referral" ELSE "lame"

InZone(records, zone) == {r \in records : IsSubdomain(r.owner, zone)}

\* One step of followChain, to the addresses of the name it has come to or
\* along an alias.  In a message a name has one alias (Lies keep to that too).
Hop(p, records) ==
  LET about == {r \in records : r.owner = p.target /\ r.data \in Addresses}
      alias == {r \in records : r.owner = p.target /\ r.data \in Names}
  IN  IF p.complete THEN p
      ELSE IF about # {} THEN [p EXCEPT !.complete = TRUE, !.chain = @ \cup about]
      ELSE IF alias = {} THEN p
      ELSE LET r == CHOOSE s \in alias : TRUE
           IN  [p EXCEPT !.target = r.data, !.chain = @ \cup {r}]

\* followChain: from name along the aliases among the records, until there
\* are addresses.
FollowChain(name, records) ==
  LET walk[h \in 0 .. MaxHops] ==
        IF h = 0 THEN [target |-> name, complete |-> FALSE, chain |-> {}]
        ELSE Hop(walk[h - 1], records)
  IN  walk[MaxHops]

-----------------------------------------------------------------------------
(* The zone cache *)

\* closest: the zone nearest to the name that the cache knows, or the root.
Closest(n) ==
  LET held == {z \in Names \ {Root} : zones[z] # {} /\ IsSubdomain(n, z)}
  IN  IF held = {} THEN Root ELSE CHOOSE z \in held : \A y \in held : IsSubdomain(z, y)

\* put.  That it empties a cache of 20000 entries first is FlushZones.
Put(zone, servers) == zones' = [zones EXCEPT ![zone] = servers]

-----------------------------------------------------------------------------
(* The walk.  A frame is one activation of resolve with its lookup: the     *)
(* zone it has come to and that zone's servers, those tried, and where it   *)
(* is: asking them, asking one of them again over TCP, finding the          *)
(* addresses of the servers ns of the zone cut, or waiting for the target   *)
(* of an alias.                                                             *)

Frame ==
  [name : Names, zone : Names, servers : SUBSET Addresses, tried : SUBSET (Addresses \cup Names),
   step : Nat, restarted : BOOLEAN, at : {"ask", "tcp", "ns", "alias"},
   ip : Addresses \cup {NoName}, cut : Names, ns : SUBSET Names,
   addrs : SUBSET Addresses, chain : SUBSET Records]

NewFrame(n) ==
  [name |-> n, zone |-> Closest(n),
   servers |-> IF Closest(n) = Root THEN Roots ELSE zones[Closest(n)],
   tried |-> {}, step |-> 0, restarted |-> FALSE, at |-> "ask", ip |-> NoName, cut |-> Root,
   ns |-> {}, addrs |-> {}, chain |-> {}]

Returning == [rcode : {"ok", "nx", "fail"}, records : SUBSET Records, name : Names]
Nothing == [rcode |-> "none", records |-> {}, name |-> Root]

Top(w) == stack[w][Len(stack[w])]
At(w, label) == stack[w] # <<>> /\ ret[w] = Nothing /\ Top(w).at = label

\* The innermost frame changes to f.
Stay(w, f) == stack' = [stack EXCEPT ![w][Len(stack[w])] = f] /\ UNCHANGED ret

\* The innermost resolve returns.
Return(w, ans) ==
  /\ stack' = [stack EXCEPT ![w] = SubSeq(@, 1, Len(@) - 1)]
  /\ ret' = [ret EXCEPT ![w] = [rcode |-> ans.rcode, records |-> ans.records, name |-> Top(w).name]]

\* A wrong version: nothing limits how deep names lead to names.
CallAlways(w, f, n) ==
  /\ stack' = [stack EXCEPT ![w] = Append([@ EXCEPT ![Len(@)] = f], NewFrame(n))]
  /\ UNCHANGED ret

\* The frame f calls resolve for n, at the next depth.
Call(w, f, n) ==
  IF Len(stack[w]) > MaxDepth
  THEN /\ stack' = [stack EXCEPT ![w][Len(stack[w])] = f]
       /\ ret' = [ret EXCEPT ![w] = [rcode |-> "fail", records |-> {}, name |-> n]]
  ELSE /\ stack' = [stack EXCEPT ![w] = Append([@ EXCEPT ![Len(@)] = f], NewFrame(n))]
       /\ UNCHANGED ret

\* A wrong version: the iterations are not counted.
VisitUncounted(w, f, zone, servers) ==
  Stay(w, [f EXCEPT !.zone = zone, !.servers = servers, !.tried = {},
                    !.at = "ask", !.ip = NoName, !.ns = {}, !.addrs = {}, !.cut = Root])

\* The next iteration of lookup, at the zone with these servers.
Visit(w, f, zone, servers) ==
  IF f.step + 1 < MaxSteps
  THEN Stay(w, [f EXCEPT !.zone = zone, !.servers = servers, !.tried = {}, !.step = @ + 1,
                         !.at = "ask", !.ip = NoName, !.ns = {}, !.addrs = {}, !.cut = Root])
  ELSE Return(w, Failed)

\* The rest of resolveUncached, when lookup has an answer.
Conclude(w, f, rcode, records) ==
  LET c == FollowChain(f.name, records)
  IN  IF c.complete THEN Return(w, Ok(c.chain))
      ELSE IF rcode = "nx" THEN Return(w, [rcode |-> "nx", records |-> c.chain])
      ELSE IF c.target = f.name THEN Return(w, Ok({}))
      ELSE Call(w, [f EXCEPT !.at = "alias", !.chain = c.chain, !.servers = {}, !.tried = {},
                             !.step = 0], c.target)

-----------------------------------------------------------------------------

Init ==
  /\ zones = [z \in Names |-> {}]
  /\ stack = [w \in Walkers |-> <<>>]
  /\ ret = [w \in Walkers |-> Nothing]
  /\ inUse = Published
  /\ lost = [w \in Walkers |-> FALSE]

\* Resolve
Begin(w, n) ==
  /\ stack[w] = <<>> /\ ret[w] = Nothing
  /\ stack' = [stack EXCEPT ![w] = <<NewFrame(n)>>]
  /\ UNCHANGED <<zones, ret, inUse, lost>>

\* The servers that queryZone still tries.
Untried(f) == IF Cardinality(f.tried) < MaxTries THEN f.servers \ f.tried ELSE {}

\* queryServer asks the next server a, in any order, by UDP or, as the probe
\* has set forceTCP meanwhile or not, by TCP; or the same one again by TCP.
Asks(w, a, proto) ==
  \/ At(w, "ask") /\ a \in Untried(Top(w)) /\ proto \in {"udp", "tcp"}
  \/ At(w, "tcp") /\ a = Top(w).ip /\ proto = "tcp"

\* The frame goes on to the next server.
Past(w, a) == [Top(w) EXCEPT !.tried = @ \cup {a}, !.at = "ask", !.ip = NoName]

\* A wrong version: the socket has no deadline.
WaitForever(w) == FALSE /\ UNCHANGED vars

\* No reply in time, or none that parses and fits the question: the next one.
Timeout(w) ==
  /\ \E a \in Addresses :
       /\ \E proto \in {"udp", "tcp"} : Asks(w, a, proto)
       /\ Stay(w, Past(w, a))
       /\ lost' = [lost EXCEPT ![w] = @ \/ a \in inUse]
  /\ UNCHANGED <<zones, inUse>>

\* The reply did not fit: the question is asked again over TCP.
Truncated(w) ==
  /\ \E a \in inUse :
       /\ Asks(w, a, "udp")
       /\ Stay(w, [Top(w) EXCEPT !.tried = @ \cup {a}, !.at = "tcp", !.ip = a])
  /\ UNCHANGED <<zones, inUse, lost>>

\* What happens on a reply m from address a: classify decides what it is good for.
Handle(w, a, m) ==
  LET f == Past(w, a)
      kind == Classify(m, f.zone, f.name)
  IN  \/ /\ kind = "lame"
         /\ Stay(w, f)
         /\ UNCHANGED zones
      \/ /\ kind \in {"answer", "nx", "nodata"}
         /\ Conclude(w, f, m.rcode, InZone(m.answers, f.zone))
         /\ UNCHANGED zones
      \/ /\ kind = "referral"
         /\ \E cut \in Cuts(m, f.zone, f.name) :
              LET ns == Targets(m, cut)
                  addrs == GlueAddrs(m, ns, f.zone)
              IN  IF addrs = {}
                  THEN /\ Stay(w, [f EXCEPT !.at = "ns", !.cut = cut, !.ns = ns, !.servers = {},
                                        !.tried = {}])
                       /\ UNCHANGED zones
                  ELSE Put(cut, addrs) /\ Visit(w, f, cut, addrs)

\* A reply arrives.
Receive(w) ==
  /\ \E a \in Addresses, proto \in {"udp", "tcp"} :
       /\ Asks(w, a, proto)
       /\ \E m \in Replies(a, Top(w).name, proto) :
            /\ Handle(w, a, m)
            /\ lost' = [lost EXCEPT ![w] = @ \/ Classify(m, Top(w).zone, Top(w).name) = "lame"]
  /\ UNCHANGED <<inUse>>

\* A wrong version: cached servers that are silent are the end of it.
NoRestart(w) ==
  /\ At(w, "ask") /\ Untried(Top(w)) = {}
  /\ Return(w, Failed)
  /\ UNCHANGED <<zones, inUse, lost>>

\* None of the zone's servers was of use: once, start again from the root.
GiveUp(w) ==
  /\ At(w, "ask") /\ Untried(Top(w)) = {}
  /\ LET f == Top(w)
     IN  IF f.zone # Root /\ ~f.restarted
         THEN /\ zones' = [zones EXCEPT ![f.zone] = {}]
              /\ Visit(w, [f EXCEPT !.restarted = TRUE], Root, Roots)
         ELSE Return(w, Failed) /\ UNCHANGED zones
  /\ UNCHANGED <<inUse, lost>>

\* The server names that resolveNSAddrs still resolves.
Unresolved(f) ==
  IF Cardinality(f.tried) < MaxNS /\ Cardinality(f.addrs) < EnoughAddrs THEN f.ns \ f.tried ELSE {}

\* resolveNSAddrs: the address of one more server, in any order
ResolveNS(w) ==
  /\ At(w, "ns")
  /\ \E n \in Unresolved(Top(w)) : Call(w, [Top(w) EXCEPT !.tried = @ \cup {n}], n)
  /\ UNCHANGED <<zones, inUse, lost>>

\* resolveNSAddrs is done.
EnterZone(w) ==
  /\ At(w, "ns") /\ Unresolved(Top(w)) = {}
  /\ LET f == Top(w)
     IN  IF f.addrs = {} THEN Return(w, Failed) /\ UNCHANGED zones
         ELSE Put(f.cut, f.addrs) /\ Visit(w, f, f.cut, f.addrs)
  /\ UNCHANGED <<inUse, lost>>

\* The innermost resolve has returned to the frame that called it.
Resume(w) ==
  /\ stack[w] # <<>> /\ ret[w] # Nothing
  /\ LET f == Top(w)
     IN  \/ /\ f.at = "ns"
            /\ stack' = [stack EXCEPT ![w][Len(stack[w])].addrs =
                           @ \cup {r.data : r \in {s \in ret[w].records : s.data \in Addresses}}]
            /\ ret' = [ret EXCEPT ![w] = Nothing]
         \/ /\ f.at = "alias"
            /\ Return(w, IF ret[w].rcode = "fail" THEN Failed
                         ELSE [rcode |-> ret[w].rcode, records |-> f.chain \cup ret[w].records])
  /\ UNCHANGED <<zones, inUse, lost>>

\* An entry's time passes.
Expire(z) ==
  /\ zones[z] # {}
  /\ zones' = [zones EXCEPT ![z] = {}]
  /\ UNCHANGED <<stack, ret, inUse, lost>>

\* FlushCache
FlushZones ==
  /\ \E z \in Names : zones[z] # {}
  /\ zones' = [z \in Names |-> {}]
  /\ UNCHANGED <<stack, ret, inUse, lost>>

\* A zone's server moves to an address that was not in use before.
Renumber(old, new) ==
  /\ old \in inUse /\ new \notin inUse \cup Published /\ Serves[old] = Serves[new]
  /\ inUse' = (inUse \ {old}) \cup {new}
  /\ lost' = [w \in Walkers |-> lost[w] \/ stack[w] # <<>>]
  /\ UNCHANGED <<zones, stack, ret>>

\* What a goroutine does by itself, the network left out.
Alone(w) == Timeout(w) \/ GiveUp(w) \/ ResolveNS(w) \/ EnterZone(w) \/ Resume(w)

Next ==
  \/ \E w \in Walkers : (\E n \in Questions[w] : Begin(w, n)) \/ Alone(w) \/ Truncated(w) \/ Receive(w)
  \/ \E z \in Names : Expire(z)
  \/ FlushZones
  \/ \E old, new \in Addresses : Renumber(old, new)

Spec == Init /\ [][Next]_vars

\* A goroutine that can go on does, and every exchange has a deadline; that
\* replies ever arrive is not assumed.
FairSpec == Spec /\ \A w \in Walkers : WF_vars(Alone(w))

-----------------------------------------------------------------------------
(* Properties *)

\* No variable leaves its type; a name leads to names MaxDepth deep at most,
\* and a zone's servers are not tried without end.
LookupTypeOK ==
  /\ zones \in [Names -> SUBSET Addresses]
  /\ stack \in [Walkers -> Seq(Frame)]
  /\ ret \in [Walkers -> Returning \cup {Nothing}]
  /\ inUse \subseteq Addresses
  /\ lost \in [Walkers -> BOOLEAN]
  /\ \A w \in Walkers : Len(stack[w]) <= MaxDepth + 1

\* The servers of an honest zone are that zone's own.
OwnServers(z, servers) == z \in Honest => \A a \in servers : Serves[a] = z

\* What is said of honest names is true: records, and their absence.
TrueRecords(records) == \A r \in records : HonestName(r.owner) => r.data \in Data[r.owner]
TrueAnswer(a) ==
  /\ TrueRecords(a.records)
  /\ a.rcode = "nx" /\ a.records = {} /\ HonestName(a.name) => Data[a.name] = {NoName}
  /\ a.rcode = "ok" /\ a.records = {} /\ HonestName(a.name) => Data[a.name] = {NoData}

\* Lying servers harm no name outside their own zones, and a device on the way
\* harms none: whatever they send, however walks share what they learn, the
\* servers taken for an honest zone's are its own, in the zone cache and in
\* every walk, and the answers about honest names are true (classify,
\* referral, inZone, followChain, the repetition over TCP).
Undeceived ==
  /\ \A z \in Names : OwnServers(z, zones[z])
  /\ \A w \in Walkers :
       /\ TrueAnswer(ret[w])
       /\ \A i \in 1 .. Len(stack[w]) : OwnServers(stack[w][i].zone, stack[w][i].servers)

\* A walk only goes down, towards the name, but for one restart from the root:
\* referrals cannot send it round in circles (referral, lookup).
Descends ==
  [][\A w \in Walkers : \A i \in 1 .. Len(stack[w]) :
       i \in 1 .. Len(stack'[w]) /\ stack'[w][i].zone # stack[w][i].zone
         => \/ /\ IsSubdomain(stack'[w][i].zone, stack[w][i].zone)
               /\ IsSubdomain(stack[w][i].name, stack'[w][i].zone)
            \/ /\ stack'[w][i].zone = Root
               /\ ~stack[w][i].restarted /\ stack'[w][i].restarted]_vars

\* The names that can be resolved if those in deeper can, one name deeper: an
\* alias leads to such a name, and on the way down each zone gives an address of
\* a server of the next, or the names of the next one's servers are among them.
OneDeeper(deeper) ==
  {n \in Names :
     /\ HonestName(n)
     /\ Data[n] \cap Names \subseteq deeper
     /\ \A z \in Zones : \A c \in Below(z, n) :
          \/ c \notin Glueless /\ \E s \in NSNames[c] : IsSubdomain(s, z)
          \/ NSNames[c] \subseteq deeper}

\* The names that can be resolved with k levels to spare.
Resolvable[k \in 0 .. MaxDepth] == OneDeeper(IF k = 0 THEN {} ELSE Resolvable[k - 1])

\* The zones on the way to a name are fewer than the steps of a walk, the addresses
\* a zone's servers may have had fewer than are tried, and some root stays.
LimitsSuffice ==
  /\ IsFiniteSet(Addresses) /\ IsFiniteSet(Zones)
  /\ Roots \cap Published # {}
  /\ MaxNS > 0 /\ EnoughAddrs > 0
  /\ \A z \in Honest : Cardinality({a \in Addresses \ Published : Serves[a] = z}) < MaxTries
  /\ \A n \in Names : HonestName(n) => Cardinality(Below(Root, n)) + 1 < MaxSteps

\* Servers that a zone no longer has cost nobody an answer: a name that does
\* not lead too deep, an alias or not, cannot be resolved only if a reply from a
\* server in use got lost (lookup's restart from the root, zoneCache.remove).
FailsOnlyIfLost ==
  \A w \in Walkers :
    stack[w] = <<>> /\ ret[w].rcode = "fail" /\ ret[w].name \in Resolvable[MaxDepth] => lost[w]

\* What a frame has left to do, at most: the visits, the servers to ask, by UDP
\* and by TCP, and the server names to resolve.
VisitWork == MaxNS + 2 * MaxTries + 2
Left(f) ==
  IF f.at = "alias" THEN 0
  ELSE (MaxSteps - f.step) * VisitWork +
       IF f.at = "ns" THEN 1 + (MaxNS - Cardinality(f.tried))
       ELSE 2 + MaxNS + 2 * (MaxTries - Cardinality(f.tried)) + (IF f.at = "tcp" THEN 1 ELSE 0)

\* The same for each level of a query, with the return it waits for; nothing is
\* left of one that has returned, and everything of one not yet begun.
Everything == 2 * (MaxSteps + 1) * VisitWork + 3
Todo(s, r) ==
  [i \in 1 .. MaxDepth + 1 |->
     IF i <= Len(s) THEN 1 + 2 * Left(s[i]) + (IF i < Len(s) \/ r # Nothing THEN 1 ELSE 0)
     ELSE IF i = Len(s) + 1 /\ r # Nothing THEN 0 ELSE Everything]

\* Less is left in all, in the order of the levels, the outermost first.
Less(t, u) == \E i \in DOMAIN t : t[i] < u[i] /\ \A j \in 1 .. i - 1 : t[j] = u[j]

\* The work on a question is bounded, whatever the servers reply: each step of a
\* walk leaves less to do, and of that there is only so much (maxTriesPerZone,
\* maxDepth, the steps of lookup and the names of resolveNSAddrs, which referrals
\* to referrals could multiply).
Closer ==
  [][\A w \in Walkers :
       /\ Todo(stack[w], ret[w])' \in [1 .. MaxDepth + 1 -> 0 .. Everything]
       /\ <<stack[w], ret[w]>>' # <<stack[w], ret[w]>>
            => Less(Todo(stack[w], ret[w])', Todo(stack[w], ret[w]))]_vars

\* Every question is answered in the end, be it with a failure: servers that
\* are silent, point at each other or need each other do not hold a walk up.
Ends == \A w \in Walkers : stack[w] # <<>> ~> stack[w] = <<>>
=============================================================================
