------------------------------ MODULE Blocklist ------------------------------
(***************************************************************************)
(* Ad blocking, blocklist.go: the goroutine that loads the lists from the  *)
(* user's file and the local copies of the online sources and replaces     *)
(* those in memory, the panel's requests that allow a domain, the look-up  *)
(* a query makes, and the restarts in between.                             *)
(*                                                                         *)
(* writeFileAtomic makes each file change in one step.  A list file is the *)
(* set of its domains: parseHostsLine is what decides which lines count,   *)
(* and of it only that some names (Unlistable) that Allow takes are no     *)
(* list entries.                                                           *)
(***************************************************************************)
EXTENDS DomainName, FiniteSets

CONSTANTS
  Names,       \* the domains there are
  Asked,       \* those the panel's requests are about
  Sources,     \* b.sources
  Editions,    \* the lists a source may publish
  Custom,      \* the user's own list, b.customFile
  Unlistable,  \* names validListDomain refuses: one label, too short, an IP address
  Panels,      \* the goroutines that serve the panel's requests
  NoCopy,      \* a source was never downloaded
  MaxRuns,     \* bound: how often the program runs
  MaxAllows    \* bound: how many requests it gets

ASSUME BlocklistAssumption ==
  /\ Custom \subseteq Names \ Unlistable
  /\ Editions \subseteq SUBSET (Names \ Unlistable)
  /\ NoCopy \notin Editions
  /\ Asked \subseteq Names
  /\ Names \subseteq Seq(STRING)
  /\ MaxRuns \in Nat \ {0} /\ MaxAllows \in Nat

VARIABLES
  enabled,    \* b.enabled, with cfg.BlocklistEnabled
  domains,    \* b.domains; b.count is its size
  allow,      \* b.allow
  loader,     \* the goroutine of StartAutoRefresh with the local variables of Load
  panel,      \* the requests in progress: what they have yet to write
  copies,     \* the local copies of the sources
  old,        \* the sources whose copy is older than b.refresh
  allowFile,  \* allowlist.txt
  web,        \* what the sources publish now
  reachable,  \* a download now succeeds
  wished,     \* ghost: domains allowed by a request that reported success
  risky,      \* ghost: those of them that another step got in the way of
  runs, uses

memory == <<domains, allow>>
disk == <<copies, old, allowFile>>
outside == <<web, reachable>>
ghosts == <<wished, risky>>
counters == <<runs, uses>>
vars == <<enabled, memory, loader, panel, disk, outside, ghosts, counters>>

-----------------------------------------------------------------------------

\* IsBlocked: the allow list counts before the block lists, and a single label
\* is not looked up in these.
IsBlocked(n) ==
  /\ enabled
  /\ Ancestry(n) \cap allow = {}
  /\ \E d \in Ancestry(n) \cap domains : Len(d) > 1

\* A wrong version: every line of a file is an entry.
AllLines(file) == file

\* loadListFile
Entries(file) == file \ Unlistable

LoaderStates ==
  [at : {"off", "sources", "replace", "waiting"}, update : BOOLEAN, todo : SUBSET Sources,
   domains : SUBSET (Names \ Unlistable), allow : SUBSET (Names \ Unlistable), downloaded : BOOLEAN]

Idle == [at |-> "off", update |-> FALSE, todo |-> {}, domains |-> {}, allow |-> {}, downloaded |-> FALSE]

\* Load is at work.
Loading == loader.at \in {"sources", "replace"}

\* The lists of this run are not in memory yet.
Early == loader.at = "off" \/ (Loading /\ ~loader.update)

\* Load begins, with the user's own list.
BeginLoad(update) ==
  loader' = [at |-> "sources", update |-> update, todo |-> Sources, domains |-> Custom,
             allow |-> {}, downloaded |-> FALSE]

NoRequest == [at |-> "idle", list |-> {}, domain |-> Root, allowed |-> FALSE, alone |-> FALSE]

RequestStates ==
  [at : {"write"}, list : SUBSET Names, domain : Names, allowed : BOOLEAN, alone : BOOLEAN]
    \cup {NoRequest}

\* No request in progress can count on being alone any longer.
Disturbed == [p \in Panels |-> [panel[p] EXCEPT !.alone = FALSE]]

Init ==
  /\ enabled \in BOOLEAN
  /\ domains = {} /\ allow = {}
  /\ loader = Idle
  /\ panel = [p \in Panels |-> NoRequest]
  /\ copies = [s \in Sources |-> NoCopy]
  /\ old = {}
  /\ allowFile = {}
  /\ web \in [Sources -> Editions]
  /\ reachable \in BOOLEAN
  /\ wished = {} /\ risky = {}
  /\ runs = 1 /\ uses = 0

\* runApp starts the goroutine.
Start ==
  /\ loader.at = "off" /\ enabled
  /\ BeginLoad(FALSE)
  /\ panel' = Disturbed
  /\ UNCHANGED <<enabled, memory, disk, outside, ghosts, counters>>

\* setBlocklist, with startBlocklist
Switch(on) ==
  /\ enabled # on
  /\ enabled' = on
  /\ IF on /\ loader.at = "off" THEN BeginLoad(FALSE) /\ panel' = Disturbed
     ELSE UNCHANGED <<loader, panel>>
  /\ UNCHANGED <<memory, disk, outside, ghosts, counters>>

\* The three seconds or the hour have passed.
Wake ==
  /\ loader.at = "waiting"
  /\ BeginLoad(TRUE)
  /\ panel' = Disturbed
  /\ UNCHANGED <<enabled, memory, disk, outside, ghosts, counters>>

\* A wrong version: only a list that is not there is downloaded.
DueIfMissing(s) == loader.update /\ copies[s] = NoCopy

\* A source has to be downloaded.
Due(s) == loader.update /\ (copies[s] = NoCopy \/ s \in old)

\* One source: downloaded if it is due, and read from its copy, new or old.
LoadSource ==
  /\ loader.at = "sources"
  /\ \E s \in loader.todo :
       LET new == Due(s) /\ reachable
           copy == IF new THEN web[s] ELSE copies[s]
       IN  /\ copies' = [copies EXCEPT ![s] = copy]
           /\ old' = IF new THEN old \ {s} ELSE old
           /\ loader' = [loader EXCEPT !.todo = @ \ {s}, !.downloaded = @ \/ new,
                           !.domains = IF copy = NoCopy THEN @ ELSE @ \cup Entries(copy)]
  /\ UNCHANGED <<enabled, memory, panel, allowFile, outside, ghosts, counters>>

\* The allow list is read last.
LoadAllow ==
  /\ loader.at = "sources" /\ loader.todo = {}
  /\ loader' = [loader EXCEPT !.at = "replace", !.allow = Entries(allowFile)]
  /\ UNCHANGED <<enabled, memory, panel, disk, outside, ghosts, counters>>

\* A wrong version: the sizes alone decide.
SameSize ==
  IF loader.update THEN Cardinality(loader.domains) = Cardinality(domains) /\ domains # {}
  ELSE loader.domains = {} /\ loader.allow = {}

\* Nothing to replace: no copies yet, or nothing new.
Unchanged ==
  IF loader.update
  THEN ~loader.downloaded /\ Cardinality(loader.domains) = Cardinality(domains) /\ domains # {}
  ELSE loader.domains = {} /\ loader.allow = {}

\* The end of Load
Replace ==
  /\ loader.at = "replace"
  /\ IF Unchanged THEN UNCHANGED memory
     ELSE domains' = loader.domains /\ allow' = loader.allow
  /\ loader' = [Idle EXCEPT !.at = "waiting"]
  /\ UNCHANGED <<enabled, panel, disk, outside, ghosts, counters>>

\* A wrong version: the list to write is taken before the change.
ListedBefore(d, allowed) == allow

\* The list that is written after the change.
Listed(d, allowed) == IF allowed THEN allow \cup {d} ELSE allow \ {d}

\* Allow, under the lock.  The wish is alone if no Load and no other request
\* is under way.  Before the lists are loaded, what the file holds is not in
\* the list that will be written.
Allow(p, d, allowed) ==
  /\ panel[p] = NoRequest /\ uses < MaxAllows
  /\ uses' = uses + 1
  /\ allow' = IF allowed THEN allow \cup {d} ELSE allow \ {d}
  /\ panel' = [Disturbed EXCEPT ![p] =
       [at |-> "write", list |-> Listed(d, allowed), domain |-> d, allowed |-> allowed,
        alone |-> ~Loading /\ \A q \in Panels : panel[q] = NoRequest]]
  /\ wished' = IF allowed THEN wished ELSE wished \ {d}
  /\ risky' = IF Early THEN risky \cup wished' ELSE risky
  /\ UNCHANGED <<enabled, domains, loader, disk, outside, runs>>

\* The write that ends Allow succeeds, and handleAPIAllow reports success.
Save(p) ==
  /\ panel[p].at = "write"
  /\ allowFile' = panel[p].list
  /\ panel' = [panel EXCEPT ![p] = NoRequest]
  /\ LET d == panel[p].domain
         removed == \E q \in Panels : panel[q].at = "write" /\ panel[q].domain = d /\ ~panel[q].allowed
     IN  /\ wished' = IF panel[p].allowed /\ ~removed THEN wished \cup {d} ELSE wished
         /\ risky' = IF ~panel[p].allowed THEN risky
                     ELSE IF panel[p].alone /\ d \notin Unlistable THEN risky \ {d} ELSE risky \cup {d}
  /\ UNCHANGED <<enabled, memory, loader, copies, old, outside, counters>>

\* It fails, and so does the request.
SaveFails(p) ==
  /\ panel[p].at = "write"
  /\ panel' = [panel EXCEPT ![p] = NoRequest]
  /\ UNCHANGED <<enabled, memory, loader, disk, outside, ghosts, counters>>

\* The process ends, in whatever way, and another one starts.
Restart ==
  /\ runs < MaxRuns
  /\ runs' = runs + 1
  /\ domains' = {} /\ allow' = {}
  /\ loader' = Idle
  /\ panel' = [p \in Panels |-> NoRequest]
  /\ UNCHANGED <<enabled, disk, outside, ghosts, uses>>

\* A day passes for a copy.
Age(s) ==
  /\ copies[s] # NoCopy /\ s \notin old
  /\ old' = old \cup {s}
  /\ UNCHANGED <<enabled, memory, loader, panel, copies, allowFile, outside, ghosts, counters>>

\* A source publishes another list, the network comes and goes.
Publish(s, e) ==
  /\ web[s] # e
  /\ web' = [web EXCEPT ![s] = e]
  /\ UNCHANGED <<enabled, memory, loader, panel, disk, reachable, ghosts, counters>>

Network ==
  /\ reachable' = ~reachable
  /\ UNCHANGED <<enabled, memory, loader, panel, disk, web, ghosts, counters>>

Loader == Start \/ Wake \/ LoadSource \/ LoadAllow \/ Replace
Requests == \E p \in Panels :
              (\E d \in Asked, allowed \in BOOLEAN : Allow(p, d, allowed)) \/ Save(p) \/ SaveFails(p)
Environment == (\E s \in Sources : Age(s) \/ \E e \in Editions : Publish(s, e)) \/ Network

Next == Loader \/ Requests \/ (\E on \in BOOLEAN : Switch(on)) \/ Restart \/ Environment

Spec == Init /\ [][Next]_vars

\* The goroutine runs on, its ticker ticks, and time passes.
FairSpec == Spec /\ WF_vars(Loader) /\ \A s \in Sources : WF_vars(Age(s))

-----------------------------------------------------------------------------
(* Properties *)

\* No variable leaves its type, and nothing from a file is in force that
\* validListDomain refuses.
BlockTypeOK ==
  /\ enabled \in BOOLEAN /\ reachable \in BOOLEAN
  /\ domains \subseteq Names /\ allow \subseteq Names
  /\ loader \in LoaderStates
  /\ panel \in [Panels -> RequestStates]
  /\ copies \in [Sources -> Editions \cup {NoCopy}]
  /\ old \subseteq {s \in Sources : copies[s] # NoCopy}
  /\ allowFile \subseteq Names
  /\ web \in [Sources -> Editions]
  /\ wished \subseteq Names /\ risky \subseteq Names
  /\ runs \in 1 .. MaxRuns /\ uses \in 0 .. MaxAllows

Local == Custom \cup UNION {copies[s] : s \in {q \in Sources : copies[q] # NoCopy}}

\* Between two loads memory holds what the files hold, whatever downloads
\* failed and though Load gives up on lists of equal size (Load's early returns).
InStep == loader.at = "waiting" => domains = Local

\* A domain that was allowed with nothing else going on is not blocked again,
\* nor is one below it: neither reloads nor restarts nor failed writes nor
\* later requests, alone or not, take it off the list (Allow, Load, IsBlocked).
AllowKept ==
  \A n \in Names : Ancestry(n) \cap (wished \ risky) # {} => ~IsBlocked(n)

\* If the network stays up, the lists in force are in the end those that are
\* published, also when a new list is as long as the old one (Load, StartAutoRefresh).
Converges ==
  \A e \in [Sources -> Editions] :
    <>[](reachable /\ enabled /\ web = e) => <>[](domains = Custom \cup UNION {e[s] : s \in Sources})

\* What the panel reported as allowed stays in the list that the next start
\* reads ("artık engellenmeyecek", index.html; "bir daha engellenmez", README).
AllowStays == (\A p \in Panels : panel[p] = NoRequest) => wished \subseteq allowFile
=============================================================================
