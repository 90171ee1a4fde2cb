# Verification of Ceky Resolver

TLA+ models of [Ceky Resolver](../src/README.md), a recursive DNS resolver that
points the machine's own DNS setting at itself, with the runs TLC checks and
the theorems TLAPS proves. Source references are to `src/`.

## 1. The system

One Go process (the *application*, started by the user, or the *service*) serves
DNS on the loopback addresses, resolves names from the root servers down, serves
a control panel over HTTP, and keeps the operating system's DNS setting pointed
at itself while protection is wanted. Command line invocations (`restore`,
`uninstall`, `install`) are separate processes.

| Component | State it keeps | Operations | Talks to |
|---|---|---|---|
| System DNS setting (`sysdns.go`, `sysdns_linux.go`) | `/etc/resolv.conf`, drop-ins for systemd-resolved and NetworkManager, the backup file | `enableSystemDNS`, `disableSystemDNS`, `reconcileSystemDNS` | called by the controller under `opMu`, by the command line without it |
| Protection controller (`app.go`) | `App` under `mu`: wanted, active, suspended, streaks, handoff; `stop` | `controlLoop`, `reconcile`, `checkNetwork`, `setProtection`, `setBlocklist`, `installFromPanel`, `shutdown` | system DNS, config, resolver probe, service manager |
| Configuration (`config.go`) | `config.json`, `cfg` in memory | `loadConfig`, `peekConfig`, `saveConfig` | controller, panel |
| Command line (`main.go`) | none of its own | `restore`, `uninstall`, `install`, service commands | system DNS, service manager |
| Cache and coalescing (`cache.go`) | a bounded map under a mutex, the zone cache, the table of calls in flight | `Get`, `GetStale`, `Set`, `Flush`, `Cleanup`, `flightGroup.do` | resolver, panel |
| Iterative resolver (`resolver.go`) | `forceTCP`, zone cache | `resolve`, `lookup`, `queryZone`, `referral`, `resolveNSAddrs`, `Probe` | cache, network |
| Servers (`server.go`) | slots for concurrent queries, per-connection streams | `serveUDP`, `serveStream`, `handleStreamConn` | blocklist, cache, resolver, query log |
| Ad blocking (`blocklist.go`) | rule sets, allow list, counters, list files | `IsBlocked`, `Allow`, `Load`, auto refresh | servers, panel, network |
| Query log (`querylog.go`) | ring buffer | `Add`, `Recent` | servers, panel |
| Wire format (`dns.go`) | none | parse, build, name decompression | everything on the query path |
| Local names (`local.go`) | forwarder table | look-up | servers |
| Panel (`dashboard.go`, `web/`) | none of its own | HTTP handlers, event stream | controller, blocklist, cache, log |
| Service, platform, packaging | operating system | install, start, stop, elevate | controller, command line |

### What is hard in it

* **Crashes.** The machine's setting outlives the process. Every procedure on
  it is a sequence of disk writes, the process can die between any two, and the
  next run starts from what it finds.
* **Partial failure.** `platformApply` writes up to three places; each write and
  each `systemctl` call can fail and what was done before has to be taken back.
* **Processes that share nothing but the disk.** `restore` runs while the
  application does.
* **State read under one lock and used under another.** `reconcile` decides on
  a snapshot taken under `mu`; `controlLoop` reads `sysActive` before it takes
  `opMu`; the config is copied under `mu` and written after it.
* **Two processes' worth of timing in one**: shutdown against the control loop
  and the panel's handlers, handoff to the service against restoration.
* **Coalesced queries.** Many goroutines ask for one name, one works for all,
  names need each other in circles, and the work can fail or panic at any depth.
* **Ages of answers.** Answers are aged, clamped, put together and cached again
  at each level of aliases.
* **A world that lies, moves and is silent.** The zone walk trusts what servers
  say of servers; walks share what they learn; a device on the way may answer.
* **Files behind memory.** The block lists and the allow list live in memory and
  on disk, read and written by a loader, by panel requests and across restarts.
* **Rings, slots and counters** that are bounded, shared and have to come out even
  on every path, panics included.
* **Pointers in messages** that were written by somebody else.
* **Eventualities**: protection has to come on, fail-safe has to fire, switching
  off has to restore, walks have to end, new lists have to come into force.

`PROJECT.json` lists every such hazard at its line with the properties aimed at it.

## 2. Modules

| Module | Models | Kind |
|---|---|---|
| `SafeRedirect` | the promise about the DNS setting | abstract specification |
| `SystemDNS` | `sysdns.go`, `sysdns_linux.go` | component, called by anyone |
| `Protection` | `app.go`, `config.go` (AutoEnable), `main.go` (restore, uninstall) | composition: extends `SystemDNS` with its real callers |
| `DomainName` | names as sequences of labels, `isSubdomain` | operators |
| `DNSCache` | `cache.go` without the zone cache, `resolve` and `resolveUncached` of `resolver.go` | component |
| `Lookup` | `lookup` and what it calls in `resolver.go`, the zone cache of `cache.go` | component |
| `Blocklist` | `blocklist.go`, `setBlocklist` of `app.go` | component |
| `RecentLog` | the promise about the last queries | abstract specification |
| `QueryLog` | `querylog.go` | component |
| `Server` | `server.go`, the counters of `metrics.go` and of the blocklist | composition: extends `QueryLog` with those who write to it |
| `Wire` | readers and writers of `dns.go` | algorithms, with a state for the reader's rounds |
| `SystemDNS_proofs`, `Protection_proofs`, `DNSCache_proofs`, `Lookup_proofs`, `Blocklist_proofs`, `Server_proofs`, `Wire_proofs` | | theorems |
| `Recursion` | induction, and the existence of recursive functions | lemmas of several of the proofs |
| `MCSystemDNS`, `MCProtection`, `MCDNSCache`, `MCLookup`, `MCBlocklist`, `MCServer`, `MCWire` | | instances for TLC |

`Protection` extends `SystemDNS` and never changes the disk but through its
actions; `SystemDNS` maps to `SafeRedirect` by `Promise == INSTANCE SafeRedirect
WITH ...`. `Server` extends `QueryLog`, whose ring maps to `RecentLog` by `Shown ==
INSTANCE RecentLog WITH Room <- MaxSize, recent <- Recent(MaxSize)`. The other
components meet through narrow results, and each has the other's result as a
choice: the controller meets the resolver only through `Probe` (`net` in
`Protection`), `DNSCache` meets the walk through its outcome, `Server` meets all
of them through the status of an answer. Operators whose comment begins with "A
wrong version" are what a slip in the code would make of the definition after
them; each property is known to fail for one of them (`mutants` in `PROJECT.json`).

### SystemDNS

`conf`, `dropIn`, `nmDropIn` and `backup` are the four places on disk; `pc`,
`op`, `bk` and `err` are each caller's position in a procedure, its in-memory
copy of the backup and its pending error; `opMu` is `App.opMu`. A file's content
is a model value: the user's files, Ceky's own (`Ours`), or none (`Missing`).
`Backup` keeps the file and the three flags of `linuxDNSBackup`.

There is one action per disk write or command whose failure the code sees; the
reads just before a write belong to the write's action. `writeFileAtomic`
(write to a temporary file, rename) makes each write a single step. `os.Remove`
is taken to succeed, since the code drops its error.

What may go wrong is the constant `Faults`:

| Fault | Meaning | The code's answer |
|---|---|---|
| `io` | a write or command fails visibly | error path |
| `lease` | a DHCP client rewrites `resolv.conf` | `reconcileSystemDNS` |
| `lateCrash` | death between the first platform write and the second `saveBackup` | none: the flags are lost |
| `lateSave` | the second `saveBackup` fails | none: the error is dropped |
| `undo` | `platformRestore` fails on `enableSystemDNS`'s error path | none: the backup is deleted anyway |
| `overlap` | a tool and the application run procedures at once | none: they share no lock |

`Unanswered` is the last four. The safety properties are stated for the others,
and each of the four breaks `Restorable` (section 3, *Known disagreements*, for one).

### Protection

The goroutines are `Main` (`runApp`, `shutdown`), `Loop` (`controlLoop`) and the
panel's handlers. `ctl` says where each is. A section under `App.mu` is one
action. A process may crash anywhere, restart, be stopped, or hand over to the
service; memory is lost and the disk stays. `okStreak` and `failStreak` stop
counting at the thresholds 2 and 3, beyond which the code does not tell values
apart. `cfgFile` is `AutoEnable` as `config.json` has it: `os.WriteFile`
truncates first, so there is a moment at which the file is `torn`.
The bounds `MaxRuns`, `MaxClicks`, `MaxRestores`, `MaxLeases` limit how often a
process starts, the panel is used, a tool is run and a lease arrives.

### DNSCache

`entries` is `DNSCache.entries`, `calls` is `flightGroup.calls` (with the leader
in place of the `flightCall`), `now` the clock. `query[c]` is the goroutine `c`
in `Resolve`: the label `at` is its place in `resolve` / `resolveUncached` /
`flightGroup.do`, `stack` the names of its nested calls (an alias has its target
resolved, a zone without glue the name of its server), `ans` the answer in hand,
`waitsFor` the leader it waits for. Each section under `DNSCache.mu` or
`flightGroup.mu` is one action; `Unregister` and `Wake` are the two halves of the
deferred function.

* A name is a cache key (name and type). `Alias` and `Server` say which names lie
  behind a CNAME into another zone and which zones have a glueless server.
* The zone walk (`lookup`, in module `Lookup`) is a choice of its outcome: failure, an answer with
  any of the TTLs, an alias, or first the address of the zone's server. A chain
  that one server answers completely is an answer like any other.
* An answer is its kind and its smallest TTL (records) or its SOA's (no records).
  `until` and `stale` are ghosts: when the owner's TTL ends, and whether a part
  was served past it. `goodUntil` is a ghost too: for how long `GetStale` owes the
  last good answer.
* Map order is random in Go: the tenth that `evictLocked` drops is any tenth.
* The hit and miss counters are left out.

### Lookup

A goroutine's `stack` has a frame for every activation of `resolve` with its
`lookup`: the name, the zone the walk has come to and that zone's servers, those
tried, the iteration, and where it is (asking, asking again over TCP, finding the
addresses of a zone's servers, waiting for the target of an alias). `zones` is the
zone cache, shared by all walks. `Begin` is `Resolve`; `Timeout`, `Truncated` and
`Receive` are the outcomes of `queryServer`; `GiveUp` is the end of `queryZone`
with `lookup`'s one restart from the root; `ResolveNS` and `EnterZone` are
`resolveNSAddrs`; `Resume` is a nested `resolve`'s return. `Classify`, `Cuts`,
`GlueAddrs`, `InZone` and `FollowChain` are the functions of those names.

* The world outside is a namespace (constants): zones, who serves them, what is
  true of each name. Servers answer truthfully (`Truth`) but those of the zones in
  `Liars`, which send any message of `Lies`. Any server may be silent, a server may
  move to another address, and a device on the way may answer in its place
  (`Forged`), not authoritatively, as a recursive resolver does.
* `lost` is a ghost: a reply of a server in use has not reached the goroutine.
* The probe's `forceTCP` may change at any time: each question may go either way.
* `queryZone` shuffles the servers: the model takes them in any order.
* `Resolvable[k]` are the names, of honest zones all the way up, that can be resolved with `k`
  levels of `resolve` to spare: an alias and a zone whose servers come without addresses take one.
  `FailsOnlyIfLost` is about those with all of `MaxDepth` before them.
* `Todo` is an upper bound on what each level of a query has left to do. `Closer` says that every
  step of a walk lessens it at one level and leaves the levels outside as they are: a lexicographic
  order of bounded numbers, which has no infinite descent.

### Blocklist

`domains` and `allow` are the lists in memory, `copies` the local copies of the
sources, `allowFile` is `allowlist.txt`. `loader` is the goroutine of
`StartAutoRefresh` with the local variables of `Load`, which reads one file after
the other outside the lock and replaces the lists at the end (or gives up, if it
finds no more domains than there are). `panel[p]` is a request in `Allow` between
the change in memory, under the lock, and the write, after it. A list file is the
set of its domains; of `parseHostsLine` and `validListDomain` is kept which names
`Allow` takes that are no entries (`Unlistable`). Sources publish other lists,
downloads and writes fail, the program restarts with blocking on or off.
`wished` and `risky` are ghosts: what the panel reported as allowed, and those of
them that another step got in the way of.

### Server with QueryLog

`task[g]` is one goroutine: a UDP packet, a connection with one message after the
other, or a DoH request, and where it is in `handleDNSMessage`. Its query is
counted (`Accept`), answered (`Answer`, a choice of status), logged (`Log`, which is
`QueryLog`'s `Add`) and replied to, and anything in it may panic; the deferred
functions are `Release`. `entries`, `timeSeries` and `domainCounts` are the log's
two rings and its counters; each of its operations holds the lock and is one step.
`answerQuery` and the `IncrementCached` after it are one action. The panel's
readers (`Recent`, `TimeSeries`) are functions of the state.

### Wire

A message is a sequence of bytes, with the sizes of the format as constants: `Byte`
values, pointers from `PtrBits` on, `MaxLabel`, `MaxName`, `MaxJumps`. `ReadStep` is one
round of `readName`'s loop; `ReadName` is its fixed point, a recursive function. `Read`
reads a message's first name round by round, `Answer` parses the whole message and hands
its records to `buildReply`, whose result `ParseMessage` reads again as a client would.
Records have a name, a type, a length and data that is or is not a name.

## 3. The runs

| Run | Question | Result |
|---|---|---|
| `SystemDNS_sound` | Can the backup always take back what was done, with failing writes, crashes and a tool between the goroutines' calls? | holds: `IInv`, `Restorable`, `PointedHasBackup`, `DropOnlyRestored`, `PromiseKept` |
| `SystemDNS_anyFault` | What survives even the faults the code has no answer to? | holds: `SysTypeOK`, `OriginalKept` |
| `Protection_safety` | Is "off" on the panel true, over two runs with and without root, failing writes and a restore from outside? | holds: `OffMeansClean`, `TypeOK` |
| `Protection_stop` | Does closing the program give the machine back, on a systemd-resolved host with a click, a lease, shutdown and handoff; does the file keep the setting? | holds: `StoppedClean`, `SettingKept` |
| `Protection_live` | Does protection come on, and go off when the network stays away? | holds: `ComesOn`, `FailSafeWorks` |
| `Protection_off` | Does "off" end in a restored machine, over a crash? | holds: `OffIsOff` |
| `DNSCache_queries` | Are equal queries one, does everybody get woken, are the size limit and the TTLs kept, is a failure answered from the cache while it may be? | holds: `SizeBound`, `OneFlight`, `Awaited`, `DataFresh`, `LastResort`, `CacheTypeOK` |
| `Lookup_walks` | Can lying servers or a device on the way make anything said of honest names false; can servers that are silent, moved or in need of each other hold a walk up, multiply its work or cost an answer? | holds: `Undeceived`, `Descends`, `Closer`, `FailsOnlyIfLost`, `Ends`, `LookupTypeOK` |
| `Blocklist_lists` | Does memory follow the files, does what was allowed stay allowed, do new lists come into force? | holds: `InStep`, `AllowKept`, `Converges`, `BlockTypeOK` |
| `Blocklist_allowLost` | Does `allowlist.txt` keep what the panel reported as allowed? | violated: `AllowStays` |
| `Server_traffic` | Do slots come back, do the numbers agree, does the log show what it should while its rings wrap around? | holds: `SlotsExact`, `SlotsComeBack`, `CountsAgree`, `ShowsRecent`, `ChartComplete`, `CountsHonest`, `ServerTypeOK` |
| `Wire_messages` | Does reading end, do names fit, does a copied record mean the same? | holds: `ReadEnds`, `NamesFit`, `CopySafe` |

`Undeceived` deserves a word: records whose owner lies outside the sender's zone are
dropped (`inZone`), referrals must lead down and towards the name (`referral`), and what
is not authoritative counts neither as an answer nor as a denial (`classify`); each of
the three is needed. `glueAddrs`' own check of the owner is not: a delegation's servers
are in the power of the zone that delegates in any case.

### Known disagreements

The violated run is a disagreement of the code with its own words, with the quoted line in
`PROJECT.json` under `findings`: before the first load has ended, and at all times while
blocking is off, `Allow` writes `allowlist.txt` from a memory that never read it. What was
in the file is gone.

Others came to light while modelling. The models contain them; the listed runs avoid
them by the constants named here, and changing those makes TLC show each one:

| Disagreement | Where | How to see it |
|---|---|---|
| A backup is taken for active protection: a crash between the first `saveBackup` and the first write leaves a backup over an untouched machine; the next run believes itself active and never redirects it. | `sysdns.go:86`, `107` | `Protection_live` with `MaxRuns = 2`: `ComesOn` |
| A replaced stub link is not noticed: `reconcileSystemDNS` looks at `resolv.conf` only if Ceky wrote it. | `sysdns_linux.go:181` | `Protection_live` with `UserFiles <- StubHost`, `StubFiles <- TheStub`, `Links <- TheStub`, `ResolvedActive = TRUE`: `ComesOn` |
| The older setting may be saved last: the config is copied under `mu` and written after it. | `app.go:560` | `Protection_stop` with `Panels <- TwoPanels`, `Threads <- WithPanels`, `MaxClicks = 2`: `SettingKept` |
| A crash while `config.json` is written leaves it empty, and every start writes it: the next run works with the defaults, protection wanted, whatever the user chose. | `config.go:186` | `Protection_stop` with `MaxRuns = 2`: `SettingKept` |
| `restore` and the application share no lock; the backup can be deleted under a redirected machine. | `main.go:191` | `Protection_safety` with `Faults <- Overlap`: `Restorable` |
| No data behind an alias counts as data: it is kept for the CNAME's TTL, up to a day, instead of at most `maxNegTTL`. | `resolver.go:153` | `DNSCache_queries` with `TTLs = {1, 4}`: `NoDataBounded` |
| A request that changes the allow list before `Load` replaces the lists, and writes it after `Load` has read `allowlist.txt`, is undone in memory; the next loads find as many domains as before and give up, so that it stays undone until a list changes its size or is downloaded. | `blocklist.go:288`, `294` | `Blocklist_lists` without `risky` in `AllowKept` |

A comment at `dns.go:105` says that pointers that only lead back make loops impossible. They
do not (a label in front of the pointer may be read again and again); the limits on jumps and
on the name's length end the reading, and `ReadEnds` and `NamesFit` hold because of them.

### Bounds

* `SystemDNS`: two goroutines and one tool, enough for one caller inside, one
  waiting for `opMu` and one that ignores it; two user files (the stub link, a
  plain file), so that a second snapshot could differ from the first. Nothing else
  is bounded: callers come back for ever.
* `Protection`: `MaxRuns` 1 or 2 (a crash or stop and the run after it), one
  click at most, one restore, one lease; the streaks stop at their thresholds. Each run
  names the events it leaves at zero.
* `DNSCache`: two clients, an alias and a target whose zone is served by the
  alias's name (the smallest circle), one entry of room, depth 1, one TTL for data
  and one for no data, small clamps in place of 10/86400/30/3600 seconds, a clock to 5.
  That is room for: ageing, expiry, the window of stale answers, its end, and
  eviction of an entry that is still fresh. `MaxUses` 3 allows two clients to coalesce
  and one to come back, or a flush in between. `MaxLag` 1: a query lasts at most one
  unit, which `DataFresh` allows for in `Slack`. The clients are interchangeable, hence
  the symmetry.
* `Lookup`: a root, an honest zone, one below it whose server is named without an
  address and which holds an alias back up, a lying zone with ten messages (answers about others,
  referrals up, down, sideways, to itself, to names that need themselves). One walker asks
  for an honest name, the other for the alias or for the liar's: one walk learns what the
  other uses. `MaxDepth` 1 and `MaxSteps` 4 instead of 12 and 24, `MaxTries` 2 instead of 4: enough for
  root, zone, zone below and restart, and for each limit to be what stops a walk. UDP is
  intercepted, TCP is not. 91,210 states. `LimitsHold` checks that this world meets the hypothesis
  of `FailsOnlyOnLoss`, and that the alias is a name that it is about and needs the one level.
* `Blocklist`: one source with two lists of equal size, a site, a host below it, another
  site and a name that is no list entry, two requests at a time, `MaxAllows` 2, `MaxRuns` 2:
  two requests overlap each other, a load and a restart. `MaxAllows` 3 was checked too
  (1.57 million states). 232,368 states.
* `Server`: two goroutines for one slot of each kind, so that a slot can run out; two domains
  with one counter, so that counters are pruned; rings of two entries and two points. `MaxTime`
  4 because the ring of points wraps around in the fourth second with a query only, and
  `MaxMessages` 4 for the same reason. 462,028 states.
* `Wire`: bytes of three bits, the two upper values as pointers, labels of up to two bytes, names of up to
  six, `MaxJumps` 2; some 2,000 messages of one to three records with owners and data that point forward,
  back, at themselves, into other records' data. Replies are limited to 14 bytes or not at all;
  `MaxOffset` 14 lets a name lie beyond the reach of pointers. 187,590 states.

Deadlock is checked in the two `SystemDNS` runs and the `Blocklist` runs, which never stop. The
others stop legitimately: the program exits, questions are answered, or clock and uses run out.

### Fairness

* `Protection`: `Fairness` assumes what Go's scheduler and
  `sync.Mutex` give: a goroutine that can go on does (weak fairness on each
  goroutine's steps and on its calls into `SystemDNS`); a goroutine that waits for
  `opMu` gets it in the end although others take it again and again (strong fairness
  on the locking steps: `sync.Mutex` hands over to a waiter after 1 ms); a closed
  `stop` is noticed; the tools run on. Nothing is assumed of the users, the
  network, DHCP, crashes and restarts: the properties say "if it stays so from some
  time on". The disk in these runs does not fail for ever (`io` is not in their
  `Faults`): with writes that keep failing nothing could come on.
* `Lookup`: weak fairness of what a goroutine does alone, deadlines of exchanges
  included (`SetDeadline`). No reply is assumed ever to arrive.
* `Blocklist`: the loader goes on, its ticker ticks, and a day passes for a copy in the end. The
  network and the sources are free: `Converges` is about those that stay as they are.
* `Server`: weak fairness of each goroutine's steps, a stream's read deadline of ten seconds
  among them. Nothing is assumed of clients.
* `Wire`: the reader goes on; a loop has no choice.

## 4. The proofs

TLAPS checks the following for every value of the constants that satisfies the
named assumptions (`ConstantsAssumption`, `ProtectionAssumption`,
`CacheAssumption`, `BlocklistAssumption`, `LogAssumption`, `ServerAssumption`, `WireAssumption`, `QuestionAssumption`: constants
are distinct or in their types, limits that the code needs to be positive are; `WorldAssumption`,
`LimitAssumption` are described below). `PROJECT.json` lists the theorems.

**SystemDNS_proofs.** `TypeCorrect` holds under any fault. The rest assumes
`Answerable == Faults \cap Unanswered = {}`: writes fail, leases arrive and
processes die, but none of the four things happens that the code has no answer to.
`Restorable` is not inductive: it says nothing while a procedure runs. `IInv` adds
what is true then: no goroutine works without the lock (`LockHeld`), one actor at
most is inside a procedure (`OneBusy`), and for each label what the disk and the
actor's copy of the backup are (`BusyInv`): from the first write on the copy
in memory covers every change (`Working`), before it the machine is untouched
(`Planned`), and along the restoration the places already restored are clean. A
crash falls back to `Sound` because the flags on disk are those of the copy
everywhere but between the first write and the second save; that is where
`Answerable` is used. The proof has one lemma per procedure and one step per action.
`AlwaysRestorable`, `AlwaysBackedUp` follow; `KeepsPromise` shows by the same invariant
that each step is a step of `SafeRedirect` or leaves its state alone.
`ErrorsAreReported` is what a caller may conclude when `disableSystemDNS` returns without an
error: the backup is gone, and stays so while the caller holds `opMu` (`Returned`). While writes
succeed and leases come only where `resolv.conf` is no link (`Undisturbed`), it does not fail (`Smooth`).
`FirstFileKept` needs no `Answerable`: whoever will write the backup holds `opMu` and has the file of the one
on disk, if there still is one (`KeptInv`); the tools only delete. `DroppedWhenRestored` follows `resolv.conf` through every
procedure (`FileInv`): without DHCP clients it is Ceky's or the saved file, or it is missing for the one step between
a link's removal and its return, and then the backup, or the actor, knows that it has to come back.

**Protection_proofs.** `Composition` shows that each step of the controller, the
panel and the command line is a step `SystemDNS` allows its callers or none of
its business, so that `ProtectionRestorable` and `ProtectionKeepsPromise` follow from
the theorems about arbitrary callers. The controller's own promises rest on `ControlInv`: every
goroutine holds `opMu` in exactly the places of its code between lock and unlock (`CtlInv`), and a
process that does not show itself active has no backup on disk or a call under way that will say
what became of it (`Honest`); the steps that end a call use `Returned`. `OffIsTrue` follows for any number of panel
requests, tools, failing writes, crashes and restarts. `StoppedIsClean` adds what holds from the
moment `stop` is closed (`StopInv`): once the shutdown is over nobody who still waits for `opMu` will
redirect the machine. It assumes `Undisturbed`: a restoration that fails keeps the backup, as it must.
`SettingIsKept` says when `config.json` keeps what the user chose. `SettingKept` is false in general (section 3 lists
the two ways under *Known disagreements*); the theorem shows that there is no third, for any number of panels, tools, restarts
and under any fault: `SettingKept` holds as long as no two goroutines write the file at the same time (`SavesApart`) and no process
starts from a file that a crash left empty (`WholeAtStart`). The invariant adds that whoever is
saving has the setting in memory as its draft (`DraftsKept`).

**DNSCache_proofs.** `CacheTypeCorrect` needs, beside the types, the shape of a
client's stack (`Stacked`): nonempty while it works, its own name at the bottom, alone
while it joins or waits. `SizeBounded` rests on `EvictedMakesRoom`: whatever
`evictLocked` drops leaves room for one entry, since a tenth of the limit plus one is
at least one. `OneFlight` and `Awaited` are two views of `FlightInv`: table and clients
agree in both directions. `OneFlight` is its first half; a waiter can be sure of its
leader because the entry it found in the table named a leader at work on the same name,
and a leader leaves the table first and wakes its waiters with its last step
(`Coalesced`, `NobodyWaitsInVain`). `NoAnswerLost` (`LastResort`) rests on `GoodInv`: as long as
a good answer is owed, its entry is in the cache and may still be served stale. Aliases and servers are
arbitrary functions there: the circle of the TLC instance is one of them.

**Blocklist_proofs.** `MemoryInStep` needs to know what `Load` has gathered when it is half way
(`Gathering`: the user's list and the copies of the sources it is done with), and that the lists in memory
are the files' unless something was downloaded (`Following`); sizes decide nothing then, for equal
sizes without a download are equal lists. `AllowedStaysAllowed` adds `Alone` (a request that found nothing under
way and was not disturbed has the list in memory to write) and `Keeping` (what is wished and at no risk is in
memory, in the file, in what `Load` has read and in what any request will write).

**Server_proofs.** `SlotsAlwaysExact` counts the goroutines of a kind; each step moves one in or out.
`CountsAlwaysAgree` counts those between the query's two counters. `LogKeepsPromise` shows the ring of any size
to implement `RecentLog`: the entry `i` back is the slot `i` behind the next one, modulo the size (`Behind`,
`JustWritten`). `ChartAlwaysComplete` rests on `ChartInv`: the point `i` back in the ring is at
least `i` seconds older than the current one, so that the one overwritten has left the window.
`CountsAlwaysHonest` shows that pruning only forgets, and that it does not start while there is room.

**Recursion.** The library's induction theorems are about operators, which none of the installed provers
instantiates; `Induction` and `BoundedInduction` say the same of sets of numbers, and follow from the
well-foundedness of `<` (`LeastNumber`). What a recursive function computes is proved with them: first that a
function with the equations of its definition exists, so that the `CHOOSE` behind it has one (`Repeated` in general;
`FlattenSteps`, `ReadNameSteps`, `ParseSteps`, `TargetSteps`, `BuildSteps` where the equations are not of that form), then by induction on the argument.

**DNSCache: AnswersStayFresh** (`DataFresh`). An answer may outlive its owner's TTL because each level of aliases
clamps what it caches to at least `MinTTL` and takes up to `MaxLag`: an answer behind `k` levels by
`Grace(k) == k * (MinTTL + MaxLag)`. `FreshInv` says of each entry and of each answer in hand which `k` explains
its age (`Path`: the chain of `k` names that leads from it to a name without an alias). A chain that ends meets no name twice
(`PathShort`, by induction along the chain), so `k` is at most the number of names; that is the `Slack` of
`DataFresh`. Answers without records are put behind no alias and have the slack of one clamp.

**Lookup_proofs.** `NobodyDeceived` (`Undeceived`) holds for any tree of zones, any lies, any number of walkers and any
limits. `WorldAssumption` says what the world is like: a name has one kind of data; parents of honest zones are honest,
and so are the names of their servers; two addresses that serve one zone serve the same names; what is published can
be reached, also after a move. `LookupInv` says of each frame that its zone is above its name
and its servers serve that zone if the zone is honest; of the zone cache the same; of each returned answer that it is true
if it is about an honest name. The step that matters is a reply's: whoever sends it, what `InZone`, `Cuts` and `GlueAddrs`
leave of it (`SoundReply`) is true or about names that are not honest, and the chain that `FollowChain` puts together of it leads
from truth to truth (`ChainFollowed`, by induction over its rounds). `LookupTypesCorrect` includes that stacks and
counters keep within their limits; `WalksDescend` (`Descends`) that a walk goes down or starts again, once.

**Lookup_proofs: FailsOnlyOnLoss** (`FailsOnlyIfLost`). For arbitrary limits it is false; the theorem assumes `LimitsSuffice`, which
says which suffice: the zones on the way to an honest name are at least two fewer than `MaxSteps`; an honest zone
has fewer addresses that are not published than `MaxTries`; one root server stays where it is. With the code's 24 and 4
that is a tree less than 23 zones deep whose zones have given up at most three addresses each. The invariant is not
inductive: it speaks of returns only. `SureInv` says of each level of a walk that has lost nothing, if its name is
`Resolvable`, that it cannot fail: after the first step its servers include one in use, and none of those tried is in use;
steps and zones still below add up to no more than the zones on the way (one more after the restart); the names it
needs can be resolved with a level less; an answer that comes back is no failure and has an address in use wherever the name has
addresses. `ServedInv` says of the world that a zone has never more than `MaxTries - 1` addresses out of use. The delicate
action is `GiveUp`: that all servers failed is possible only at step 0, from stale servers of the zone cache, when the restart
is unused, and after it the roots are asked. `SureReturns` and `SureCalls` hand the claim from one level to the next.

**Lookup_proofs: StepsLeaveLess** (`Closer`) needs no hypothesis on world or limits. `SmallInv` bounds what the type invariant
does not: steps by `MaxSteps`, tried servers by `MaxTries` and tried names by `MaxNS` in their phases, with `f.tried` finite; then each action
is one of three, a step within the innermost frame (`NearerStays`), a call (`NearerCalls`) or a return (`NearerReturns`),
and `Left` gets less by at least one. The work on a question is thus at most the number of values of `Todo`,
a figure of the limits alone. That walks do end (`Ends`) follows with the fairness that only TLC checks.

**Wire_proofs.** `NameIsRead`: whatever bytes a message has and wherever in it reading begins, `readName` ends after at most
`MaxJumps + MaxName` rounds, with an error or a name within the limits; each round but the last adds to jumps or
size (`Rounds`), and both are limited. `NamesAlwaysFit` (`NamesFit`) is the same invariant, `SoundReader`, along the steps of
`Read`. `WrittenNameRead` and `PointedNameRead` are about the two ways a name is written: where the bytes of a name stand, and where
a pointer to them stands, `readName` finds that very name and the place behind it. `CopiesAreSafe` (`CopySafe`) goes on from there.
A reader that is done in what a message begins with would have done the same in the message (`ReadAlike`), so that
cutting the message at the end of a record's data changes nothing; what `parseRecord` accepts is a record whose data fits its
length and, where the type says so, is a name written out (`Records`, `RecordParsed`). A builder knows of each name it may point to
that it stands where a pointer can reach it (`SoundBuilder`), and writing more disturbs nothing (`Extended`): a name, and then a
record, is read again whatever is written after it (`NameAfter`, `RecordAfter`). `BuiltMessageParsed` puts the records of a message together by induction over them.
The last step compares the names that the data stand for in the two messages (`NamesOf`). The assumptions are that one length
field holds any name, one pointer any offset that is kept, and the smallest limit a header and a question, as 255, 0x3FFE and 512 do.

**Only model-checked.** Every invariant, action property and refinement that a passing run checks is a theorem. The
liveness properties (`ComesOn`, `FailSafeWorks`, `OffIsOff`, `Converges`, `SlotsComeBack`, `Ends`, `ReadEnds`) rest on fairness
and `ENABLED`, which are beyond the prover; for the last two, `Closer` and `NameIsRead` prove the bound on the steps that they need. `AllowStays` is false.

## 5. What is abstracted, and what is not modelled

* `os.Remove` succeeds; the write of `config.json` does not fail (it may be torn by a
  crash). Reads just before a write belong to the write's action.
* The resolver's effect on the controller is the Boolean `net`.
* A query's lookups take time but not more than `MaxLag` in `DNSCache`; the code has no such bound
  on the whole query, only on each exchange (`Lookup` has no clock).
* Two effects seen while modelling `DNSCache`, in nobody's promise: a stale
  sub-answer is cached under the alias as fresh, so that the one-day window starts
  again (`DataFresh` is therefore about answers without stale parts), and a failure is
  not cached over an old good answer, so that `servFailTTL` does not protect the servers
  then.
* `Lookup` asks for addresses only; query identifiers and ports are
  not modelled, replies that do not fit their question count as lost.
* The clock of `QueryLog` is never set back, and a point's mean response time is left out.
* `Wire` has no labels with a dot in them, no record with data before a name (MX, SRV, SOA), no EDNS option,
  and no length prefix of streams, which a reply beyond 65535 bytes would wrap.
* Not modelled: local names and forwarders (a look-up by suffix and one question to the modem), `Probe` and
  `Trace`, building of queries, opening and closing of listeners, HTTP, TLS certificates, JSON and HTML, the
  sorting of the panel's top lists, service registration, system DNS on Windows and macOS (what their commands do
  to the system would be guesswork), installers and packaging. `PROJECT.json` gives the reason for each.

## 6. What is left

| Content | Worth proving |
|---|---|
| `Probe` and `forceTCP` with the controller's `net`, instead of a choice | |
| the merge of defaults in `config.go`, the copying of files in `installFromPanel` | |
| records with data before a name, EDNS and error replies in `Wire` | |
| | a closed bound on the questions sent for one, from `Closer` |
