-------------------------- MODULE Blocklist_proofs --------------------------
(***************************************************************************)
(* Proofs about Blocklist, for any names, sources, lists and requests:     *)
(* types, memory in step with the files, and that what was allowed with    *)
(* nothing else going on stays allowed.                                    *)
(***************************************************************************)
EXTENDS Blocklist, TLAPS

\* The copies of these sources, with the user's own list.
ListsOf(some) == Custom \cup UNION {copies[s] : s \in {q \in some : copies[q] # NoCopy}}

\* What Load has put together so far.
Gathering ==
  /\ Loading => loader.domains = ListsOf(Sources \ loader.todo)
  /\ loader.at = "replace" => loader.todo = {}

\* Nothing is in force before the first load; from then on the lists in
\* memory are the files' but for what the present load has downloaded.
Following ==
  /\ Early => domains = {}
  /\ Loading /\ loader.update /\ ~loader.downloaded => domains = ListsOf(Sources)

StepInv == BlockTypeOK /\ Gathering /\ Following /\ InStep

\* The domains the program must not block.
Kept == wished \ risky

\* A request that began alone is so: no load, no other request.
Alone ==
  \A p \in Panels : panel[p].alone =>
    /\ ~Loading
    /\ panel[p].allowed => panel[p].domain \in allow
    /\ \A q \in Panels \ {p} : panel[q].at = "idle"

\* Whatever is written next, and whatever is put in force next, keeps them.
Keeping ==
  /\ Kept \cap Unlistable = {}
  /\ Kept \subseteq allowFile
  /\ ~Early => Kept \subseteq allow
  /\ loader.at = "replace" => Kept \subseteq loader.allow
  /\ \A p \in Panels : panel[p].at = "write" =>
       /\ Kept \subseteq panel[p].list
       /\ panel[p].allowed => panel[p].domain \in panel[p].list

KeepInv == StepInv /\ Alone /\ Keeping

-----------------------------------------------------------------------------
(* Types *)

LEMMA IdleType == Idle \in LoaderStates /\ NoRequest \in RequestStates
BY DEF Idle, LoaderStates, NoRequest, RequestStates

LEMMA DisturbedType ==
  ASSUME BlockTypeOK
  PROVE  Disturbed \in [Panels -> RequestStates]
<1> SUFFICES ASSUME NEW p \in Panels PROVE [panel[p] EXCEPT !.alone = FALSE] \in RequestStates
  BY DEF Disturbed
<1>1. CASE panel[p] = NoRequest
  <2>1. NoRequest.alone = FALSE /\ DOMAIN NoRequest = {"at", "list", "domain", "allowed", "alone"}
    BY DEF NoRequest
  <2>2. [NoRequest EXCEPT !.alone = FALSE] = NoRequest
    BY <2>1 DEF NoRequest
  <2> QED BY <1>1, <2>2, IdleType
<1>2. CASE panel[p] # NoRequest
  BY <1>2 DEF BlockTypeOK, RequestStates
<1> QED BY <1>1, <1>2

\* A list from a source holds no name that is refused: it is taken whole.
LEMMA EditionsListable ==
  ASSUME NEW e \in Editions
  PROVE  Entries(e) = e /\ e \subseteq Names \ Unlistable /\ e # NoCopy
BY BlocklistAssumption DEF Entries

LEMMA BeginLoadType ==
  ASSUME BlockTypeOK, NEW update \in BOOLEAN, BeginLoad(update)
  PROVE  loader' \in LoaderStates
BY BlocklistAssumption DEF BeginLoad, LoaderStates

\* One source's list is added to what was gathered.
LEMMA LoadSourceType ==
  ASSUME BlockTypeOK, LoadSource
  PROVE  BlockTypeOK'
<1>1. PICK s \in loader.todo :
        LET new == Due(s) /\ reachable
            copy == IF new THEN web[s] ELSE copies[s]
        IN  /\ copies' = [copies EXCEPT ![s] = copy]
            /\ old' = IF new THEN old \ {s} ELSE old
            /\ loader' = [loader EXCEPT !.todo = @ \ {s}, !.downloaded = @ \/ new,
                            !.domains = IF copy = NoCopy THEN @ ELSE @ \cup Entries(copy)]
  BY DEF LoadSource
<1> DEFINE new == Due(s) /\ reachable
           copy == IF new THEN web[s] ELSE copies[s]
<1>2. s \in Sources
  BY DEF BlockTypeOK, LoaderStates
<1>3. copy \in Editions \cup {NoCopy} /\ (new => copy \in Editions)
  BY <1>2 DEF BlockTypeOK
<1>4. copy # NoCopy => Entries(copy) \subseteq Names \ Unlistable
  BY <1>3, EditionsListable
<1>5. new \in BOOLEAN
  BY DEF BlockTypeOK, Due
<1>6. copies' \in [Sources -> Editions \cup {NoCopy}]
  BY <1>1, <1>3 DEF BlockTypeOK
<1>7. loader' \in LoaderStates
  BY <1>1, <1>4, <1>5 DEF BlockTypeOK, LoaderStates
<1>8. old' \subseteq {q \in Sources : copies'[q] # NoCopy}
  BY <1>1, <1>2, <1>3, BlocklistAssumption DEF BlockTypeOK
<1> QED BY <1>6, <1>7, <1>8 DEF BlockTypeOK, LoadSource, memory, outside, ghosts, counters

LEMMA AllowType ==
  ASSUME BlockTypeOK, NEW p \in Panels, NEW d \in Asked, NEW allowed \in BOOLEAN,
         Allow(p, d, allowed)
  PROVE  BlockTypeOK'
<1>1. d \in Names
  BY BlocklistAssumption
<1>2. Listed(d, allowed) \in SUBSET Names
  BY <1>1 DEF Listed, BlockTypeOK
<1>3. panel' \in [Panels -> RequestStates]
  <2> DEFINE q == [at |-> "write", list |-> Listed(d, allowed), domain |-> d, allowed |-> allowed,
                   alone |-> ~Loading /\ \A r \in Panels : panel[r] = NoRequest]
  <2>1. q \in RequestStates
    BY <1>1, <1>2 DEF RequestStates
  <2>2. panel' = [Disturbed EXCEPT ![p] = q]
    BY DEF Allow
  <2> QED BY <2>1, <2>2, DisturbedType
<1>4. uses' \in 0 .. MaxAllows
  BY BlocklistAssumption DEF Allow, BlockTypeOK
<1>5. allow' \subseteq Names /\ wished' \subseteq Names /\ risky' \subseteq Names
  BY <1>1 DEF Allow, BlockTypeOK
<1> QED BY <1>3, <1>4, <1>5 DEF BlockTypeOK, Allow, disk, outside

LEMMA SaveType ==
  ASSUME BlockTypeOK, NEW p \in Panels, Save(p)
  PROVE  BlockTypeOK'
<1>1. panel[p] \in RequestStates
  BY DEF BlockTypeOK
<1>2. allowFile' \subseteq Names
  BY <1>1 DEF Save, RequestStates, NoRequest
<1>3. panel' \in [Panels -> RequestStates]
  BY IdleType DEF Save, BlockTypeOK
<1>4. wished' \subseteq Names /\ risky' \subseteq Names
  BY <1>1 DEF Save, RequestStates, NoRequest, BlockTypeOK
<1> QED BY <1>2, <1>3, <1>4 DEF BlockTypeOK, Save, memory, outside, counters

LEMMA TypeStep ==
  ASSUME BlockTypeOK, [Next]_vars
  PROVE  BlockTypeOK'
<1> USE DEF memory, disk, outside, ghosts, counters
<1>1. CASE Loader
  <2>1. CASE Start
    BY <2>1, BeginLoadType, DisturbedType DEF BlockTypeOK, Start
  <2>2. CASE Wake
    BY <2>2, BeginLoadType, DisturbedType DEF BlockTypeOK, Wake
  <2>3. CASE LoadSource
    BY <2>3, LoadSourceType
  <2>4. CASE LoadAllow
    <3>1. loader' \in LoaderStates
      BY <2>4 DEF LoadAllow, BlockTypeOK, LoaderStates, Entries
    <3> QED BY <2>4, <3>1 DEF BlockTypeOK, LoadAllow
  <2>5. CASE Replace
    <3>1. loader' \in LoaderStates
      BY <2>5 DEF Replace, LoaderStates, Idle
    <3>2. domains' \subseteq Names /\ allow' \subseteq Names
      BY <2>5 DEF Replace, BlockTypeOK, LoaderStates
    <3> QED BY <2>5, <3>1, <3>2 DEF BlockTypeOK, Replace
  <2> QED BY <1>1, <2>1, <2>2, <2>3, <2>4, <2>5 DEF Loader
<1>2. CASE Requests
  <2>1. ASSUME NEW p \in Panels, SaveFails(p) PROVE BlockTypeOK'
    BY <2>1, IdleType DEF BlockTypeOK, SaveFails
  <2> QED BY <1>2, <2>1, AllowType, SaveType DEF Requests
<1>3. ASSUME NEW on \in BOOLEAN, Switch(on) PROVE BlockTypeOK'
  BY <1>3, BeginLoadType, DisturbedType DEF BlockTypeOK, Switch
<1>4. CASE Restart
  <2>1. runs' \in 1 .. MaxRuns
    BY <1>4, BlocklistAssumption DEF BlockTypeOK, Restart
  <2> QED BY <1>4, <2>1, IdleType DEF BlockTypeOK, Restart
<1>5. CASE Environment
  <2>1. ASSUME NEW s \in Sources, Age(s) PROVE BlockTypeOK'
    BY <2>1 DEF BlockTypeOK, Age
  <2>2. ASSUME NEW s \in Sources, NEW e \in Editions, Publish(s, e) PROVE BlockTypeOK'
    BY <2>2 DEF BlockTypeOK, Publish
  <2>3. CASE Network
    BY <2>3 DEF BlockTypeOK, Network
  <2> QED BY <1>5, <2>1, <2>2, <2>3 DEF Environment
<1>6. CASE UNCHANGED vars
  BY <1>6 DEF BlockTypeOK, vars
<1> QED BY <1>1, <1>2, <1>3, <1>4, <1>5, <1>6 DEF Next

LEMMA TypeInit == Init => BlockTypeOK
<1> SUFFICES ASSUME Init PROVE BlockTypeOK
  OBVIOUS
<1> QED BY IdleType, BlocklistAssumption DEF Init, BlockTypeOK

\* No variable leaves its type, and nothing that validListDomain refuses comes
\* into force from a file (loadListFile).
THEOREM TypesCorrect == Spec => []BlockTypeOK
BY TypeInit, TypeStep, PTL DEF Spec

-----------------------------------------------------------------------------
(* Memory and files *)

LEMMA ListMembers ==
  ASSUME NEW some
  PROVE  /\ \A x : x \in ListsOf(some) <=>
              x \in Custom \/ \E s \in some : copies[s] # NoCopy /\ x \in copies[s]
         /\ \A x : x \in ListsOf(some)' <=>
              x \in Custom \/ \E s \in some' : copies'[s] # NoCopy /\ x \in copies'[s]
BY DEF ListsOf

\* A load begins from what InStep says, or from nothing.
LEMMA BeginLoadSteps ==
  ASSUME StepInv, NEW update \in BOOLEAN, BeginLoad(update),
         update => loader.at = "waiting", ~update => loader.at = "off",
         UNCHANGED <<memory, copies>>
  PROVE  Gathering' /\ Following' /\ InStep'
<1> USE DEF memory
<1>1. /\ loader'.at = "sources" /\ loader'.update = update /\ loader'.todo = Sources
      /\ loader'.domains = Custom
  BY DEF BeginLoad
<1>2. ListsOf(Sources \ Sources)' = Custom
  BY ListMembers
<1>3. Gathering' /\ InStep'
  BY <1>1, <1>2 DEF Gathering, Loading, InStep, ListsOf
<1>4. Early' => domains' = {}
  BY <1>1 DEF StepInv, Following, Early, Loading
<1>5. update => domains = ListsOf(Sources)
  BY DEF StepInv, InStep, Local, ListsOf
<1> QED BY <1>1, <1>3, <1>4, <1>5 DEF Following, Loading, ListsOf

LEMMA LoadSourceSteps ==
  ASSUME StepInv, LoadSource
  PROVE  Gathering' /\ Following' /\ InStep'
<1>1. PICK s \in loader.todo :
        LET new == Due(s) /\ reachable
            copy == IF new THEN web[s] ELSE copies[s]
        IN  /\ copies' = [copies EXCEPT ![s] = copy]
            /\ old' = IF new THEN old \ {s} ELSE old
            /\ loader' = [loader EXCEPT !.todo = @ \ {s}, !.downloaded = @ \/ new,
                            !.domains = IF copy = NoCopy THEN @ ELSE @ \cup Entries(copy)]
  BY DEF LoadSource
<1> DEFINE new == Due(s) /\ reachable
           copy == IF new THEN web[s] ELSE copies[s]
<1>2. loader \in LoaderStates /\ s \in Sources /\ loader.todo \subseteq Sources /\ loader.at = "sources"
  BY DEF StepInv, BlockTypeOK, LoaderStates, LoadSource
<1>3. copies \in [Sources -> Editions \cup {NoCopy}] /\ copy \in Editions \cup {NoCopy}
  BY <1>2 DEF StepInv, BlockTypeOK
<1>4. /\ loader'.at = "sources" /\ loader'.update = loader.update
      /\ loader'.todo = loader.todo \ {s}
      /\ loader'.downloaded = (loader.downloaded \/ new)
      /\ loader'.domains = IF copy = NoCopy THEN loader.domains ELSE loader.domains \cup copy
  BY <1>1, <1>2, <1>3, EditionsListable DEF LoaderStates
<1>5. copies' = [copies EXCEPT ![s] = copy]
  BY <1>1
<1> HIDE DEF copy
<1>6. loader'.domains = ListsOf(Sources \ loader.todo)'
  <2>1. loader.domains = ListsOf(Sources \ loader.todo)
    BY <1>2 DEF StepInv, Gathering, Loading
  <2>2. ASSUME NEW x PROVE x \in loader'.domains <=> x \in ListsOf(Sources \ loader.todo)'
    <3>1. x \in loader'.domains <=>
            x \in Custom \/ (\E q \in Sources \ loader.todo : copies[q] # NoCopy /\ x \in copies[q])
            \/ (copy # NoCopy /\ x \in copy)
      BY <1>4, <2>1, ListMembers
    <3>2. x \in ListsOf(Sources \ loader.todo)' <=>
            x \in Custom \/ \E q \in Sources \ loader'.todo : copies'[q] # NoCopy /\ x \in copies'[q]
      BY ListMembers
    <3> QED BY <1>2, <1>3, <1>4, <1>5, <3>1, <3>2
  <2> QED BY <2>2
<1>7. Gathering' /\ InStep'
  BY <1>4, <1>6 DEF Gathering, InStep
<1>8. UNCHANGED domains
  BY DEF LoadSource, memory
<1>9. Early' => domains' = {}
  BY <1>2, <1>4, <1>8 DEF StepInv, Following, Early, Loading
<1>10. ~new => copies' = copies
  BY <1>2, <1>3, <1>5 DEF copy
<1>11. ~new /\ loader.update /\ ~loader.downloaded => domains' = ListsOf(Sources)'
  BY <1>2, <1>8, <1>10 DEF StepInv, Following, Loading, ListsOf
<1> QED BY <1>4, <1>7, <1>9, <1>11 DEF Following, Loading

LEMMA ReplaceSteps ==
  ASSUME StepInv, Replace
  PROVE  Gathering' /\ Following' /\ InStep'
<1>1. loader'.at = "waiting"
  BY DEF Replace, Idle
<1>2. loader.domains = ListsOf(Sources)
  <2>1. Sources \ {} = Sources
    OBVIOUS
  <2> QED BY <2>1 DEF StepInv, Gathering, Loading, Replace
<1>3. domains' = ListsOf(Sources)
  <2>1. CASE ~Unchanged
    BY <1>2, <2>1 DEF Replace
  <2>2. CASE Unchanged /\ loader.update
    BY <2>2 DEF Replace, Unchanged, memory, StepInv, Following, Loading
  <2>3. CASE Unchanged /\ ~loader.update
    BY <1>2, <2>3 DEF Replace, Unchanged, memory, StepInv, Following, Early, Loading
  <2> QED BY <2>1, <2>2, <2>3
<1>4. InStep'
  BY <1>3 DEF InStep, Local, ListsOf, Replace, disk
<1> QED BY <1>1, <1>4 DEF Gathering, Following, Early, Loading

\* What leaves the loader, its lists and the copies alone, or ends the program.
LEMMA QuietSteps ==
  ASSUME StepInv,
         \/ UNCHANGED <<loader, domains, copies>>
         \/ loader' = Idle /\ domains' = {}
  PROVE  Gathering' /\ Following' /\ InStep'
BY DEF StepInv, Gathering, Following, InStep, Early, Loading, Local, ListsOf, Idle

LEMMA LoadAllowSteps ==
  ASSUME StepInv, LoadAllow
  PROVE  Gathering' /\ Following' /\ InStep'
<1>1. /\ loader'.at = "replace" /\ loader.at = "sources" /\ loader'.todo = {} /\ loader.todo = {}
      /\ loader'.domains = loader.domains /\ loader'.update = loader.update
      /\ loader'.downloaded = loader.downloaded
  BY DEF LoadAllow, StepInv, BlockTypeOK, LoaderStates
<1>2. UNCHANGED <<domains, copies>>
  BY DEF LoadAllow, memory, disk
<1> QED BY <1>1, <1>2 DEF StepInv, Gathering, Following, InStep, Early, Loading, ListsOf

LEMMA StepInvStep ==
  ASSUME StepInv, [Next]_vars
  PROVE  StepInv'
<1> USE DEF memory, disk
<1>1. BlockTypeOK'
  BY TypeStep DEF StepInv
<1>2. Gathering' /\ Following' /\ InStep'
  <2>1. CASE Loader
    <3>1. CASE Start
      BY <3>1, BeginLoadSteps DEF Start
    <3>2. CASE Wake
      BY <3>2, BeginLoadSteps DEF Wake
    <3> QED BY <2>1, <3>1, <3>2, LoadSourceSteps, LoadAllowSteps, ReplaceSteps DEF Loader
  <2>2. CASE Requests
    BY <2>2, QuietSteps DEF Requests, Allow, Save, SaveFails
  <2>3. ASSUME NEW on \in BOOLEAN, Switch(on) PROVE Gathering' /\ Following' /\ InStep'
    <3>1. CASE on /\ loader.at = "off"
      BY <2>3, <3>1, BeginLoadSteps DEF Switch
    <3>2. CASE ~(on /\ loader.at = "off")
      BY <2>3, <3>2, QuietSteps DEF Switch
    <3> QED BY <3>1, <3>2
  <2>4. CASE Restart
    BY <2>4, QuietSteps DEF Restart
  <2>5. CASE Environment
    BY <2>5, QuietSteps DEF Environment, Age, Publish, Network
  <2>6. CASE UNCHANGED vars
    BY <2>6, QuietSteps DEF vars
  <2> QED BY <2>1, <2>2, <2>3, <2>4, <2>5, <2>6 DEF Next
<1> QED BY <1>1, <1>2 DEF StepInv

LEMMA StepInvInit == Init => StepInv
BY TypeInit DEF Init, StepInv, Gathering, Following, InStep, Early, Loading, Idle

\* Whatever downloads fail and though Load gives up on lists of equal size,
\* memory holds between two loads what the files hold (Load).
THEOREM MemoryInStep == Spec => []InStep
<1>1. StepInv => InStep
  BY DEF StepInv
<1> QED BY <1>1, StepInvInit, StepInvStep, PTL DEF Spec

-----------------------------------------------------------------------------
(* What was allowed *)

\* Disturbed requests differ from the others only in not being alone.
LEMMA DisturbedFacts ==
  ASSUME BlockTypeOK, NEW p \in Panels
  PROVE  /\ Disturbed[p].at = panel[p].at /\ Disturbed[p].list = panel[p].list
         /\ Disturbed[p].domain = panel[p].domain /\ Disturbed[p].allowed = panel[p].allowed
         /\ ~Disturbed[p].alone
         /\ panel[p].at = "idle" <=> panel[p] = NoRequest
         /\ panel[p].alone \in BOOLEAN /\ panel[p].allowed \in BOOLEAN /\ panel[p].at \in {"idle", "write"}
<1>1. panel[p] \in RequestStates
  BY DEF BlockTypeOK
<1>2. Disturbed[p] = [panel[p] EXCEPT !.alone = FALSE]
  BY DEF Disturbed
<1>3. NoRequest.at = "idle" /\ ~NoRequest.alone /\ ~NoRequest.allowed
  BY DEF NoRequest
<1>4. CASE panel[p] = NoRequest
  BY <1>2, <1>3, <1>4 DEF NoRequest
<1>5. CASE panel[p] # NoRequest
  BY <1>1, <1>2, <1>3, <1>5 DEF RequestStates
<1> QED BY <1>4, <1>5

\* A load begins, and no request is alone any longer.
LEMMA BeginLoadKeeps ==
  ASSUME KeepInv, NEW update \in BOOLEAN, BeginLoad(update), panel' = Disturbed,
         update => loader.at = "waiting", ~update => loader.at = "off",
         UNCHANGED <<memory, disk, ghosts>>
  PROVE  Alone' /\ Keeping'
<1> USE DEF memory, disk, ghosts, KeepInv
<1>1. loader'.at = "sources" /\ loader'.update = update
  BY DEF BeginLoad
<1>2. BlockTypeOK
  BY DEF StepInv
<1>3. Alone'
  BY <1>2, DisturbedFacts DEF Alone
<1>4. ~Early' => Kept \subseteq allow
  BY <1>1 DEF Keeping, Early, Loading
<1> QED BY <1>1, <1>2, <1>3, <1>4, DisturbedFacts DEF Keeping, Kept

LEMMA LoadSourceKeeps ==
  ASSUME KeepInv, LoadSource
  PROVE  Alone' /\ Keeping'
<1> USE DEF memory, disk, ghosts, KeepInv
<1>1. loader.at = "sources" /\ loader'.at = "sources" /\ loader'.update = loader.update
  BY DEF StepInv, BlockTypeOK, LoaderStates, LoadSource
<1> QED BY <1>1 DEF LoadSource, Alone, Keeping, Kept, Early, Loading

LEMMA LoadAllowKeeps ==
  ASSUME KeepInv, LoadAllow
  PROVE  Alone' /\ Keeping'
<1> USE DEF memory, disk, ghosts, KeepInv
<1>1. /\ loader.at = "sources" /\ loader'.at = "replace" /\ loader'.update = loader.update
      /\ loader'.allow = Entries(allowFile)
  BY DEF StepInv, BlockTypeOK, LoaderStates, LoadAllow
<1>2. Kept \subseteq Entries(allowFile)
  BY DEF Keeping, Entries
<1> QED BY <1>1, <1>2 DEF LoadAllow, Alone, Keeping, Kept, Early, Loading

LEMMA ReplaceKeeps ==
  ASSUME KeepInv, Replace
  PROVE  Alone' /\ Keeping'
<1> USE DEF memory, disk, ghosts, KeepInv
<1>1. loader.at = "replace" /\ loader'.at = "waiting" /\ Loading
  BY DEF Replace, Idle, Loading
<1>2. \A p \in Panels : ~panel[p].alone
  BY <1>1 DEF Alone
<1>3. Kept \subseteq allow'
  <2>1. CASE ~Unchanged
    BY <1>1, <2>1 DEF Replace, Keeping
  <2>2. CASE Unchanged /\ loader.update
    BY <1>1, <2>2 DEF Replace, Keeping, Early
  <2>3. CASE Unchanged /\ ~loader.update
    BY <1>1, <2>3 DEF Replace, Keeping, Unchanged
  <2> QED BY <2>1, <2>2, <2>3
<1> QED BY <1>1, <1>2, <1>3 DEF Replace, Alone, Keeping, Kept

LEMMA AllowKeeps ==
  ASSUME KeepInv, NEW p \in Panels, NEW d \in Asked, NEW allowed \in BOOLEAN,
         Allow(p, d, allowed)
  PROVE  Alone' /\ Keeping'
<1> USE DEF disk, KeepInv
<1> DEFINE q == [at |-> "write", list |-> Listed(d, allowed), domain |-> d, allowed |-> allowed,
                 alone |-> ~Loading /\ \A r \in Panels : panel[r] = NoRequest]
<1>1. BlockTypeOK
  BY DEF StepInv
<1>2. /\ panel'[p] = q
      /\ \A r \in Panels \ {p} : panel'[r] = Disturbed[r]
  BY <1>1, DisturbedType DEF Allow
<1>3. /\ q.at = "write" /\ q.list = Listed(d, allowed) /\ q.domain = d /\ q.allowed = allowed
      /\ q.alone = (~Loading /\ \A r \in Panels : panel[r] = NoRequest)
  OBVIOUS
<1> HIDE DEF q
<1>4. UNCHANGED loader /\ allow' = Listed(d, allowed)
  BY DEF Allow, Listed
<1>5. Alone'
  <2> SUFFICES ASSUME NEW r \in Panels, panel'[r].alone
               PROVE  /\ ~Loading'
                      /\ panel'[r].allowed => panel'[r].domain \in allow'
                      /\ \A t \in Panels \ {r} : panel'[t].at = "idle"
    BY DEF Alone
  <2>1. r = p
    BY <1>1, <1>2, DisturbedFacts
  <2>2. \A t \in Panels \ {r} : panel'[t].at = "idle"
    <3>1. \A t \in Panels : panel[t] = NoRequest
      BY <1>2, <1>3, <2>1
    <3> QED BY <1>1, <1>2, <2>1, <3>1, DisturbedFacts
  <2> QED BY <1>2, <1>3, <1>4, <2>1, <2>2 DEF Loading, Listed
<1>6. Kept' \subseteq Kept /\ (~allowed => d \notin Kept') /\ (Early => Kept' = {})
  BY DEF Allow, Kept
<1>7. Kept' \subseteq allow'
  BY <1>4, <1>6 DEF Keeping, Listed
<1>8. Keeping'
  <2>1. ASSUME NEW r \in Panels, panel'[r].at = "write"
        PROVE  /\ Kept' \subseteq panel'[r].list
               /\ panel'[r].allowed => panel'[r].domain \in panel'[r].list
    <3>1. CASE r = p
      BY <1>2, <1>3, <1>4, <1>7, <3>1 DEF Listed
    <3>2. CASE r # p
      BY <1>1, <1>2, <1>6, <2>1, <3>2, DisturbedFacts DEF Keeping
    <3> QED BY <3>1, <3>2
  <2>2. UNCHANGED <<loader, allowFile>>
    BY DEF Allow
  <2> QED BY <1>6, <1>7, <2>1, <2>2 DEF Keeping
<1> QED BY <1>5, <1>8

\* A request ends, and what is kept becomes no more, or its domain is new and
\* the request was alone.
LEMMA SaveKeeps ==
  ASSUME KeepInv, NEW p \in Panels, Save(p)
  PROVE  Alone' /\ Keeping'
<1> USE DEF memory, KeepInv
<1>1. BlockTypeOK
  BY DEF StepInv
<1>2. /\ panel'[p].at = "idle" /\ ~panel'[p].alone
      /\ \A r \in Panels \ {p} : panel'[r] = panel[r]
  BY <1>1 DEF Save, NoRequest, BlockTypeOK
<1>3. UNCHANGED <<loader, allow>> /\ allowFile' = panel[p].list /\ panel[p].at = "write"
  BY DEF Save
<1>4. Alone'
  BY <1>2, <1>3 DEF Alone, Loading
<1>5. CASE panel[p].alone /\ panel[p].allowed /\ panel[p].domain \notin Unlistable
  <2>1. Kept' \subseteq Kept \cup {panel[p].domain}
    BY <1>5 DEF Save, Kept
  <2>2. \A r \in Panels \ {p} : panel[r].at = "idle"
    BY <1>5 DEF Alone
  <2>3. panel[p].domain \in allow /\ panel[p].domain \in panel[p].list /\ Kept \subseteq panel[p].list
        /\ ~Loading
    BY <1>3, <1>5 DEF Alone, Keeping
  <2> QED BY <1>2, <1>3, <1>4, <1>5, <2>1, <2>2, <2>3 DEF Keeping, Early, Loading
<1>6. CASE ~(panel[p].alone /\ panel[p].allowed /\ panel[p].domain \notin Unlistable)
  <2>1. Kept' \subseteq Kept
    BY <1>6 DEF Save, Kept
  <2> QED BY <1>2, <1>3, <1>4, <2>1 DEF Keeping, Early, Loading
<1> QED BY <1>5, <1>6

LEMMA KeepInvStep ==
  ASSUME KeepInv, [Next]_vars
  PROVE  KeepInv'
<1> USE DEF memory, disk, ghosts
<1>1. StepInv'
  BY StepInvStep DEF KeepInv
<1>2. Alone' /\ Keeping'
  <2>1. CASE Loader
    <3>1. CASE Start
      BY <3>1, BeginLoadKeeps DEF Start
    <3>2. CASE Wake
      BY <3>2, BeginLoadKeeps DEF Wake
    <3> QED BY <2>1, <3>1, <3>2, LoadSourceKeeps, LoadAllowKeeps, ReplaceKeeps DEF Loader
  <2>2. CASE Requests
    <3>1. ASSUME NEW p \in Panels, SaveFails(p) PROVE Alone' /\ Keeping'
      <4>1. /\ panel'[p].at = "idle" /\ ~panel'[p].alone
            /\ \A r \in Panels \ {p} : panel'[r] = panel[r]
        BY <3>1 DEF SaveFails, NoRequest, KeepInv, StepInv, BlockTypeOK
      <4> QED BY <3>1, <4>1 DEF SaveFails, KeepInv, Alone, Keeping, Kept, Early, Loading
    <3> QED BY <2>2, <3>1, AllowKeeps, SaveKeeps DEF Requests
  <2>3. ASSUME NEW on \in BOOLEAN, Switch(on) PROVE Alone' /\ Keeping'
    <3>1. CASE on /\ loader.at = "off"
      BY <2>3, <3>1, BeginLoadKeeps DEF Switch
    <3>2. CASE ~(on /\ loader.at = "off")
      BY <2>3, <3>2 DEF Switch, KeepInv, Alone, Keeping, Kept, Early, Loading
    <3> QED BY <3>1, <3>2
  <2>4. CASE Restart
    <3>1. /\ loader'.at = "off" /\ allowFile' = allowFile /\ Kept' = Kept
          /\ \A p \in Panels : panel'[p].at = "idle" /\ ~panel'[p].alone
      BY <2>4 DEF Restart, Idle, NoRequest, Kept
    <3> QED BY <3>1 DEF KeepInv, Alone, Keeping, Early, Loading
  <2>5. CASE Environment
    BY <2>5 DEF Environment, Age, Publish, Network, KeepInv, Alone, Keeping, Kept, Early, Loading
  <2>6. CASE UNCHANGED vars
    BY <2>6 DEF vars, KeepInv, Alone, Keeping, Kept, Early, Loading
  <2> QED BY <2>1, <2>2, <2>3, <2>4, <2>5, <2>6 DEF Next
<1> QED BY <1>1, <1>2 DEF KeepInv

LEMMA KeepInvInit == Init => KeepInv
<1> SUFFICES ASSUME Init PROVE Alone /\ Keeping
  BY StepInvInit DEF KeepInv
<1> QED BY DEF Init, Alone, Keeping, Kept, NoRequest, Idle

\* What was allowed with nothing else going on is not blocked again, whatever
\* reloads, restarts, failed writes and other requests follow (Allow, Load).
THEOREM AllowedStaysAllowed == Spec => []AllowKept
<1>1. KeepInv => AllowKept
  <2> SUFFICES ASSUME KeepInv, NEW n \in Names, Ancestry(n) \cap Kept # {} PROVE ~IsBlocked(n)
    BY DEF AllowKept, Kept
  <2>1. CASE Early
    BY <2>1 DEF KeepInv, StepInv, Following, IsBlocked
  <2>2. CASE ~Early
    BY <2>2 DEF KeepInv, Keeping, IsBlocked
  <2> QED BY <2>1, <2>2
<1> QED BY <1>1, KeepInvInit, KeepInvStep, PTL DEF Spec
=============================================================================
