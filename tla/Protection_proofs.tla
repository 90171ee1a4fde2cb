-------------------------- MODULE Protection_proofs --------------------------
(***************************************************************************)
(* Proofs about Protection: what SystemDNS_proofs shows of any callers, the*)
(* controller, the panel and the command line inherit.                     *)
(***************************************************************************)
EXTENDS Protection, SystemDNS_proofs

LEMMA MainAndLoop == Main \in Threads /\ Loop \in Threads /\ Panels \subseteq Threads
  BY ProtectionAssumption

-----------------------------------------------------------------------------
(* The controller is a caller like any other *)

LEMMA ControllerStep == [Next]_vars => [SysNext]_sysVars
<1> SUFFICES ASSUME [Next]_vars PROVE [SysNext]_sysVars
  OBVIOUS
<1> USE MainAndLoop DEF Actors
<1>1. CASE UNCHANGED vars
  BY <1>1 DEF vars
<1>2. CASE Start \/ RequestStop \/ NetworkChanges
  BY <1>2 DEF Start, RequestStop, NetworkChanges
<1>3. ASSUME ProcessEnds PROVE SysNext
  BY <1>3 DEF ProcessEnds, SysNext
<1>4. CASE MainStep
  <2>1. CASE Launch \/ ShutdownRestored
    BY <2>1 DEF Launch, ShutdownRestored
  <2>2. CASE ShutdownLock
    BY <2>2 DEF ShutdownLock, SysNext
  <2>3. CASE ShutdownRestore
    BY <2>3 DEF ShutdownRestore, SysNext, Ops
  <2>4. CASE ShutdownUnlock
    BY <2>4 DEF ShutdownUnlock, SysNext
  <2> QED BY <1>3, <1>4, <2>1, <2>2, <2>3, <2>4 DEF MainStep, Exit
<1>5. CASE LoopStep
  <2>1. CASE Boot \/ CheckNetwork \/ Tick \/ CheckActive
    BY <2>1 DEF Boot, CheckNetwork, Tick, CheckActive
  <2>2. CASE RepairLock
    BY <2>2 DEF RepairLock, SysNext
  <2>3. CASE RepairCall
    BY <2>3 DEF RepairCall, SysNext, Ops
  <2>4. CASE Repaired
    BY <2>4 DEF Repaired, SysNext
  <2> QED BY <1>5, <2>1, <2>2, <2>3, <2>4 DEF LoopStep
<1>6. ASSUME NEW t \in Threads, ReconcileStep(t) PROVE [SysNext]_sysVars
  <2>1. CASE ReconcileLock(t)
    BY <2>1 DEF ReconcileLock, SysNext
  <2>2. CASE ReadState(t) \/ TakenBack(t) \/ Settle(t) \/ Truncate(t) \/ WriteConfig(t)
    BY <2>2 DEF ReadState, TakenBack, Settle, Truncate, WriteConfig
  <2>3. CASE Decide(t)
    BY <2>3 DEF Decide, SysNext, Ops
  <2>4. CASE Leave(t)
    BY <2>4 DEF Leave, SysNext
  <2> QED BY <1>6, <2>1, <2>2, <2>3, <2>4 DEF ReconcileStep
<1>7. ASSUME NEW p \in Panels, Click(p) \/ HandOff(p) PROVE UNCHANGED sysVars
  BY <1>7 DEF Click, SetProtection, SetBlocklist, InstallFromPanel, HandOff
<1>8. ASSUME NEW a \in Tools, RunTool(a) \/ ToolEnds(a) \/ ToolKilled(a) PROVE SysNext
  BY <1>8 DEF RunTool, ToolEnds, ToolKilled, SysNext, Ops
<1>9. ASSUME NEW a \in Actors, Proceed(a) PROVE SysNext
  BY <1>9 DEF Proceed, SysNext
<1>10. CASE LeaseArrives
  BY <1>10 DEF LeaseArrives, SysNext
<1> QED
  BY <1>1, <1>2, <1>3, <1>4, <1>5, <1>6, <1>7, <1>8, <1>9, <1>10 DEF Next, Crash

\* Whatever the controller, the panel and the command line do is something
\* SystemDNS allows its callers.
THEOREM Composition == Spec => SysSpec
<1>1. Init => SysInit
  BY DEF Init
<1> QED BY <1>1, ControllerStep, PTL DEF Spec, SysSpec

\* The running program can always restore the user's setting when no operation
\* is under way.
THEOREM ProtectionRestorable ==
  ASSUME Answerable
  PROVE  Spec => []Restorable
  BY Composition, AlwaysRestorable, PTL

\* The running program keeps SafeRedirect's promise.
THEOREM ProtectionKeepsPromise ==
  ASSUME Answerable
  PROVE  Spec => PromiseKept
  BY Composition, KeepsPromise, PTL

-----------------------------------------------------------------------------
(* Types *)

LEMMA UseType ==
  ASSUME used \in Counts,
         NEW what \in {"runs", "clicks", "restores", "leases"}, NEW max \in Nat,
         max = CASE what = "runs" -> MaxRuns
                 [] what = "clicks" -> MaxClicks
                 [] what = "restores" -> MaxRestores
                 [] what = "leases" -> MaxLeases,
         Use(what, max)
  PROVE  used' \in Counts
<1> USE ProtectionAssumption DEF Counts, Use
<1>1. \A n \in Nat : used[what] \in 0..n /\ used[what] < n => used[what] + 1 \in 0..n
  OBVIOUS
<1>2. CASE what = "runs"
  BY <1>1, <1>2
<1>3. CASE what = "clicks"
  BY <1>1, <1>3
<1>4. CASE what = "restores"
  BY <1>1, <1>4
<1>5. CASE what = "leases"
  BY <1>1, <1>5
<1> QED BY <1>2, <1>3, <1>4, <1>5

LEMMA PlaceNames ==
  \A place \in {"off", "idle", "truncate", "write", "serve", "waiting", "stopping",
                 "closing", "restoring", "unlock", "gone", "boot", "probe", "wait",
                 "isActive", "repair", "repairCall", "repairing", "lock", "read",
                 "decide", "enabling", "suspending", "disabling", "leave",
                 "handingOff"} : place \in Places
  BY DEF Places

LEMMA NothingRead == NoRead \in Reads
  BY DEF NoRead, Reads

LEMMA SaveType ==
  ASSUME TypeOK, NEW t \in Threads, NEW value \in BOOLEAN, NEW place \in Places,
         Save(t, value, place)
  PROVE  /\ ctl' \in [Threads -> Places]
         /\ draft' \in [Threads -> BOOLEAN]
         /\ cont' \in [Threads -> Places]
<1>1. "truncate" \in Places
  BY PlaceNames
<1> QED BY <1>1 DEF TypeOK, Save, Move

LEMMA EndsType ==
  ASSUME TypeOK, SysTypeOK', ProcessEnds
  PROVE  TypeOK'
<1>1. ctl' \in [Threads -> Places] /\ cont' \in [Threads -> Places]
  BY PlaceNames DEF ProcessEnds
<1>2. seen' \in [Threads -> Reads]
  BY NothingRead DEF ProcessEnds
<1>3. draft' \in [Threads -> BOOLEAN]
  BY DEF ProcessEnds
<1>4. proc' \in {"up", "down"} /\ mode' \in {"app", "service"}
  BY DEF ProcessEnds
<1>5. {stop', handoff', want', active', suspended', healthy', ticking'} \subseteq BOOLEAN
  BY DEF ProcessEnds
<1>6. okStreak' \in 0..2 /\ failStreak' \in 0..3 /\ UNCHANGED <<cfgFile, net, used>>
  BY DEF ProcessEnds
<1> QED BY <1>1, <1>2, <1>3, <1>4, <1>5, <1>6 DEF TypeOK

LEMMA TypeOKStep == TypeOK /\ SysTypeOK' /\ [Next]_vars => TypeOK'
<1> SUFFICES ASSUME TypeOK, SysTypeOK', [Next]_vars PROVE TypeOK'
  OBVIOUS
<1> USE MainAndLoop, PlaceNames DEF TypeOK, appVars, Move
<1>1. CASE UNCHANGED vars
  BY <1>1 DEF vars, ctlVars
<1>2. CASE Start
  <2>1. used' \in Counts
    BY <1>2, UseType, ProtectionAssumption DEF Start
  <2> QED BY <1>2, <2>1, ProtectionAssumption DEF Start
<1>3. ASSUME ProcessEnds PROVE TypeOK'
  BY <1>3, EndsType
<1>4. CASE RequestStop \/ NetworkChanges
  <2>1. CASE RequestStop
    BY <2>1 DEF RequestStop
  <2>2. CASE NetworkChanges
    BY <2>2 DEF NetworkChanges, ctlVars
  <2> QED BY <1>4, <2>1, <2>2
<1>5. CASE MainStep
  BY <1>3, <1>5 DEF MainStep, Launch, ShutdownLock, ShutdownRestore, ShutdownRestored,
                    ShutdownUnlock, Exit
<1>6. CASE LoopStep
  <2>1. CASE CheckNetwork
    BY <2>1 DEF CheckNetwork
  <2>2. CASE Boot
    BY <2>2 DEF Boot
  <2>3. CASE Tick
    <3>1. ticking' \in BOOLEAN
      BY <2>3 DEF Tick
    <3>2. ctl' \in [Threads -> Places]
      BY <2>3 DEF Tick
    <3> QED BY <2>3, <3>1, <3>2 DEF Tick
  <2>4. CASE CheckActive
    BY <2>4 DEF CheckActive
  <2>5. CASE RepairLock
    BY <2>5 DEF RepairLock
  <2>6. CASE RepairCall
    BY <2>6 DEF RepairCall
  <2>7. CASE Repaired
    BY <2>7 DEF Repaired
  <2> QED BY <1>6, <2>1, <2>2, <2>3, <2>4, <2>5, <2>6, <2>7 DEF LoopStep
<1>7. ASSUME NEW t \in Threads, ReconcileStep(t) PROVE TypeOK'
  <2>1. CASE ReconcileLock(t)
    BY <2>1 DEF ReconcileLock
  <2>2. CASE ReadState(t)
    <3>1. (okStreak >= 2) \in BOOLEAN /\ (failStreak >= 3) \in BOOLEAN
      OBVIOUS
    <3>2. [want |-> want, active |-> active, suspended |-> suspended, healthy |-> healthy,
           twoOk |-> okStreak >= 2, threeFail |-> failStreak >= 3] \in Reads
      BY <3>1 DEF Reads
    <3>3. seen' \in [Threads -> Reads]
      BY <2>2, <3>2 DEF ReadState
    <3> QED BY <2>2, <3>3 DEF ReadState
  <2>3. CASE TakenBack(t)
    <3>1. want' \in BOOLEAN
      BY <2>3 DEF TakenBack
    <3>2. /\ ctl' \in [Threads -> Places]
          /\ draft' \in [Threads -> BOOLEAN]
          /\ cont' \in [Threads -> Places]
      BY <2>3, <3>1, SaveType DEF TakenBack
    <3> QED BY <2>3, <3>1, <3>2 DEF TakenBack
  <2>4. CASE Decide(t)
    <3>1. suspended' \in BOOLEAN
      BY <2>4 DEF Decide
    <3>2. \E place \in {"enabling", "suspending", "disabling", "leave"} :
            ctl' = [ctl EXCEPT ![t] = place]
      BY <2>4 DEF Decide
    <3>3. UNCHANGED <<proc, mode, stop, handoff, want, active, healthy, okStreak,
                      failStreak, ticking, seen, draft, cont, cfgFile, net, used>>
      BY <2>4 DEF Decide
    <3> QED BY <3>1, <3>2, <3>3
  <2>5. CASE Leave(t)
    <3>1. Home(t) \in {"idle", "isActive", "wait"}
      BY DEF Home
    <3> QED BY <2>5, <3>1, NothingRead DEF Leave
  <2>6. CASE WriteConfig(t)
    BY <2>6 DEF WriteConfig
  <2>7. CASE Settle(t)
    <3>1. active' \in BOOLEAN /\ suspended' \in BOOLEAN
      BY <2>7 DEF Settle, At
    <3> QED BY <2>7, <3>1 DEF Settle
  <2>8. CASE Truncate(t)
    BY <2>8 DEF Truncate
  <2> QED BY <1>7, <2>1, <2>2, <2>3, <2>4, <2>5, <2>6, <2>7, <2>8 DEF ReconcileStep
<1>8. ASSUME NEW p \in Panels, Click(p) PROVE TypeOK'
  <2>1. used' \in Counts
    BY <1>8, UseType, ProtectionAssumption
    DEF Click, SetProtection, SetBlocklist, InstallFromPanel, Request
  <2>2. ASSUME NEW on \in BOOLEAN, SetProtection(p, on) PROVE TypeOK'
    <3>1. /\ ctl' \in [Threads -> Places]
          /\ draft' \in [Threads -> BOOLEAN]
          /\ cont' \in [Threads -> Places]
      BY <2>2, SaveType DEF SetProtection
    <3> QED BY <2>1, <2>2, <3>1 DEF SetProtection
  <2>3. CASE SetBlocklist(p)
    BY <2>1, <2>3 DEF SetBlocklist, Save
  <2>4. CASE InstallFromPanel(p)
    BY <2>1, <2>4 DEF InstallFromPanel
  <2> QED BY <1>8, <2>2, <2>3, <2>4 DEF Click
<1>9. ASSUME NEW p \in Panels, HandOff(p) PROVE TypeOK'
  BY <1>9 DEF HandOff
<1>10. ASSUME NEW a \in Tools, RunTool(a) \/ ToolEnds(a) \/ ToolKilled(a) PROVE TypeOK'
  <2>1. used' \in Counts
    BY <1>10, UseType, ProtectionAssumption DEF RunTool, ToolEnds, ToolKilled
  <2> QED BY <1>10, <2>1 DEF RunTool, ToolEnds, ToolKilled, ctlVars
<1>11. ASSUME NEW a \in Actors, Proceed(a) PROVE TypeOK'
  BY <1>11 DEF Proceed, ctlVars
<1>12. CASE LeaseArrives
  <2>1. used' \in Counts
    BY <1>12, UseType, ProtectionAssumption DEF LeaseArrives
  <2> QED BY <1>12, <2>1 DEF LeaseArrives, ctlVars
<1> QED
  BY <1>1, <1>2, <1>3, <1>4, <1>5, <1>6, <1>7, <1>8, <1>9, <1>10, <1>11, <1>12
  DEF Next, Crash

LEMMA InitType ==
  ASSUME Init, SysTypeOK
  PROVE  TypeOK
<1>1. used \in Counts
  BY ProtectionAssumption DEF Init, Counts
<1>2. ctl \in [Threads -> Places] /\ cont \in [Threads -> Places]
  BY PlaceNames DEF Init
<1>3. seen \in [Threads -> Reads]
  BY NothingRead DEF Init
<1>4. draft \in [Threads -> BOOLEAN]
  BY DEF Init
<1>5. /\ proc \in {"up", "down"} /\ mode \in {"app", "service"}
      /\ cfgFile \in {"on", "off", "none", "torn"}
  BY DEF Init
<1>6. {stop, handoff, want, active, suspended, healthy, ticking, net} \subseteq BOOLEAN
  BY DEF Init
<1>7. okStreak \in 0..2 /\ failStreak \in 0..3
  BY DEF Init
<1> QED BY <1>1, <1>2, <1>3, <1>4, <1>5, <1>6, <1>7 DEF TypeOK

\* Every variable of the controller keeps its type, under any fault.
THEOREM ControllerTypesCorrect == Spec => []TypeOK
<1>1. Init => TypeOK /\ TypeInv
  <2> SUFFICES ASSUME Init PROVE TypeOK /\ TypeInv
    OBVIOUS
  <2>1. SysTypeOK /\ Loaded
    BY ConstantsAssumption
    DEF Init, SysInit, SysTypeOK, Loaded, Confs, Actors, Ops, Labels, Applying, Restoring
  <2> QED BY <2>1, InitType DEF TypeInv
<1>2. TypeOK /\ TypeInv /\ [Next]_vars => TypeOK' /\ TypeInv'
  BY TypeStep, ControllerStep, TypeOKStep DEF TypeInv
<1> QED BY <1>1, <1>2, PTL DEF Spec

-----------------------------------------------------------------------------
(* Where the goroutines are *)

Calls == {"restoring", "repairing", "enabling", "suspending", "disabling"}

Runs(place) ==
  IF place = "enabling" THEN "enable" ELSE IF place = "repairing" THEN "sync" ELSE "disable"

InLock(t) ==
  \/ ctl[t] \in Calls \cup {"closing", "unlock", "repairCall", "read", "decide", "leave"}
  \/ ctl[t] \in {"truncate", "write"} /\ cont[t] = "leave"

\* A goroutine holds opMu in just these places, and runs in each place no other
\* procedure than the one the place is named for.
Placed(t) ==
  /\ InLock(t) <=> pc[t] # "idle"
  /\ ctl[t] \in Calls => op[t] = Runs(ctl[t]) /\ pc[t] # "held"
  /\ Busy(t) => ctl[t] \in Calls
  /\ ctl[t] \in {"truncate", "write"} => cont[t] \in {"serve", "lock", "idle", "leave"}

\* The main goroutine is alone until it serves.
MainInv ==
  /\ ctl[Main] \in {"off", "truncate", "write", "serve", "waiting", "stopping", "closing",
                    "restoring", "unlock", "gone"}
  /\ ctl[Main] \in {"truncate", "write"} => cont[Main] = "serve"
  /\ ctl[Main] \in {"off", "truncate", "write", "serve"} =>
       \A t \in Threads \ {Main} : ctl[t] = "off"
  /\ proc = "down" => ctl[Main] = "off"

CtlInv == (\A t \in Threads : Placed(t)) /\ MainInv

\* Nothing that Placed or MainInv speaks of changes but for t.
Only(t) ==
  \A u \in Threads \ {t} :
    ctl'[u] = ctl[u] /\ cont'[u] = cont[u] /\ pc'[u] = pc[u] /\ op'[u] = op[u]

LEMMA OnlyPlaced ==
  ASSUME CtlInv, NEW t \in Threads, Only(t), Placed(t)', MainInv'
  PROVE  CtlInv'
<1>1. ASSUME NEW u \in Threads \ {t} PROVE Placed(u)'
  BY DEF CtlInv, Only, Placed, InLock, Busy
<1> QED BY <1>1 DEF CtlInv

\* A goroutine other than the main one that is there at all.
LEMMA NotMain ==
  ASSUME CtlInv, NEW t \in Threads, Only(t), t # Main, ctl[t] # "off", UNCHANGED proc,
         Placed(t)'
  PROVE  CtlInv'
<1>1. ctl'[Main] = ctl[Main] /\ cont'[Main] = cont[Main]
  BY MainAndLoop DEF Only
<1>2. MainInv'
  BY <1>1 DEF CtlInv, MainInv
<1> QED BY <1>2, OnlyPlaced

LEMMA CtlStep ==
  ASSUME TypeOK, TypeOK', CtlInv, [Next]_vars
  PROVE  CtlInv'
<1> USE MainAndLoop DEF Move, At
<1>t. /\ ctl \in [Threads -> Places] /\ cont \in [Threads -> Places]
      /\ pc \in [Actors -> Labels] /\ op \in [Actors -> Ops] /\ Threads \subseteq Actors
  BY DEF TypeOK, SysTypeOK, Actors
<1>1. CASE UNCHANGED vars
  BY <1>1 DEF vars, ctlVars, sysVars, appVars, CtlInv, Placed, MainInv, InLock, Busy
<1>2. CASE Start
  <2>1. ctl[Main] = "off" /\ \A t \in Threads : ctl[t] = "off"
    BY <1>2 DEF Start, CtlInv, MainInv
  <2>2. pc[Main] = "idle"
    BY <2>1 DEF CtlInv, Placed, InLock, Calls
  <2>3. Only(Main) /\ UNCHANGED <<pc, op>>
    BY <1>t, <1>2 DEF Start, Only, sysVars
  <2>4. ctl'[Main] \in {"serve", "truncate"} /\ cont'[Main] = "serve" /\ proc' = "up"
    BY <1>t, <1>2 DEF Start
  <2>5. Placed(Main)'
    BY <2>2, <2>3, <2>4 DEF Placed, InLock, Calls, Busy
  <2>6. MainInv'
    BY <2>1, <2>3, <2>4 DEF MainInv, Only
  <2> QED BY <2>3, <2>5, <2>6, OnlyPlaced
<1>3. ASSUME ProcessEnds PROVE CtlInv'
  <2>1. \A t \in Threads : pc'[t] = "idle" /\ ctl'[t] = "off"
    BY <1>3, <1>t DEF ProcessEnds, Kill
  <2> QED BY <2>1 DEF CtlInv, Placed, MainInv, InLock, Busy, Calls
<1>4. CASE RequestStop
  <2>1. Only(Main) /\ UNCHANGED <<pc, op>>
    BY <1>t, <1>4 DEF RequestStop, Only, sysVars
  <2>2. ctl[Main] = "waiting" /\ ctl'[Main] = "stopping" /\ proc' = proc
    BY <1>t, <1>4 DEF RequestStop
  <2>3. Placed(Main)'
    BY <2>1, <2>2 DEF CtlInv, Placed, InLock, Calls, Busy
  <2>4. MainInv'
    BY <2>2 DEF CtlInv, MainInv
  <2> QED BY <2>1, <2>3, <2>4, OnlyPlaced
<1>5. CASE Launch
  <2>1. \A t \in Threads : pc[t] = "idle" /\ pc'[t] = "idle"
    BY <1>5 DEF Launch, CtlInv, MainInv, Placed, InLock, Calls, sysVars
  <2>2. \A t \in Threads : ctl'[t] \in {"waiting", "boot", "idle"}
    BY <1>t, <1>5 DEF Launch
  <2>3. ctl'[Main] = "waiting"
    BY <1>t, <1>5, ProtectionAssumption DEF Launch
  <2>4. proc' = proc /\ proc # "down"
    BY <1>5 DEF Launch, appVars, CtlInv, MainInv
  <2> QED BY <2>1, <2>2, <2>3, <2>4 DEF CtlInv, Placed, MainInv, InLock, Calls, Busy
<1>6. ASSUME ShutdownLock \/ ShutdownRestore \/ ShutdownRestored \/ ShutdownUnlock
      PROVE  CtlInv'
  <2>1. Only(Main) /\ proc' = proc
    BY <1>t, <1>6 DEF ShutdownLock, ShutdownRestore, ShutdownRestored, ShutdownUnlock,
                      Lock, Call, Return, Goto, Only, sysVars, appVars
  <2>2. ctl[Main] \in {"stopping", "closing", "restoring", "unlock"}
    BY <1>6 DEF ShutdownLock, ShutdownRestore, ShutdownRestored, ShutdownUnlock
  <2>3. ctl'[Main] \in {"closing", "restoring", "unlock", "gone"}
    BY <1>t, <1>6 DEF ShutdownLock, ShutdownRestore, ShutdownRestored, ShutdownUnlock
  <2>4. Placed(Main)
    BY DEF CtlInv
  <2>5. Placed(Main)'
    <3> USE <1>t, <2>4 DEF Placed, InLock, Calls, Busy, Runs, Goto
    <3>1. CASE ShutdownLock
      BY <3>1 DEF ShutdownLock, Lock
    <3>2. CASE ShutdownRestore
      BY <3>2 DEF ShutdownRestore, Call, sysVars
    <3>3. CASE ShutdownRestored
      BY <3>3 DEF ShutdownRestored, sysVars
    <3>4. CASE ShutdownUnlock
      BY <3>4 DEF ShutdownUnlock, Return
    <3> QED BY <1>6, <3>1, <3>2, <3>3, <3>4
  <2>6. MainInv'
    BY <2>1, <2>2, <2>3 DEF CtlInv, MainInv
  <2> QED BY <2>1, <2>5, <2>6, OnlyPlaced
<1>7. CASE LoopStep
  <2>1. Only(Loop) /\ proc' = proc
    BY <1>t, <1>7 DEF LoopStep, Boot, CheckNetwork, Tick, CheckActive, RepairLock,
                      RepairCall, Repaired, Lock, Call, Return, Goto, Only, sysVars, appVars
  <2>2. Loop # Main /\ ctl[Loop] # "off"
    BY <1>7, ProtectionAssumption
    DEF LoopStep, Boot, CheckNetwork, Tick, CheckActive, RepairLock, RepairCall, Repaired
  <2>3. Placed(Loop)
    BY DEF CtlInv
  <2>4. Placed(Loop)'
    <3> USE <1>t, <2>3 DEF Placed, InLock, Calls, Busy, Runs, Goto
    <3>1. CASE Boot \/ CheckNetwork \/ Tick \/ CheckActive
      <4>1. ctl[Loop] \in {"boot", "probe", "wait", "isActive"} /\ UNCHANGED <<pc, op>>
        BY <3>1 DEF Boot, CheckNetwork, Tick, CheckActive, sysVars
      <4>2. ctl'[Loop] \in {"probe", "lock", "idle", "repair", "wait"}
        BY <3>1 DEF Boot, CheckNetwork, Tick, CheckActive
      <4> QED BY <4>1, <4>2
    <3>2. CASE RepairLock
      BY <3>2 DEF RepairLock, Lock
    <3>3. CASE RepairCall
      BY <3>3 DEF RepairCall, Call
    <3>4. CASE Repaired
      BY <3>4 DEF Repaired, Return
    <3> QED BY <1>7, <3>1, <3>2, <3>3, <3>4 DEF LoopStep
  <2> QED BY <2>1, <2>2, <2>4, NotMain
<1>8. ASSUME NEW t \in Threads, ReconcileStep(t) PROVE CtlInv'
  <2>1. Only(t) /\ proc' = proc
    BY <1>t, <1>8 DEF ReconcileStep, ReconcileLock, ReadState, TakenBack, Decide, Settle,
                      Leave, Truncate, WriteConfig, Lock, Call, Return, Goto, Save, Only,
                      sysVars, appVars
  <2>2. Placed(t)
    BY DEF CtlInv
  <2>3. Placed(t)'
    <3> USE <1>t, <2>2 DEF Placed, InLock, Calls, Busy, Runs, Goto
    <3>1. CASE ReconcileLock(t)
      BY <3>1 DEF ReconcileLock, Lock
    <3>2. CASE ReadState(t)
      BY <3>2 DEF ReadState, sysVars
    <3>3. CASE TakenBack(t)
      BY <3>3 DEF TakenBack, Save, sysVars
    <3>4. CASE Decide(t)
      BY <3>4 DEF Decide, Call, sysVars
    <3>5. CASE Settle(t)
      BY <3>5 DEF Settle, sysVars
    <3>6. CASE Leave(t)
      BY <3>6 DEF Leave, Return, Home
    <3>7. CASE Truncate(t)
      BY <3>7 DEF Truncate, sysVars
    <3>8. CASE WriteConfig(t)
      BY <3>8 DEF WriteConfig, sysVars
    <3> QED BY <1>8, <3>1, <3>2, <3>3, <3>4, <3>5, <3>6, <3>7, <3>8 DEF ReconcileStep
  <2>4. ctl[t] # "off"
    BY <1>8 DEF ReconcileStep, ReconcileLock, ReadState, TakenBack, Decide, Settle, Leave,
                Truncate, WriteConfig
  <2>5. CASE t = Main
    <3>1. Truncate(Main) \/ WriteConfig(Main)
      BY <1>8, <2>5 DEF ReconcileStep, ReconcileLock, ReadState, TakenBack, Decide, Settle,
                        Leave, CtlInv, MainInv
    <3>2. ctl'[Main] \in {"write", "serve"} /\ (ctl'[Main] = "write" => cont' = cont)
      BY <1>t, <3>1 DEF Truncate, WriteConfig, CtlInv, MainInv
    <3>3. MainInv'
      BY <2>1, <2>5, <3>1, <3>2 DEF Truncate, WriteConfig, Only, CtlInv, MainInv
    <3> QED BY <2>1, <2>3, <2>5, <3>3, OnlyPlaced
  <2> QED BY <2>1, <2>3, <2>4, <2>5, NotMain
<1>9. ASSUME NEW p \in Panels, Click(p) \/ HandOff(p) PROVE CtlInv'
  <2>1. Only(p) /\ proc' = proc /\ UNCHANGED <<pc, op>>
    BY <1>t, <1>9 DEF Click, SetProtection, SetBlocklist, InstallFromPanel, HandOff, Save,
                      Only, sysVars, appVars
  <2>2. ctl[p] \in {"idle", "handingOff"} /\ p \in Threads /\ p # Main
    BY <1>9, ProtectionAssumption
    DEF Click, SetProtection, SetBlocklist, InstallFromPanel, HandOff, Request
  <2>3. \/ ctl'[p] \in {"idle", "handingOff"}
        \/ ctl'[p] = "truncate" /\ cont'[p] \in {"lock", "idle"}
    BY <1>t, <1>9, <2>2 DEF Click, SetProtection, SetBlocklist, InstallFromPanel, HandOff, Save
  <2>4. Placed(p)'
    BY <2>1, <2>2, <2>3 DEF CtlInv, Placed, InLock, Calls, Busy
  <2> QED BY <2>1, <2>2, <2>4, NotMain
<1>10. ASSUME NEW a \in Tools, RunTool(a) \/ ToolEnds(a) \/ ToolKilled(a) PROVE CtlInv'
  <2>1. \A t \in Threads : pc'[t] = pc[t] /\ op'[t] = op[t]
    BY <1>t, <1>10, ConstantsAssumption
    DEF RunTool, ToolEnds, ToolKilled, Call, Return, Kill, Goto
  <2>2. UNCHANGED <<ctl, cont, proc>>
    BY <1>10 DEF RunTool, ToolEnds, ToolKilled, ctlVars, appVars
  <2> QED BY <2>1, <2>2 DEF CtlInv, Placed, MainInv, InLock, Busy
<1>11. ASSUME NEW a \in Actors, Proceed(a) PROVE CtlInv'
  <2>1. PICK label \in Labels \ {"idle", "held", "load"} : pc' = [pc EXCEPT ![a] = label]
    BY <1>11, StepMoves DEF TypeOK, Proceed
  <2>2. Busy(a) /\ op' = op
    BY <1>11, StepMoves DEF TypeOK, Proceed
  <2>3. UNCHANGED <<ctl, cont, proc>>
    BY <1>11 DEF Proceed, ctlVars, appVars
  <2>4. \A t \in Threads : Placed(t)'
    BY <1>t, <2>1, <2>2, <2>3 DEF CtlInv, Placed, InLock, Busy
  <2> QED BY <2>3, <2>4 DEF CtlInv, MainInv
<1>12. CASE NetworkChanges \/ LeaseArrives
  <2>1. UNCHANGED <<ctl, cont, proc, pc, op>>
    BY <1>12 DEF NetworkChanges, LeaseArrives, Lease, ctlVars, appVars, sysVars
  <2> QED BY <2>1 DEF CtlInv, Placed, MainInv, InLock, Busy
<1> QED
  BY <1>1, <1>2, <1>3, <1>4, <1>5, <1>6, <1>7, <1>8, <1>9, <1>10, <1>11, <1>12
  DEF Next, MainStep, Crash, Exit

-----------------------------------------------------------------------------
(* What the panel shows *)

\* A call that has changed the machine and will report success, or undo it.
Redirecting(t) ==
  /\ ctl[t] = "enabling"
  /\ \/ pc[t] \in Applying \cup Restoring \cup {"save2"}
     \/ pc[t] = "done" /\ ~err[t]

\* Who shows protection as off has no backup, or a call under way that will
\* turn it on.
Honest ==
  ctl[Loop] \notin {"off", "boot"} /\ ~active
    => backup = NoBackup \/ \E t \in Threads : Redirecting(t)

\* A step that touches neither backup nor active and interrupts no such call.
LEMMA HonestStays ==
  ASSUME Honest, UNCHANGED <<backup, active>>,
         ctl'[Loop] \notin {"off", "boot"} => ctl[Loop] \notin {"off", "boot"},
         \A t \in Threads : ctl[t] = "enabling" =>
                              /\ ctl'[t] = ctl[t]
                              /\ pc'[t] = pc[t]
                              /\ err'[t] = err[t]
  PROVE  Honest'
  BY DEF Honest, Redirecting

LEMMA HonestStep ==
  ASSUME IInv, Returned, TypeOK, CtlInv, Honest, [Next]_vars
  PROVE  Honest'
<1> USE MainAndLoop DEF Move, At
<1>t. /\ ctl \in [Threads -> Places] /\ cont \in [Threads -> Places]
      /\ pc \in [Actors -> Labels] /\ op \in [Actors -> Ops] /\ err \in [Actors -> BOOLEAN]
      /\ Threads \subseteq Actors
  BY DEF TypeOK, SysTypeOK, Actors
<1>1. CASE UNCHANGED vars
  BY <1>1, HonestStays DEF vars, ctlVars, sysVars, appVars
<1>2. CASE Start
  <2>1. ctl'[Loop] = "off"
    BY <1>t, <1>2, ProtectionAssumption DEF Start, CtlInv, MainInv
  <2> QED BY <2>1 DEF Honest
<1>3. ASSUME ProcessEnds PROVE Honest'
  BY <1>3 DEF ProcessEnds, Honest
<1>4. CASE Launch
  <2>1. ctl'[Loop] = "boot"
    BY <1>4, ProtectionAssumption DEF Launch
  <2> QED BY <2>1 DEF Honest
<1>5. ASSUME RequestStop \/ ShutdownLock \/ ShutdownRestore \/ ShutdownRestored \/ ShutdownUnlock
      PROVE  Honest'
  <2>1. UNCHANGED <<backup, active>>
    BY <1>5 DEF RequestStop, ShutdownLock, ShutdownRestore, ShutdownRestored, ShutdownUnlock,
                Lock, Call, Return, sysVars, appVars, disk
  <2>2. ctl[Main] # "enabling" /\ Main # Loop
    BY <1>5, ProtectionAssumption
    DEF RequestStop, ShutdownLock, ShutdownRestore, ShutdownRestored, ShutdownUnlock
  <2>3. \A t \in Threads \ {Main} : ctl'[t] = ctl[t] /\ pc'[t] = pc[t] /\ err'[t] = err[t]
    BY <1>t, <1>5 DEF RequestStop, ShutdownLock, ShutdownRestore, ShutdownRestored,
                      ShutdownUnlock, Lock, Call, Return, Goto, sysVars
  <2> QED BY <2>1, <2>2, <2>3, HonestStays
<1>6. CASE Boot
  <2>1. backup' = backup /\ (~active' => backup = NoBackup)
    BY <1>6 DEF Boot, sysVars
  <2> QED BY <2>1 DEF Honest
<1>7. ASSUME CheckNetwork \/ Tick \/ CheckActive \/ RepairLock \/ RepairCall \/ Repaired
      PROVE  Honest'
  <2>1. UNCHANGED <<backup, active>>
    BY <1>7 DEF CheckNetwork, Tick, CheckActive, RepairLock, RepairCall, Repaired,
                Lock, Call, Return, sysVars, appVars, disk
  <2>2. ctl[Loop] \notin {"off", "boot", "enabling"}
    BY <1>7 DEF CheckNetwork, Tick, CheckActive, RepairLock, RepairCall, Repaired
  <2>3. \A t \in Threads \ {Loop} : ctl'[t] = ctl[t] /\ pc'[t] = pc[t] /\ err'[t] = err[t]
    BY <1>t, <1>7 DEF CheckNetwork, Tick, CheckActive, RepairLock, RepairCall, Repaired,
                      Lock, Call, Return, Goto, sysVars
  <2> QED BY <2>1, <2>2, <2>3, HonestStays
<1>8. ASSUME NEW t \in Threads, ReconcileStep(t) PROVE Honest'
  <2>1. \A u \in Threads \ {t} : ctl'[u] = ctl[u] /\ pc'[u] = pc[u] /\ err'[u] = err[u]
    BY <1>t, <1>8 DEF ReconcileStep, ReconcileLock, ReadState, TakenBack, Decide, Settle,
                      Leave, Truncate, WriteConfig, Lock, Call, Return, Goto, Save, sysVars
  <2>2. backup' = backup
    BY <1>8 DEF ReconcileStep, ReconcileLock, ReadState, TakenBack, Decide, Settle,
                Leave, Truncate, WriteConfig, Lock, Call, Return, sysVars, disk
  <2>3. ctl[t] \notin {"off", "boot"}
    BY <1>8 DEF ReconcileStep, ReconcileLock, ReadState, TakenBack, Decide, Settle,
                Leave, Truncate, WriteConfig
  <2>4. CASE TakenBack(t)
    BY <2>2, <2>4 DEF TakenBack, Honest
  <2>5. CASE Settle(t)
    <3>1. CASE err[t]
      <4>1. UNCHANGED <<active, err>> /\ ~Redirecting(t)
        BY <2>5, <3>1 DEF Settle, Redirecting, sysVars, Applying, Restoring
      <4>2. \A u \in Threads \ {t} : Redirecting(u) => Redirecting(u)'
        BY <2>1 DEF Redirecting
      <4> QED BY <2>2, <2>3, <4>1, <4>2, <2>1 DEF Honest
    <3>2. CASE ~err[t] /\ ctl[t] = "enabling"
      BY <2>5, <3>2 DEF Settle, Honest
    <3>3. CASE ~err[t] /\ ctl[t] # "enabling"
      <4>1. op[t] = "disable" /\ pc[t] = "done"
        BY <2>5, <3>3 DEF Settle, CtlInv, Placed, Calls, Runs
      <4>2. backup = NoBackup
        BY <1>t, <3>3, <4>1 DEF Returned
      <4> QED BY <2>2, <4>2 DEF Honest
    <3> QED BY <3>1, <3>2, <3>3
  <2>6. CASE ~(TakenBack(t) \/ Settle(t))
    <3>1. active' = active /\ ctl[t] # "enabling"
      BY <1>8, <2>6 DEF ReconcileStep, ReconcileLock, ReadState, Decide, Leave, Truncate,
                        WriteConfig, appVars
    <3> QED BY <2>1, <2>2, <2>3, <3>1, HonestStays
  <2> QED BY <2>4, <2>5, <2>6
<1>9. ASSUME NEW p \in Panels, Click(p) \/ HandOff(p) PROVE Honest'
  <2>1. UNCHANGED <<backup, active, pc, err>> /\ p \in Threads
    BY <1>9 DEF Click, SetProtection, SetBlocklist, InstallFromPanel, HandOff, sysVars, appVars
  <2>2. ctl[p] \in {"idle", "handingOff"}
    BY <1>9 DEF Click, SetProtection, SetBlocklist, InstallFromPanel, HandOff, Request
  <2>3. \A t \in Threads \ {p} : ctl'[t] = ctl[t]
    BY <1>t, <1>9 DEF Click, SetProtection, SetBlocklist, InstallFromPanel, HandOff, Save
  <2> QED BY <2>1, <2>2, <2>3, HonestStays
<1>10. ASSUME NEW a \in Tools, RunTool(a) \/ ToolEnds(a) \/ ToolKilled(a) PROVE Honest'
  <2>1. UNCHANGED <<backup, active, ctl>>
    BY <1>10 DEF RunTool, ToolEnds, ToolKilled, Call, Return, Kill, disk, ctlVars, appVars
  <2>2. \A t \in Threads : pc'[t] = pc[t] /\ err'[t] = err[t]
    BY <1>t, <1>10, ConstantsAssumption
    DEF RunTool, ToolEnds, ToolKilled, Call, Return, Kill, Goto
  <2> QED BY <2>1, <2>2, HonestStays
<1>11. ASSUME NEW a \in Actors, Proceed(a) PROVE Honest'
  <2>1. UNCHANGED <<ctl, active>> /\ Step(a)
    BY <1>11 DEF Proceed, ctlVars, appVars
  <2>2. PICK label \in Labels \ {"idle", "held", "load"} :
          /\ pc' = [pc EXCEPT ![a] = label]
          /\ err' = err \/ err' = [err EXCEPT ![a] = TRUE]
    BY <2>1, StepMoves DEF TypeOK
  <2>3. \A t \in Threads \ {a} : Redirecting(t) => Redirecting(t)'
    BY <1>t, <2>1, <2>2 DEF Redirecting
  <2>4. backup' = NoBackup \/ backup' = backup \/ (a \in Threads /\ op[a] = "enable")
    BY <2>1, WhoWrites
  <2>5. CASE a \in Threads /\ op[a] = "enable"
    <3>1. ctl[a] = "enabling" /\ Busy(a) /\ BusyInv(a)
      BY <2>1, <2>5, StepMoves, AtStep DEF TypeOK, CtlInv, Placed, Calls, Runs
    <3>2. CASE pc[a] = "load"
      <4>1. ~Redirecting(a) /\ backup' = backup
        BY <2>1, <2>5, <3>2
        DEF Redirecting, Applying, Restoring, Step, EnableStep, LoadForEnable, SaveBackup,
            WriteDropIn, RestartResolved, WriteNMDropIn, WriteResolvConf, SaveFlags,
            RestoreStep, LoadForDisable, RestoreConf, RestoreLink, RestoreNM,
            RestoreResolved, RemoveBackup, SyncStep, LoadForSync, CheckSetting,
            RewriteConf, disk
      <4> QED BY <2>1, <2>3, <4>1 DEF Honest
    <3>3. CASE pc[a] # "load"
      <4>1. backup' = NoBackup \/ Redirecting(a)' \/ (backup' = backup /\ ~Redirecting(a))
        <5> USE <1>t, <2>1, <3>1 DEF Redirecting, Goto, Fail, Applying, Restoring
        <5>1. CASE pc[a] = "save"
          BY <2>5, <5>1, <3>1 DEF Step, EnableStep, SaveBackup, LoadForEnable, FirstWrite,
               WriteDropIn, RestartResolved, WriteNMDropIn, WriteResolvConf, SaveFlags,
               RestoreStep, LoadForDisable, RestoreConf, RestoreLink, RestoreNM,
               RestoreResolved, RemoveBackup, SyncStep, LoadForSync, CheckSetting, RewriteConf
        <5>2. CASE pc[a] \in Applying \cup {"save2"}
          <6>1. ~err[a]
            BY <1>t, <5>2 DEF Returned
          <6>2. CASE WriteDropIn(a)
            BY <6>2 DEF WriteDropIn
          <6>3. CASE RestartResolved(a)
            BY <6>3 DEF RestartResolved
          <6>4. CASE WriteNMDropIn(a)
            BY <6>4 DEF WriteNMDropIn
          <6>5. CASE WriteResolvConf(a)
            BY <6>5 DEF WriteResolvConf
          <6>6. CASE SaveFlags(a)
            BY <6>1, <6>6 DEF SaveFlags
          <6> QED BY <2>5, <5>2, <6>2, <6>3, <6>4, <6>5, <6>6
               DEF Step, EnableStep, SaveBackup, LoadForEnable,
               RestoreStep, LoadForDisable, RestoreConf, RestoreLink, RestoreNM,
               RestoreResolved, RemoveBackup, SyncStep, LoadForSync, CheckSetting, RewriteConf
        <5>3. CASE pc[a] \in Restoring
          <6>1. CASE RestoreConf(a) \/ RestoreLink(a) \/ RestoreNM(a)
            BY <6>1 DEF RestoreConf, RestoreLink, RestoreNM
          <6>2. CASE RestoreResolved(a)
            BY <2>5, <6>2 DEF RestoreResolved
          <6>3. CASE RemoveBackup(a)
            BY <6>3 DEF RemoveBackup
          <6> QED BY <2>5, <5>3, <6>1, <6>2, <6>3
               DEF Step, EnableStep, SaveBackup, LoadForEnable, WriteDropIn, RestartResolved,
               WriteNMDropIn, WriteResolvConf, SaveFlags, RestoreStep, LoadForDisable,
               SyncStep, LoadForSync, CheckSetting, RewriteConf
        <5> QED BY <2>5, <3>3, <5>1, <5>2, <5>3 DEF Busy, Labels, BusyInv
      <4> QED BY <2>1, <2>3, <2>5, <4>1 DEF Honest
    <3> QED BY <3>2, <3>3
  <2>6. CASE ~(a \in Threads /\ op[a] = "enable")
    <3>1. ~Redirecting(a) \/ a \notin Threads
      BY <2>6 DEF Redirecting, CtlInv, Placed, Calls, Runs
    <3> QED BY <2>1, <2>3, <2>4, <2>6, <3>1 DEF Honest
  <2> QED BY <2>5, <2>6
<1>12. CASE NetworkChanges \/ LeaseArrives
  <2>1. UNCHANGED <<ctl, active, backup, pc, err>>
    BY <1>12 DEF NetworkChanges, LeaseArrives, Lease, ctlVars, appVars, sysVars
  <2> QED BY <2>1, HonestStays
<1> QED
  BY <1>1, <1>2, <1>3, <1>4, <1>5, <1>6, <1>7, <1>8, <1>9, <1>10, <1>11, <1>12
  DEF Next, MainStep, LoopStep, Crash, Exit

-----------------------------------------------------------------------------
(* After the shutdown *)

\* Where a goroutine works on the panel's or the loop's decision.
Deciding == {"read", "decide", "enabling", "suspending", "disabling"}

StopInv ==
  /\ ctl[Main] \in {"stopping", "closing", "restoring", "unlock", "gone"} => stop
  /\ ctl[Main] = "gone" => \A t \in Threads : ctl[t] \notin Deciding
  /\ ctl[Main] \in {"unlock", "gone"} /\ ~handoff /\ admin => backup = NoBackup

LEMMA StopStep ==
  ASSUME Undisturbed, IInv, Returned, Smooth, TypeOK, CtlInv, CtlInv', StopInv, [Next]_vars
  PROVE  StopInv'
<1> USE MainAndLoop DEF Move, At
<1>t. /\ ctl \in [Threads -> Places] /\ cont \in [Threads -> Places]
      /\ pc \in [Actors -> Labels] /\ op \in [Actors -> Ops]
      /\ Threads \subseteq Actors
  BY DEF TypeOK, SysTypeOK, Actors
<1>1. CASE UNCHANGED vars
  BY <1>1 DEF vars, ctlVars, sysVars, appVars, StopInv
<1>2. CASE Start
  BY <1>t, <1>2 DEF Start, StopInv
<1>3. ASSUME ProcessEnds PROVE StopInv'
  BY <1>3 DEF ProcessEnds, StopInv
<1>4. CASE Launch
  BY <1>4, ProtectionAssumption DEF Launch, StopInv
<1>5. CASE RequestStop
  BY <1>t, <1>5 DEF RequestStop, StopInv
<1>6. CASE ShutdownLock
  BY <1>t, <1>6 DEF ShutdownLock, StopInv, appVars
<1>7. CASE ShutdownRestore
  BY <1>t, <1>7 DEF ShutdownRestore, StopInv, appVars, sysVars
<1>8. CASE ShutdownRestored
  <2>1. op[Main] = "disable" /\ pc[Main] = "done"
    BY <1>8 DEF ShutdownRestored, CtlInv, Placed, Calls, Runs
  <2>2. admin => backup = NoBackup
    BY <1>t, <2>1 DEF Smooth, Returned
  <2> QED BY <1>t, <1>8, <2>2 DEF ShutdownRestored, StopInv, appVars, sysVars
<1>9. CASE ShutdownUnlock
  <2>1. opMu = Main
    BY <1>t, <1>9 DEF ShutdownUnlock, CtlInv, Placed, InLock, IInv, LockHeld
  <2>2. \A t \in Threads \ {Main} : ctl[t] \notin Deciding
    BY <2>1 DEF CtlInv, Placed, InLock, Calls, Deciding, IInv, LockHeld
  <2>3. UNCHANGED <<stop, handoff, admin, backup>> /\ ctl' = [ctl EXCEPT ![Main] = "gone"]
    BY <1>9 DEF ShutdownUnlock, Return, appVars, disk
  <2> QED BY <1>t, <1>9, <2>2, <2>3 DEF ShutdownUnlock, StopInv, Deciding
<1>10. CASE LoopStep
  <2>1. UNCHANGED <<stop, handoff, admin, backup>>
    BY <1>10 DEF LoopStep, Boot, CheckNetwork, Tick, CheckActive, RepairLock, RepairCall,
                 Repaired, Lock, Call, Return, disk, sysVars, appVars
  <2>2. /\ \A t \in Threads \ {Loop} : ctl'[t] = ctl[t]
        /\ ctl'[Loop] \in {"probe", "lock", "idle", "repair", "wait", "repairCall", "repairing"}
    BY <1>t, <1>10 DEF LoopStep, Boot, CheckNetwork, Tick, CheckActive, RepairLock,
                       RepairCall, Repaired
  <2>3. ctl'[Main] = ctl[Main]
    BY <2>2, ProtectionAssumption
  <2> QED BY <2>1, <2>2, <2>3 DEF StopInv, Deciding
<1>11. ASSUME NEW t \in Threads, ReconcileStep(t) PROVE StopInv'
  <2>1. UNCHANGED <<stop, handoff, admin, backup>>
    BY <1>11 DEF ReconcileStep, ReconcileLock, ReadState, TakenBack, Decide, Settle, Leave,
                 Truncate, WriteConfig, Lock, Call, Return, sysVars, appVars, disk
  <2>2. \A u \in Threads \ {t} : ctl'[u] = ctl[u]
    BY <1>t, <1>11 DEF ReconcileStep, ReconcileLock, ReadState, TakenBack, Decide, Settle,
                       Leave, Truncate, WriteConfig, Save
  <2>3. CASE t = Main
    <3>1. ctl[Main] \in {"truncate", "write"} /\ ctl'[Main] \in {"write", "serve"}
      BY <1>t, <1>11, <2>3
      DEF ReconcileStep, ReconcileLock, ReadState, TakenBack, Decide, Settle, Leave,
          Truncate, WriteConfig, CtlInv, MainInv
    <3> QED BY <2>1, <3>1 DEF StopInv
  <2>4. CASE t # Main
    <3>1. ctl'[Main] = ctl[Main]
      BY <2>2, <2>4
    <3>2. ASSUME ctl[Main] = "gone" PROVE ctl'[t] \notin Deciding
      <4>1. stop /\ ctl[t] \notin Deciding
        BY <3>2 DEF StopInv
      <4>2. CASE ReconcileLock(t)
        BY <1>t, <4>1, <4>2 DEF ReconcileLock, Deciding
      <4>3. CASE Leave(t)
        BY <1>t, <4>3 DEF Leave, Home, Deciding
      <4>4. CASE Truncate(t)
        BY <1>t, <4>4 DEF Truncate, Deciding
      <4>5. CASE WriteConfig(t)
        BY <1>t, <4>5 DEF WriteConfig, Deciding, CtlInv, Placed
      <4> QED BY <1>11, <4>1, <4>2, <4>3, <4>4, <4>5
           DEF ReconcileStep, ReadState, TakenBack, Decide, Settle, Deciding
    <3> QED BY <2>1, <2>2, <3>1, <3>2 DEF StopInv
  <2> QED BY <2>3, <2>4
<1>12. ASSUME NEW p \in Panels, Click(p) \/ HandOff(p) PROVE StopInv'
  <2>1. UNCHANGED <<admin, backup>> /\ (stop => stop') /\ (handoff => handoff')
    BY <1>12 DEF Click, SetProtection, SetBlocklist, InstallFromPanel, HandOff, sysVars, appVars
  <2>2. \A t \in Threads \ {p} : ctl'[t] = ctl[t]
    BY <1>t, <1>12 DEF Click, SetProtection, SetBlocklist, InstallFromPanel, HandOff, Save
  <2>3. p \in Threads /\ p # Main
    BY ProtectionAssumption
  <2>4. ctl'[p] \in {"truncate", "idle", "handingOff"}
    BY <1>t, <1>12, <2>3 DEF Click, SetProtection, SetBlocklist, InstallFromPanel, HandOff, Save
  <2> QED BY <2>1, <2>2, <2>3, <2>4 DEF StopInv, Deciding
<1>13. ASSUME NEW a \in Tools, RunTool(a) \/ ToolEnds(a) \/ ToolKilled(a) PROVE StopInv'
  <2>1. UNCHANGED <<ctl, stop, handoff, backup>>
    BY <1>13 DEF RunTool, ToolEnds, ToolKilled, Call, Return, Kill, ctlVars, appVars, disk
  <2>2. admin' = admin
    BY <1>13, MainAndLoop, ConstantsAssumption
    DEF RunTool, ToolEnds, ToolKilled, Call, Return, Kill
  <2> QED BY <2>1, <2>2 DEF StopInv
<1>14. ASSUME NEW a \in Actors, Proceed(a) PROVE StopInv'
  <2>1. UNCHANGED <<ctl, stop, handoff, admin>> /\ Step(a) /\ Busy(a)
    BY <1>14, StepMoves DEF Proceed, ctlVars, appVars, TypeOK
  <2>2. ASSUME ctl[Main] \in {"unlock", "gone"}, backup' # backup PROVE backup' = NoBackup
    <3> SUFFICES ASSUME backup' # NoBackup PROVE FALSE
      OBVIOUS
    <3>1. a \in Threads /\ opMu = a /\ op[a] = "enable"
      BY <2>1, <2>2, WhoWrites
    <3>2. ctl[a] = "enabling"
      BY <2>1, <3>1 DEF CtlInv, Placed, Calls, Runs
    <3>3. ctl[Main] = "unlock"
      BY <2>2, <3>1, <3>2 DEF StopInv, Deciding
    <3>4. opMu = Main
      BY <3>3 DEF CtlInv, Placed, InLock, IInv, LockHeld
    <3> QED BY <3>1, <3>2, <3>3, <3>4
  <2> QED BY <2>1, <2>2 DEF StopInv
<1>15. CASE NetworkChanges \/ LeaseArrives
  <2>1. UNCHANGED <<ctl, stop, handoff, admin, backup>>
    BY <1>15 DEF NetworkChanges, LeaseArrives, Lease, ctlVars, appVars, sysVars
  <2> QED BY <2>1 DEF StopInv
<1> QED
  BY <1>1, <1>2, <1>3, <1>4, <1>5, <1>6, <1>7, <1>8, <1>9, <1>10, <1>11, <1>12, <1>13, <1>14,
     <1>15
  DEF Next, MainStep, Crash, Exit

-----------------------------------------------------------------------------
(* The theorems *)

ControlInv == IInv /\ Returned /\ TypeOK /\ CtlInv /\ Honest

LEMMA CtlInit ==
  ASSUME Init
  PROVE  CtlInv
<1>1. \A t \in Threads : pc[t] = "idle" /\ ctl[t] = "off"
  BY DEF Init, SysInit, Actors
<1> QED BY <1>1, MainAndLoop DEF CtlInv, Placed, MainInv, InLock, Busy, Calls

LEMMA ControlInvInit == Init => ControlInv
<1> SUFFICES ASSUME Init PROVE ControlInv
  OBVIOUS
<1>1. IInv
  BY IInvInit DEF Init
<1>2. Returned /\ backup = NoBackup
  BY DEF Init, SysInit, Returned
<1>3. TypeOK
  BY <1>1, InitType DEF IInv
<1>4. CtlInv
  BY CtlInit
<1> QED BY <1>1, <1>2, <1>3, <1>4 DEF ControlInv, Honest

LEMMA ControlInvStep == Answerable /\ ControlInv /\ [Next]_vars => ControlInv'
<1> SUFFICES ASSUME Answerable, ControlInv, [Next]_vars PROVE ControlInv'
  OBVIOUS
<1> USE DEF ControlInv
<1>1. [SysNext]_sysVars
  BY ControllerStep
<1>2. IInv' /\ Returned'
  BY <1>1, IInvStep, ReturnedStep
<1>3. TypeOK'
  BY <1>2, TypeOKStep DEF IInv
<1> QED BY <1>2, <1>3, CtlStep, HonestStep

THEOREM ControlInvariant ==
  ASSUME Answerable
  PROVE  Spec => []ControlInv
<1>1. ControlInv /\ [Next]_vars => ControlInv'
  BY ControlInvStep
<1> QED BY <1>1, ControlInvInit, PTL DEF Spec

\* A machine without a backup that no goroutine is working on is clean, even
\* if a tool is in the middle of something.
LEMMA NoBackupClean ==
  ASSUME IInv, Returned, opMu = Nobody, backup = NoBackup
  PROVE  Clean
<1>1. CASE \A a \in Actors : ~Busy(a)
  BY <1>1 DEF IInv, Sound
<1>2. ASSUME NEW a \in Actors, Busy(a) PROVE Clean
  <2>1. BusyInv(a) /\ pc[a] \in Labels
    BY <1>2, AtStep
  <2>2. a \in Tools
    BY <1>2, ConstantsAssumption DEF Actors, IInv, LockHeld, Busy
  <2>3. op[a] \in {"none", "disable"}
    BY <2>2 DEF Returned
  <2>4. pc[a] = "load"
    BY <1>2, <2>1, <2>3 DEF BusyInv, Working, Labels, Busy
  <2> QED BY <2>1, <2>4 DEF BusyInv, Sound
<1> QED BY <1>1, <1>2

LEMMA ControlInvClean == ControlInv => OffMeansClean
<1> SUFFICES ASSUME ControlInv, proc = "up", ctl[Loop] \notin {"off", "boot"},
                    opMu = Nobody, ~active
             PROVE  backup = NoBackup /\ ~Pointed /\ ~nmDropIn
  BY DEF OffMeansClean
<1>1. \A t \in Threads : ~Redirecting(t)
  BY ConstantsAssumption
  DEF Redirecting, ControlInv, CtlInv, Placed, Calls, IInv, LockHeld, InLock
<1>2. backup = NoBackup
  BY <1>1 DEF ControlInv, Honest
<1>3. Clean
  BY <1>2, NoBackupClean DEF ControlInv
<1> QED BY <1>2, <1>3 DEF Clean, Pointed

\* "Off" on the panel is true between operations: no backup is left and the
\* machine does not ask Ceky, for any number of panel requests, tools, failing
\* writes, leases, crashes and restarts.
THEOREM OffIsTrue ==
  ASSUME Answerable
  PROVE  Spec => []OffMeansClean
  BY ControlInvariant, ControlInvClean, PTL

LEMMA StopInvClean == ControlInv /\ StopInv => StoppedClean
<1> SUFFICES ASSUME ControlInv, StopInv, ctl[Main] = "gone", ~handoff, admin
             PROVE  backup = NoBackup /\ ~Pointed
  BY DEF StoppedClean, At
<1>1. backup = NoBackup
  BY DEF StopInv
<1> QED BY <1>1, IInvBackedUp DEF ControlInv, PointedHasBackup

\* Once the shutdown is over, no goroutine can have redirected the machine
\* again: whatever requests, repairs, tools and leases came in between.
THEOREM StoppedIsClean ==
  ASSUME Undisturbed
  PROVE  Spec => []StoppedClean
<1>1. Init => Smooth /\ StopInv
  BY MainAndLoop DEF Init, SysInit, Smooth, StopInv, Actors
<1>2. ControlInv /\ ControlInv' /\ Smooth /\ StopInv /\ [Next]_vars => Smooth' /\ StopInv'
  BY ControllerStep, SmoothStep, StopStep DEF ControlInv
<1>3. ControlInv /\ StopInv => StoppedClean
  BY StopInvClean
<1>4. Answerable
  BY UndisturbedAnswerable
<1> QED BY <1>1, <1>2, <1>3, <1>4, ControlInvariant, PTL DEF Spec

-----------------------------------------------------------------------------
(* The setting in memory and in config.json *)

Saving(t) == ctl[t] \in {"truncate", "write"}

\* No two goroutines write config.json at the same time.  The code does not see
\* to it: the config is copied under mu and written after it.
SavesApart == \A t, u \in Threads : Saving(t) /\ Saving(u) => t = u

\* No crash has left config.json empty when the next process starts.  Nor does
\* the code see to this: os.WriteFile empties the file before it fills it.
WholeAtStart == proc = "down" => cfgFile # "torn"

\* What a goroutine is about to write is what the process works with.
DraftsKept == \A t \in Threads : Saving(t) => draft[t] = want

\* A step that changes neither the setting nor who is saving it.
LEMMA SettingUntouched ==
  ASSUME SettingKept, DraftsKept, UNCHANGED <<proc, want, cfgFile>>,
         \A t \in Threads : (Saving(t))' <=> Saving(t),
         \A t \in Threads : Saving(t) => draft'[t] = draft[t]
  PROVE  SettingKept' /\ DraftsKept'
  BY DEF SettingKept, DraftsKept, Saving

\* A goroutine saves the setting as it is from now on, the only one to do so.
LEMMA SavesSetting ==
  ASSUME TypeOK, want' \in BOOLEAN, SavesApart',
         NEW t \in Threads, NEW place, Save(t, want', place)
  PROVE  SettingKept' /\ DraftsKept'
<1>1. ctl'[t] = "truncate" /\ draft'[t] = want'
  BY DEF TypeOK, Save, Move
<1>2. \A u \in Threads : (Saving(u))' => u = t
  BY <1>1 DEF SavesApart, Saving
<1> QED BY <1>1, <1>2 DEF SettingKept, DraftsKept, Saving

LEMMA SettingStep ==
  ASSUME TypeOK, TypeOK', CtlInv, SavesApart', WholeAtStart, SettingKept, DraftsKept,
         [Next]_vars
  PROVE  SettingKept' /\ DraftsKept'
<1> USE MainAndLoop
<1>t. /\ ctl \in [Threads -> Places] /\ draft \in [Threads -> BOOLEAN]
      /\ cont \in [Threads -> Places] /\ want \in BOOLEAN /\ want' \in BOOLEAN
  BY DEF TypeOK
<1>1. CASE UNCHANGED vars
  BY <1>1, SettingUntouched DEF vars, appVars, ctlVars, Saving
<1>2. CASE Start
  <2>1. \A t \in Threads : ctl[t] = "off"
    BY <1>2 DEF Start, CtlInv, MainInv
  <2>2. cfgFile # "torn" /\ cfgFile' = cfgFile
    BY <1>2 DEF Start, WholeAtStart
  <2>3. ctl'[Main] = "truncate" /\ draft'[Main] = want'
    BY <1>2, <1>t, <2>2 DEF Start, Move
  <2>4. \A t \in Threads \ {Main} : ctl'[t] = "off"
    BY <1>2, <1>t, <2>1 DEF Start, Move
  <2> QED BY <2>3, <2>4 DEF SettingKept, DraftsKept, Saving
<1>3. ASSUME ProcessEnds PROVE SettingKept' /\ DraftsKept'
  BY <1>3 DEF ProcessEnds, SettingKept, DraftsKept, Saving
<1>4. CASE Launch
  <2>1. \A t \in Threads : ~Saving(t)
    BY <1>4 DEF Launch, At, CtlInv, MainInv, Saving
  <2>2. \A t \in Threads : ~(Saving(t))'
    BY <1>4, <1>t DEF Launch, Saving
  <2> QED BY <1>4, <2>1, <2>2, SettingUntouched DEF Launch, appVars
\* A goroutine that goes from one place to another where nothing is saved.
<1>5. ASSUME NEW t \in Threads, ~Saving(t), NEW place \in Places \ {"truncate", "write"},
             Move(t, place), UNCHANGED <<proc, want, cfgFile, draft>>
      PROVE  SettingKept' /\ DraftsKept'
  <2>1. \A u \in Threads : (Saving(u))' <=> Saving(u)
    BY <1>5, <1>t DEF Move, Saving
  <2> QED BY <1>5, <2>1, SettingUntouched
<1>6. CASE RequestStop \/ ShutdownLock \/ ShutdownRestore \/ ShutdownRestored \/ ShutdownUnlock
  <2>1. /\ ctl[Main] \notin {"truncate", "write"}
        /\ UNCHANGED <<proc, want, cfgFile, draft>>
    BY <1>6 DEF RequestStop, ShutdownLock, ShutdownRestore, ShutdownRestored,
                ShutdownUnlock, At, appVars
  <2>2. \E place \in {"stopping", "closing", "restoring", "unlock", "gone"} :
          Move(Main, place)
    BY <1>6 DEF RequestStop, ShutdownLock, ShutdownRestore, ShutdownRestored,
                ShutdownUnlock
  <2> QED BY <1>5, <2>1, <2>2, PlaceNames DEF Saving
<1>7. CASE LoopStep
  <2>1. ctl[Loop] \notin {"truncate", "write"} /\ UNCHANGED <<proc, want, cfgFile, draft>>
    BY <1>7 DEF LoopStep, Boot, CheckNetwork, Tick, CheckActive, RepairLock, RepairCall,
                Repaired, At, appVars
  <2>2. \E place \in {"probe", "lock", "idle", "repair", "wait", "repairCall", "repairing"} :
          Move(Loop, place)
    BY <1>7 DEF LoopStep, Boot, CheckNetwork, Tick, CheckActive, RepairLock, RepairCall,
                Repaired
  <2> QED BY <1>5, <2>1, <2>2, PlaceNames DEF Saving
<1>8. ASSUME NEW t \in Threads, ReconcileStep(t) PROVE SettingKept' /\ DraftsKept'
  <2>1. CASE Truncate(t)
    <3>1. \A u \in Threads : (Saving(u))' <=> Saving(u)
      BY <2>1, <1>t DEF Truncate, At, Move, Saving
    <3> QED BY <2>1, <3>1 DEF Truncate, At, Move, appVars, SettingKept, DraftsKept, Saving
  <2>2. CASE WriteConfig(t)
    <3>1. cont[t] \notin {"truncate", "write"} /\ draft[t] = want
      BY <2>2 DEF WriteConfig, At, CtlInv, Placed, DraftsKept, Saving
    <3>2. cfgFile' = IF want' THEN "on" ELSE "off"
      BY <2>2, <3>1 DEF WriteConfig, appVars
    <3>3. \A u \in Threads : (Saving(u))' => Saving(u) /\ draft'[u] = draft[u]
      BY <2>2, <3>1, <1>t DEF WriteConfig, Move, Saving
    <3> QED BY <2>2, <3>2, <3>3 DEF WriteConfig, appVars, SettingKept, DraftsKept, Saving
  <2>3. CASE TakenBack(t)
    BY <2>3, <1>t, SavesSetting DEF TakenBack
  <2>4. CASE ReconcileLock(t) \/ ReadState(t) \/ Decide(t) \/ Settle(t) \/ Leave(t)
    <3>1. /\ ctl[t] \notin {"truncate", "write"}
          /\ UNCHANGED <<proc, want, cfgFile, draft>>
      BY <2>4 DEF ReconcileLock, ReadState, Decide, Settle, Leave, At, appVars
    <3>2. \E place \in {"leave", "read", "decide", "enabling", "suspending", "disabling",
                        "idle", "isActive", "wait"} : Move(t, place)
      BY <2>4 DEF ReconcileLock, ReadState, Decide, Settle, Leave, Home
    <3> QED BY <1>5, <3>1, <3>2, PlaceNames DEF Saving
  <2> QED BY <1>8, <2>1, <2>2, <2>3, <2>4 DEF ReconcileStep
<1>9. ASSUME NEW p \in Panels, Click(p) \/ HandOff(p) PROVE SettingKept' /\ DraftsKept'
  <2>1. ASSUME NEW on \in BOOLEAN, SetProtection(p, on) PROVE SettingKept' /\ DraftsKept'
    BY <2>1, <1>t, SavesSetting DEF SetProtection
  <2>2. CASE SetBlocklist(p)
    <3>1. Save(p, want', "idle")
      BY <2>2 DEF SetBlocklist, appVars
    <3> QED BY <3>1, <1>t, SavesSetting
  <2>3. CASE InstallFromPanel(p)
    BY <2>3, <1>5, PlaceNames DEF InstallFromPanel, Request, At, Saving
  <2>4. CASE HandOff(p)
    BY <2>4, <1>5, PlaceNames DEF HandOff, At, Saving
  <2> QED BY <1>9, <2>1, <2>2, <2>3, <2>4 DEF Click
<1>10. ASSUME UNCHANGED <<appVars, ctlVars, cfgFile>> PROVE SettingKept' /\ DraftsKept'
  BY <1>10, SettingUntouched DEF appVars, ctlVars, Saving
<1>11. ASSUME NEW a \in Tools, RunTool(a) \/ ToolEnds(a) \/ ToolKilled(a)
       PROVE  UNCHANGED <<appVars, ctlVars, cfgFile>>
  BY <1>11 DEF RunTool, ToolEnds, ToolKilled
<1>12. ASSUME NEW a \in Actors, Proceed(a) PROVE UNCHANGED <<appVars, ctlVars, cfgFile>>
  BY <1>12 DEF Proceed
<1>13. ASSUME NetworkChanges \/ LeaseArrives PROVE UNCHANGED <<appVars, ctlVars, cfgFile>>
  BY <1>13 DEF NetworkChanges, LeaseArrives
<1>14. CASE MainStep
  BY <1>3, <1>4, <1>6, <1>14 DEF MainStep, Exit
<1> QED
  BY <1>1, <1>2, <1>3, <1>6, <1>7, <1>8, <1>9, <1>10, <1>11, <1>12, <1>13, <1>14
  DEF Next, Crash

\* There are two ways to lose what the user chose, and no third: two saves of
\* config.json at the same time, and a start from a file that a crash left
\* empty.  Without them the file says what the process works with whenever
\* nobody is saving it, for any number of requests, tools and restarts.
THEOREM SettingIsKept == Spec /\ [](SavesApart /\ WholeAtStart) => []SettingKept
<1>1. Init => CtlInv /\ SettingKept /\ DraftsKept
  BY CtlInit DEF Init, SettingKept, DraftsKept, Saving
<1>2. TypeOK /\ TypeOK' /\ CtlInv /\ [Next]_vars => CtlInv'
  BY CtlStep
<1>3. /\ TypeOK /\ TypeOK' /\ CtlInv /\ SavesApart' /\ WholeAtStart
      /\ SettingKept /\ DraftsKept /\ [Next]_vars
      => SettingKept' /\ DraftsKept'
  BY SettingStep
<1> QED BY <1>1, <1>2, <1>3, ControllerTypesCorrect, PTL DEF Spec

=============================================================================
