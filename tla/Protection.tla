----------------------------- MODULE Protection -----------------------------
(***************************************************************************)
(* The protection controller (app.go) over SystemDNS.                      *)
(*                                                                         *)
(* One process at a time runs: a main goroutine (start, shutdown), the     *)
(* control loop (probe the roots, reconcile, repair) and the panel's HTTP  *)
(* handlers (protection on/off, ad blocking on/off, "Kalıcı Kur").  They   *)
(* share the fields of App under mu, the config in memory and on disk, and *)
(* the system DNS operations under opMu.  The command line's restore is a  *)
(* process of its own.  Processes crash, stop on a signal, hand over to    *)
(* the service, and start again from what is on disk.                      *)
(*                                                                         *)
(* Every section the code runs under mu is one action; each read of the    *)
(* disk and each write to it is an action of its own (SystemDNS).          *)
(***************************************************************************)
EXTENDS SystemDNS, Naturals

CONSTANTS
  Main, Loop,      \* the goroutines that every process has
  Panels,          \* the goroutines of the panel's handlers
  FailSafe,        \* cfg.FailSafe
  Modes,           \* how a process may be started: "app", "service"
  MaxRuns,         \* how often a process is started
  MaxClicks,       \* how often the panel is used
  MaxRestores,     \* how often a command line tool is run
  MaxLeases        \* how often a DHCP client writes resolv.conf

ASSUME ProtectionAssumption ==
  /\ Main # Loop
  /\ {Main, Loop} \cap Panels = {}
  /\ Threads = {Main, Loop} \cup Panels
  /\ FailSafe \in BOOLEAN
  /\ Modes \in (SUBSET {"app", "service"}) \ {{}}
  /\ {MaxRuns, MaxClicks, MaxRestores, MaxLeases} \subseteq Nat

VARIABLES
  proc,        \* is a process running?
  mode,        \* "app" (started by the user) or "service"
  stop,        \* has a.stop been closed?
  handoff,     \* a.handoff: the service takes over, leave the DNS alone
  want,        \* cfg.AutoEnable in memory
  cfgFile,     \* the same in config.json: "on", "off", "none" or "torn"
  active,      \* a.sysActive
  suspended,   \* a.suspended
  healthy,     \* a.probe.Healthy()
  okStreak,    \* a.okStreak, counted up to 2
  failStreak,  \* a.failStreak, counted up to 3
  ticking,     \* has the control loop's ticker fired yet?
  ctl,         \* where each goroutine is
  seen,        \* what each one read under mu, or NoRead
  draft,       \* the AutoEnable each one is about to write to config.json
  cont,        \* where it goes on after that
  net,         \* can the root servers be reached?
  used         \* how often each bounded thing has happened

appVars == <<proc, mode, stop, handoff, want, active, suspended, healthy, okStreak,
             failStreak, ticking>>
ctlVars == <<ctl, seen, draft, cont>>
vars == <<sysVars, appVars, ctlVars, cfgFile, net, used>>

NoRead == [want |-> FALSE, active |-> FALSE, suspended |-> FALSE,
           healthy |-> FALSE, twoOk |-> FALSE, threeFail |-> FALSE]

Reads == [want : BOOLEAN, active : BOOLEAN, suspended : BOOLEAN,
          healthy : BOOLEAN, twoOk : BOOLEAN, threeFail : BOOLEAN]

Places ==
  { "off", "idle",                                   \* not there, not used
    "truncate", "write",                             \* saveConfig
    "serve", "waiting", "stopping", "closing", "restoring",     \* runApp, shutdown
    "unlock", "gone",
    "boot", "probe", "wait", "isActive", "repair",   \* controlLoop
    "repairCall", "repairing",
    "lock", "read", "decide", "enabling",            \* reconcile
    "suspending", "disabling", "leave",
    "handingOff" }                                   \* installFromPanel

Counts == [runs : 0..MaxRuns, clicks : 0..MaxClicks,
           restores : 0..MaxRestores, leases : 0..MaxLeases]

TypeOK ==
  /\ SysTypeOK
  /\ proc \in {"up", "down"}
  /\ mode \in {"app", "service"}
  /\ stop \in BOOLEAN
  /\ handoff \in BOOLEAN
  /\ want \in BOOLEAN
  /\ cfgFile \in {"on", "off", "none", "torn"}
  /\ active \in BOOLEAN
  /\ suspended \in BOOLEAN
  /\ healthy \in BOOLEAN
  /\ okStreak \in 0..2
  /\ failStreak \in 0..3
  /\ ticking \in BOOLEAN
  /\ ctl \in [Threads -> Places]
  /\ seen \in [Threads -> Reads]
  /\ draft \in [Threads -> BOOLEAN]
  /\ cont \in [Threads -> Places]
  /\ net \in BOOLEAN
  /\ used \in Counts

Init ==
  /\ SysInit
  /\ proc = "down"
  /\ mode = "app"
  /\ stop = FALSE
  /\ handoff = FALSE
  /\ want = FALSE
  /\ cfgFile \in {"on", "off", "none"}
  /\ active = FALSE
  /\ suspended = FALSE
  /\ healthy = FALSE
  /\ okStreak = 0
  /\ failStreak = 0
  /\ ticking = FALSE
  /\ ctl = [t \in Threads |-> "off"]
  /\ seen = [t \in Threads |-> NoRead]
  /\ draft = [t \in Threads |-> FALSE]
  /\ cont = [t \in Threads |-> "off"]
  /\ net \in BOOLEAN
  /\ used = [runs |-> 0, clicks |-> 0, restores |-> 0, leases |-> 0]

-----------------------------------------------------------------------------
(* Helpers *)

At(t, place) == ctl[t] = place

Move(t, place) == ctl' = [ctl EXCEPT ![t] = place]

\* A further use of a bounded thing.
Use(what, max) ==
  /\ used[what] < max
  /\ used' = [used EXCEPT ![what] = @ + 1]

\* saveConfig(snapshot), to be written in the two steps below; then at place.
Save(t, value, place) ==
  /\ Move(t, "truncate")
  /\ draft' = [draft EXCEPT ![t] = value]
  /\ cont' = [cont EXCEPT ![t] = place]

\* The goroutine's next place once its handler or its round is over.
Home(t) == IF t # Loop THEN "idle" ELSE IF ticking THEN "isActive" ELSE "wait"

-----------------------------------------------------------------------------
(* saveConfig: os.WriteFile empties the file, then fills it *)

Truncate(t) ==
  /\ At(t, "truncate")
  /\ cfgFile' = "torn"
  /\ Move(t, "write")
  /\ UNCHANGED <<sysVars, appVars, seen, draft, cont, net, used>>

WriteConfig(t) ==
  /\ At(t, "write")
  /\ cfgFile' = IF draft[t] THEN "on" ELSE "off"
  /\ Move(t, cont[t])
  /\ draft' = [draft EXCEPT ![t] = FALSE]
  /\ cont' = [cont EXCEPT ![t] = "off"]
  /\ UNCHANGED <<sysVars, appVars, seen, net, used>>

-----------------------------------------------------------------------------
(* runApp and shutdown: the main goroutine *)

\* loadConfig: a missing file or one that cannot be read gives the default,
\* which is on; the config is then written back, unless it could not be read.
\* Then the panel serves and the control loop starts.
Start ==
  /\ proc = "down"
  /\ Use("runs", MaxRuns)
  /\ proc' = "up"
  /\ mode' \in Modes
  /\ want' = (cfgFile # "off")
  /\ draft' = [draft EXCEPT ![Main] = (cfgFile # "off")]
  /\ cont' = [cont EXCEPT ![Main] = "serve"]
  /\ Move(Main, IF cfgFile = "torn" THEN "serve" ELSE "truncate")
  /\ UNCHANGED <<sysVars, stop, handoff, cfgFile, active, suspended, healthy,
                 okStreak, failStreak, ticking, seen, net>>

Launch ==
  /\ At(Main, "serve")
  /\ ctl' = [t \in Threads |-> CASE t = Main -> "waiting"
                                 [] t = Loop -> "boot"
                                 [] OTHER -> "idle"]
  /\ UNCHANGED <<sysVars, appVars, seen, draft, cont, cfgFile, net, used>>

\* A signal, or a.stop closed by the panel; then shutdown's requestStop.
RequestStop ==
  /\ At(Main, "waiting")
  /\ stop' = TRUE
  /\ Move(Main, "stopping")
  /\ UNCHANGED <<sysVars, proc, mode, handoff, want, active, suspended, healthy,
                 okStreak, failStreak, ticking, seen, draft, cont, cfgFile, net, used>>

ShutdownLock ==
  /\ At(Main, "stopping")
  /\ Lock(Main)
  /\ Move(Main, "closing")
  /\ UNCHANGED <<appVars, seen, draft, cont, cfgFile, net, used>>

\* Hand over to the service, which may not start; else restore, if there is a
\* backup.
ShutdownRestore ==
  /\ At(Main, "closing")
  /\ \/ /\ handoff
        /\ Move(Main, "unlock")
        /\ UNCHANGED sysVars
     \/ /\ handoff
        /\ Call(Main, "disable")
        /\ Move(Main, "restoring")
     \/ /\ ~handoff /\ backup # NoBackup
        /\ Call(Main, "disable")
        /\ Move(Main, "restoring")
     \/ /\ ~handoff /\ backup = NoBackup
        /\ Move(Main, "unlock")
        /\ UNCHANGED sysVars
  /\ UNCHANGED <<appVars, seen, draft, cont, cfgFile, net, used>>

ShutdownRestored ==
  /\ At(Main, "restoring")
  /\ pc[Main] = "done"
  /\ Move(Main, "unlock")
  /\ UNCHANGED <<sysVars, appVars, seen, draft, cont, cfgFile, net, used>>

\* The deferred opMu.Unlock; the other goroutines run until main returns.
ShutdownUnlock ==
  /\ At(Main, "unlock")
  /\ Return(Main)
  /\ Move(Main, "gone")
  /\ UNCHANGED <<appVars, seen, draft, cont, cfgFile, net, used>>

\* What the process had in memory is gone.
ProcessEnds ==
  /\ Kill(Threads)
  /\ proc' = "down"
  /\ mode' = "app"
  /\ stop' = FALSE
  /\ handoff' = FALSE
  /\ want' = FALSE
  /\ active' = FALSE
  /\ suspended' = FALSE
  /\ healthy' = FALSE
  /\ okStreak' = 0
  /\ failStreak' = 0
  /\ ticking' = FALSE
  /\ ctl' = [t \in Threads |-> "off"]
  /\ seen' = [t \in Threads |-> NoRead]
  /\ draft' = [t \in Threads |-> FALSE]
  /\ cont' = [t \in Threads |-> "off"]
  /\ UNCHANGED <<cfgFile, net, used>>

Exit == At(Main, "gone") /\ ProcessEnds

\* SIGKILL, a panic, a power cut.
Crash ==
  /\ proc = "up"
  /\ ~At(Main, "gone")
  /\ used.runs < MaxRuns
  /\ ProcessEnds

-----------------------------------------------------------------------------
(* controlLoop *)

\* A wrong version, for the checks: the previous run's backup is not noticed.
BootBlind ==
  /\ At(Loop, "boot")
  /\ Move(Loop, "probe")
  /\ UNCHANGED <<sysVars, appVars, seen, draft, cont, cfgFile, net, used>>

\* A backup left by the previous run means that protection is on.
Boot ==
  /\ At(Loop, "boot")
  /\ active' = (active \/ backup # NoBackup)
  /\ Move(Loop, "probe")
  /\ UNCHANGED <<sysVars, proc, mode, stop, handoff, want, suspended, healthy, okStreak,
                 failStreak, ticking, seen, draft, cont, cfgFile, net, used>>

\* Two wrong versions: a success does not end the run of failures; a failure
\* starts it again.
CheckNetworkNoReset ==
  /\ At(Loop, "probe")
  /\ healthy' = net
  /\ okStreak' = IF okStreak = 2 THEN 2 ELSE okStreak + 1
  /\ failStreak' = failStreak + 1
  /\ Move(Loop, "lock")
  /\ UNCHANGED <<sysVars, proc, mode, stop, handoff, want, active, suspended, ticking,
                 seen, draft, cont, cfgFile, net, used>>

CheckNetworkRestarts ==
  /\ At(Loop, "probe")
  /\ healthy' = net
  /\ okStreak' = IF net THEN IF okStreak = 2 THEN 2 ELSE okStreak + 1 ELSE 0
  /\ failStreak' = IF net THEN 0 ELSE 1
  /\ Move(Loop, "lock")
  /\ UNCHANGED <<sysVars, proc, mode, stop, handoff, want, active, suspended, ticking,
                 seen, draft, cont, cfgFile, net, used>>

\* checkNetwork.
CheckNetwork ==
  /\ At(Loop, "probe")
  /\ healthy' = net
  /\ okStreak' = IF net THEN IF okStreak = 2 THEN 2 ELSE okStreak + 1 ELSE 0
  /\ failStreak' = IF net THEN 0 ELSE IF failStreak = 3 THEN 3 ELSE failStreak + 1
  /\ Move(Loop, "lock")
  /\ UNCHANGED <<sysVars, proc, mode, stop, handoff, want, active, suspended, ticking,
                 seen, draft, cont, cfgFile, net, used>>

\* The select between the ticker and a.stop, both of which may be ready.
Tick ==
  /\ At(Loop, "wait")
  /\ \/ /\ Move(Loop, "probe")
        /\ ticking' = TRUE
     \/ /\ stop
        /\ Move(Loop, "idle")
        /\ UNCHANGED ticking
  /\ UNCHANGED <<sysVars, proc, mode, stop, handoff, want, active, suspended, healthy,
                 okStreak, failStreak, seen, draft, cont, cfgFile, net, used>>

\* The read of sysActive under mu; opMu is taken only after it.
CheckActive ==
  /\ At(Loop, "isActive")
  /\ Move(Loop, IF active THEN "repair" ELSE "wait")
  /\ UNCHANGED <<sysVars, appVars, seen, draft, cont, cfgFile, net, used>>

RepairLock ==
  /\ At(Loop, "repair")
  /\ Lock(Loop)
  /\ Move(Loop, "repairCall")
  /\ UNCHANGED <<appVars, seen, draft, cont, cfgFile, net, used>>

RepairCall ==
  /\ At(Loop, "repairCall")
  /\ Call(Loop, "sync")
  /\ Move(Loop, "repairing")
  /\ UNCHANGED <<appVars, seen, draft, cont, cfgFile, net, used>>

Repaired ==
  /\ At(Loop, "repairing")
  /\ pc[Loop] = "done"
  /\ Return(Loop)
  /\ Move(Loop, "wait")
  /\ UNCHANGED <<appVars, seen, draft, cont, cfgFile, net, used>>

-----------------------------------------------------------------------------
(* reconcile, run by the control loop and by the panel's handlers *)

\* A wrong version: a.stop is not looked at.
ReconcileLockAlways(t) ==
  /\ At(t, "lock")
  /\ Lock(t)
  /\ Move(t, "read")
  /\ UNCHANGED <<appVars, seen, draft, cont, cfgFile, net, used>>

ReconcileLock(t) ==
  /\ At(t, "lock")
  /\ Lock(t)
  /\ Move(t, IF stop THEN "leave" ELSE "read")
  /\ UNCHANGED <<appVars, seen, draft, cont, cfgFile, net, used>>

ReadState(t) ==
  /\ At(t, "read")
  /\ seen' = [seen EXCEPT ![t] =
        [want |-> want, active |-> active, suspended |-> suspended,
         healthy |-> healthy, twoOk |-> okStreak >= 2, threeFail |-> failStreak >= 3]]
  /\ Move(t, "decide")
  /\ UNCHANGED <<sysVars, appVars, draft, cont, cfgFile, net, used>>

\* The backup is gone: somebody restored the setting from outside.  The user
\* wanted protection off, so it is turned off and the config saved.
TakenBack(t) ==
  /\ At(t, "decide")
  /\ seen[t].active /\ backup = NoBackup
  /\ active' = FALSE
  /\ want' = (want /\ ~seen[t].want)
  /\ Save(t, want', "leave")
  /\ UNCHANGED <<sysVars, proc, mode, stop, handoff, suspended, healthy, okStreak,
                 failStreak, ticking, seen, cfgFile, net, used>>

\* A wrong version: what fail-safe suspended never comes back.
ShouldEnableOnce(r) == r.want /\ ~r.active /\ r.healthy /\ ~r.suspended

ShouldEnable(r) == r.want /\ ~r.active /\ r.healthy /\ (~r.suspended \/ r.twoOk)
ShouldSuspend(r) == r.want /\ r.active /\ ~r.healthy /\ FailSafe /\ r.threeFail
ShouldDisable(r) == ~r.want /\ r.active

Decide(t) ==
  /\ At(t, "decide")
  /\ ~(seen[t].active /\ backup = NoBackup)
  /\ \/ /\ admin /\ ShouldEnable(seen[t])
        /\ Call(t, "enable")
        /\ Move(t, "enabling")
        /\ UNCHANGED suspended
     \/ /\ admin /\ ShouldSuspend(seen[t])
        /\ Call(t, "disable")
        /\ Move(t, "suspending")
        /\ UNCHANGED suspended
     \/ /\ admin /\ ShouldDisable(seen[t])
        /\ Call(t, "disable")
        /\ Move(t, "disabling")
        /\ UNCHANGED suspended
     \/ /\ admin /\ ~seen[t].want /\ ~seen[t].active
        /\ suspended' = FALSE
        /\ Move(t, "leave")
        /\ UNCHANGED sysVars
     \/ /\ admin /\ seen[t].want
        /\ ~ShouldEnable(seen[t]) /\ ~ShouldSuspend(seen[t])
        /\ Move(t, "leave")
        /\ UNCHANGED <<sysVars, suspended>>
     \/ /\ ~admin
        /\ Move(t, "leave")
        /\ UNCHANGED <<sysVars, suspended>>
  /\ UNCHANGED <<proc, mode, stop, handoff, want, active, healthy, okStreak, failStreak,
                 ticking, seen, draft, cont, cfgFile, net, used>>

\* A wrong version: errors are not looked at.
SettleAnyway(t) ==
  /\ ctl[t] \in {"enabling", "suspending", "disabling"}
  /\ pc[t] = "done"
  /\ active' = At(t, "enabling")
  /\ suspended' = At(t, "suspending")
  /\ Move(t, "leave")
  /\ UNCHANGED <<sysVars, proc, mode, stop, handoff, want, healthy, okStreak, failStreak,
                 ticking, seen, draft, cont, cfgFile, net, used>>

\* The procedure has returned: record what became of it, under mu.
Settle(t) ==
  /\ ctl[t] \in {"enabling", "suspending", "disabling"}
  /\ pc[t] = "done"
  /\ IF err[t]
     THEN UNCHANGED <<active, suspended>>
     ELSE /\ active' = At(t, "enabling")
          /\ suspended' = At(t, "suspending")
  /\ Move(t, "leave")
  /\ UNCHANGED <<sysVars, proc, mode, stop, handoff, want, healthy, okStreak, failStreak,
                 ticking, seen, draft, cont, cfgFile, net, used>>

\* The deferred opMu.Unlock.
Leave(t) ==
  /\ At(t, "leave")
  /\ Return(t)
  /\ seen' = [seen EXCEPT ![t] = NoRead]
  /\ Move(t, Home(t))
  /\ UNCHANGED <<appVars, draft, cont, cfgFile, net, used>>

-----------------------------------------------------------------------------
(* The panel *)

\* A handler starts: the panel accepts requests until shutdown closes it.
Request(p) ==
  /\ p \in Panels
  /\ At(p, "idle")
  /\ ctl[Main] \in {"waiting", "stopping"}
  /\ Use("clicks", MaxClicks)

\* A wrong version: the choice is not written to config.json.
SetProtectionUnsaved(p, on) ==
  /\ Request(p)
  /\ want' = on
  /\ suspended' = FALSE
  /\ Move(p, "lock")
  /\ UNCHANGED <<sysVars, proc, mode, stop, handoff, active, healthy, okStreak, failStreak,
                 ticking, seen, draft, cont, cfgFile, net>>

\* setProtection(on)
SetProtection(p, on) ==
  /\ Request(p)
  /\ want' = on
  /\ suspended' = FALSE
  /\ Save(p, on, "lock")
  /\ UNCHANGED <<sysVars, proc, mode, stop, handoff, active, healthy, okStreak, failStreak,
                 ticking, seen, cfgFile, net>>

\* setBlocklist: the whole config is saved, AutoEnable as it is now with it.
SetBlocklist(p) ==
  /\ Request(p)
  /\ Save(p, want, "idle")
  /\ UNCHANGED <<sysVars, appVars, seen, cfgFile, net>>

\* installFromPanel: the files are in place; half a second later the process
\* is asked to stop.
InstallFromPanel(p) ==
  /\ Request(p)
  /\ mode = "app" /\ admin
  /\ handoff' = TRUE
  /\ Move(p, "handingOff")
  /\ UNCHANGED <<sysVars, proc, mode, stop, want, active, suspended, healthy, okStreak,
                 failStreak, ticking, seen, draft, cont, cfgFile, net>>

HandOff(p) ==
  /\ At(p, "handingOff")
  /\ stop' = TRUE
  /\ Move(p, "idle")
  /\ UNCHANGED <<sysVars, proc, mode, handoff, want, active, suspended, healthy, okStreak,
                 failStreak, ticking, seen, draft, cont, cfgFile, net, used>>

-----------------------------------------------------------------------------
(* The command line and the network *)

\* ceky-resolver restore or uninstall.
RunTool(a) ==
  /\ a \in Tools
  /\ Use("restores", MaxRestores)
  /\ Call(a, "disable")
  /\ UNCHANGED <<appVars, ctlVars, cfgFile, net>>

ToolEnds(a) ==
  /\ a \in Tools
  /\ Return(a)
  /\ UNCHANGED <<appVars, ctlVars, cfgFile, net, used>>

ToolKilled(a) ==
  /\ a \in Tools
  /\ pc[a] # "idle"
  /\ Kill({a})
  /\ UNCHANGED <<appVars, ctlVars, cfgFile, net, used>>

\* One step inside a procedure, of a goroutine or a tool.
Proceed(a) ==
  /\ Step(a)
  /\ UNCHANGED <<appVars, ctlVars, cfgFile, net, used>>

NetworkChanges ==
  /\ net' = ~net
  /\ UNCHANGED <<sysVars, appVars, ctlVars, cfgFile, used>>

LeaseArrives ==
  /\ Use("leases", MaxLeases)
  /\ \E file \in UserFiles : Lease(file)
  /\ UNCHANGED <<appVars, ctlVars, cfgFile, net>>

-----------------------------------------------------------------------------

MainStep ==
  \/ Launch \/ ShutdownLock \/ ShutdownRestore \/ ShutdownRestored
  \/ ShutdownUnlock \/ Exit

LoopStep == Boot \/ CheckNetwork \/ Tick \/ CheckActive \/ RepairLock \/ RepairCall \/ Repaired

ReconcileStep(t) ==
  \/ ReconcileLock(t) \/ ReadState(t) \/ TakenBack(t) \/ Decide(t) \/ Settle(t) \/ Leave(t)
  \/ Truncate(t) \/ WriteConfig(t)

Click(p) ==
  \/ \E on \in BOOLEAN : SetProtection(p, on)
  \/ SetBlocklist(p)
  \/ InstallFromPanel(p)

Next ==
  \/ Start \/ RequestStop \/ Crash
  \/ MainStep \/ LoopStep
  \/ \E t \in Threads : ReconcileStep(t)
  \/ \E p \in Panels : Click(p) \/ HandOff(p)
  \/ \E a \in Tools : RunTool(a) \/ ToolEnds(a) \/ ToolKilled(a)
  \/ \E a \in Actors : Proceed(a)
  \/ NetworkChanges
  \/ LeaseArrives

Spec == Init /\ [][Next]_vars

(* Fairness.  A goroutine that can go on does; sync.Mutex lets nobody starve; *)
(* a closed channel is received from; the tools run on.  Nothing is assumed of *)
(* the users, the network, DHCP, crashes and restarts.                         *)
Fairness ==
  /\ WF_vars(MainStep)
  /\ WF_vars(stop /\ RequestStop)
  /\ WF_vars(LoopStep)
  /\ SF_vars(ShutdownLock)
  /\ SF_vars(RepairLock)
  /\ \A t \in Threads :
       /\ WF_vars(ReconcileStep(t))
       /\ SF_vars(ReconcileLock(t))
  /\ \A p \in Panels : WF_vars(HandOff(p))
  /\ \A a \in Actors : WF_vars(Proceed(a))
  /\ \A a \in Tools : WF_vars(ToolEnds(a))

FairSpec == Spec /\ Fairness

-----------------------------------------------------------------------------
(* Properties *)

\* "Off" on the panel is true: between two operations, a process that shows
\* protection as off has left nothing behind on the machine and keeps no
\* backup, whatever failed, crashed or was restored from outside before.
OffMeansClean ==
  /\ proc = "up"
  /\ ctl[Loop] \notin {"off", "boot"}
  /\ opMu = Nobody
  /\ ~active
  => backup = NoBackup /\ ~Pointed /\ ~nmDropIn

\* Closing the program gives the machine back: once shutdown is over (and the
\* service has not taken over) no other goroutine can have redirected it
\* again.  README: "Pencereyi kapatırsanız DNS ayarlarınız eski haline döner."
StoppedClean ==
  At(Main, "gone") /\ ~handoff /\ admin => backup = NoBackup /\ ~Pointed

\* What config.json says is what the process works with, whenever no goroutine
\* is in the middle of saving it ("panelden değiştirilir", README.md).
SettingKept ==
  /\ proc = "up"
  /\ \A t \in Threads : ctl[t] \notin {"truncate", "write"}
  => cfgFile = IF want THEN "on" ELSE "off"

Steady == proc = "up" /\ ~stop /\ admin

\* Protection that stays wanted on a network that stays reachable comes on and
\* stays on.
ComesOn == <>[](Steady /\ want /\ net) => <>[]Pointed

\* "Güvenli mod": on a network that stays unreachable the machine goes back to
\* its old servers and stays there, however often the panel is used.
FailSafeWorks == <>[](Steady /\ ~net) => <>[]~Pointed

\* Protection that stays unwanted goes off: the setting is restored and the
\* backup gone.
OffIsOff == <>[](Steady /\ ~want) => <>[](backup = NoBackup /\ ~Pointed)

=============================================================================
