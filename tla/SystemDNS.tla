----------------------------- MODULE SystemDNS ------------------------------
(***************************************************************************)
(* The system DNS setting and its backup file (sysdns.go, sysdns_linux.go).*)
(*                                                                         *)
(* Three procedures change them: enableSystemDNS (back up, then redirect   *)
(* the machine to Ceky), disableSystemDNS (put the backup's setting back)  *)
(* and reconcileSystemDNS (repair what another program overwrote).  Each   *)
(* is a sequence of disk writes, and the module has one action per write,  *)
(* so that a crash, a failed write or another process can come between any *)
(* two of them.  The goroutines of the application run a procedure under   *)
(* App.opMu; the command line tools (restore, uninstall) are processes of  *)
(* their own that share nothing with them but the disk.                    *)
(*                                                                         *)
(* Here the callers are arbitrary: any procedure may be called at any time *)
(* the lock allows.  Protection.tla has the controller that really calls   *)
(* them.                                                                   *)
(***************************************************************************)
CONSTANTS
  Threads,         \* goroutines of the application, which call under opMu
  Tools,           \* command line processes, which call without a lock
  UserFiles,       \* contents of resolv.conf that Ceky did not write
  StubFiles,       \* those of them that name systemd-resolved's stub
  Links,           \* those of them that are symbolic links
  Ours,            \* the resolv.conf Ceky writes
  Missing,         \* there is no resolv.conf
  NoBackup,        \* there is no backup file
  Nobody,          \* opMu is free
  ResolvedActive,  \* does the machine run systemd-resolved?
  HasNM,           \* does the machine have NetworkManager's conf.d?
  Elevations,      \* may the application run with (TRUE), without (FALSE) root?
  Faults           \* what may go wrong, a subset of AllFaults

AllFaults ==
  { "io",          \* a write or a command fails and the code sees the error
    "lease",       \* a DHCP client rewrites resolv.conf
    "lateCrash",   \* the application dies between its first platform write
                   \* and the second saveBackup
    "lateSave",    \* the second saveBackup fails; its error is dropped
    "undo",        \* platformRestore fails on enableSystemDNS's error path
    "overlap" }    \* a tool and the application run procedures at once

\* The faults the code has no answer to.  Without them the backup is sound.
Unanswered == {"lateCrash", "lateSave", "undo", "overlap"}

Actors == Threads \cup Tools
UserConf == UserFiles \cup {Missing}
Confs == UserConf \cup {Ours}

ASSUME ConstantsAssumption ==
  /\ Threads \cap Tools = {}
  /\ Nobody \notin Threads
  /\ StubFiles \subseteq UserFiles
  /\ Links \subseteq UserFiles
  /\ Missing \notin UserFiles
  /\ Ours \notin UserConf
  /\ ResolvedActive \in BOOLEAN
  /\ HasNM \in BOOLEAN
  /\ Elevations \in (SUBSET BOOLEAN) \ {{}}
  /\ Faults \subseteq AllFaults

\* sysDNSBackup and linuxDNSBackup: the file as it was found, and which of
\* the three places Ceky has written to.
Backup == [file : Confs, dropIn : BOOLEAN, nm : BOOLEAN, managed : BOOLEAN]

ASSUME NoBackupAssumption == NoBackup \notin Backup

VARIABLES
  conf,      \* /etc/resolv.conf
  dropIn,    \* resolved.conf.d/ceky.conf exists
  nmDropIn,  \* NetworkManager/conf.d/ceky.conf exists
  backup,    \* the backup file, or NoBackup
  admin,     \* isAdmin() in the application's process
  opMu,      \* the goroutine that holds App.opMu, or Nobody
  op,        \* the procedure each actor runs
  pc,        \* its next step in it
  bk,        \* its copy of the backup in memory
  err        \* has its procedure met an error it will return?

disk == <<conf, dropIn, nmDropIn, backup>>
sysVars == <<conf, dropIn, nmDropIn, backup, admin, opMu, op, pc, bk, err>>

Applying == {"resolved", "restart", "restartStub", "nm", "conf"}
Restoring == {"rconf", "rlink", "rnm", "rresolved", "rremove"}
Labels == {"idle", "held", "load", "save", "save2", "check", "rewrite", "done"}
            \cup Applying \cup Restoring
Ops == {"none", "enable", "disable", "sync"}

SysTypeOK ==
  /\ conf \in Confs
  /\ dropIn \in BOOLEAN
  /\ nmDropIn \in BOOLEAN
  /\ backup \in Backup \cup {NoBackup}
  /\ admin \in Elevations
  /\ opMu \in Threads \cup {Nobody}
  /\ op \in [Actors -> Ops]
  /\ pc \in [Actors -> Labels]
  /\ bk \in [Actors -> Backup \cup {NoBackup}]
  /\ err \in [Actors -> BOOLEAN]

SysInit ==
  /\ conf \in UserConf
  /\ dropIn = FALSE
  /\ nmDropIn = FALSE
  /\ backup = NoBackup
  /\ admin \in Elevations
  /\ opMu = Nobody
  /\ op = [a \in Actors |-> "none"]
  /\ pc = [a \in Actors |-> "idle"]
  /\ bk = [a \in Actors |-> NoBackup]
  /\ err = [a \in Actors |-> FALSE]

-----------------------------------------------------------------------------
(* Helpers *)

Busy(a) == pc[a] \notin {"idle", "held", "done"}

Goto(a, label) == pc' = [pc EXCEPT ![a] = label]

Fail(a, label) ==
  /\ Goto(a, label)
  /\ err' = [err EXCEPT ![a] = TRUE]

\* The tools ask for root before they do anything (withAdmin).
Allowed(a) == a \in Tools \/ admin

\* Does the machine send its queries to Ceky?  Either resolv.conf is ours, or
\* it names the stub and systemd-resolved forwards to us.
Pointed == conf = Ours \/ (dropIn /\ conf \in StubFiles)

\* Every change the machine carries is one the backup b says how to take back.
Covers(b) ==
  /\ conf = Ours => b.managed
  /\ dropIn => b.dropIn
  /\ nmDropIn => b.nm

\* enableSystemDNS has touched the machine, and what it touched is recorded
\* only in memory.
Unrecorded(a) ==
  /\ op[a] = "enable"
  /\ pc[a] \in Applying \cup Restoring \cup {"save2"}
  /\ bk[a] # backup

-----------------------------------------------------------------------------
(* Calling a procedure *)

\* a.opMu.Lock()
Lock(a) ==
  /\ a \in Threads
  /\ pc[a] = "idle"
  /\ opMu = Nobody
  /\ opMu' = a
  /\ Goto(a, "held")
  /\ UNCHANGED <<disk, admin, op, bk, err>>

\* The call.  A goroutine calls at most one procedure per time it holds opMu.
\* Nothing but good luck keeps a tool and a goroutine apart.
Call(a, procedure) ==
  /\ pc[a] = IF a \in Threads THEN "held" ELSE "idle"
  /\ a \in Tools => procedure = "disable"
  /\ "overlap" \in Faults \/ \A c \in Actors : Busy(c) => {a, c} \subseteq Threads
  /\ Goto(a, "load")
  /\ op' = [op EXCEPT ![a] = procedure]
  /\ UNCHANGED <<disk, admin, opMu, bk, err>>

\* The return and, for a goroutine, the deferred a.opMu.Unlock().
Return(a) ==
  /\ pc[a] \in IF a \in Threads THEN {"held", "done"} ELSE {"done"}
  /\ opMu' = IF a \in Threads THEN Nobody ELSE opMu
  /\ Goto(a, "idle")
  /\ op' = [op EXCEPT ![a] = "none"]
  /\ bk' = [bk EXCEPT ![a] = NoBackup]
  /\ err' = [err EXCEPT ![a] = FALSE]
  /\ UNCHANGED <<disk, admin>>

-----------------------------------------------------------------------------
(* enableSystemDNS *)

FirstWrite == IF ResolvedActive THEN "resolved" ELSE IF HasNM THEN "nm" ELSE "conf"

\* platformBackup: what the machine has now, and nothing written yet.
Snapshot == [file |-> conf, dropIn |-> FALSE, nm |-> FALSE, managed |-> FALSE]

\* A wrong version, for the checks: the setting is saved afresh each time.
LoadForEnableAfresh(a) ==
  /\ op[a] = "enable" /\ pc[a] = "load"
  /\ Allowed(a)
  /\ bk' = [bk EXCEPT ![a] = Snapshot]
  /\ Goto(a, "save")
  /\ UNCHANGED <<disk, admin, opMu, op, err>>

\* An existing backup is kept: the setting in force now may be ours.
LoadForEnable(a) ==
  /\ op[a] = "enable" /\ pc[a] = "load"
  /\ \/ /\ Allowed(a)
        /\ bk' = [bk EXCEPT ![a] = IF backup = NoBackup THEN Snapshot ELSE backup]
        /\ Goto(a, "save")
        /\ UNCHANGED err
     \/ /\ ~Allowed(a)
        /\ Fail(a, "done")
        /\ UNCHANGED bk
  /\ UNCHANGED <<disk, admin, opMu, op>>

\* A wrong version: the backup is written only once the setting is changed.
SaveBackupLater(a) ==
  /\ op[a] = "enable" /\ pc[a] = "save"
  /\ Goto(a, FirstWrite)
  /\ UNCHANGED <<disk, admin, opMu, op, bk, err>>

\* The first saveBackup, before anything is changed.
SaveBackup(a) ==
  /\ op[a] = "enable" /\ pc[a] = "save"
  /\ \/ /\ backup' = bk[a]
        /\ Goto(a, FirstWrite)
        /\ UNCHANGED err
     \/ /\ "io" \in Faults
        /\ Fail(a, "done")
        /\ UNCHANGED backup
  /\ UNCHANGED <<conf, dropIn, nmDropIn, admin, opMu, op, bk>>

\* platformApply, step 1.  resolv.conf was read just before: if it names the
\* stub, restarting systemd-resolved is the last thing to do.
WriteDropIn(a) ==
  /\ op[a] = "enable" /\ pc[a] = "resolved"
  /\ \/ /\ dropIn' = TRUE
        /\ bk' = [bk EXCEPT ![a].dropIn = TRUE]
        /\ Goto(a, IF conf \in StubFiles THEN "restartStub" ELSE "restart")
        /\ UNCHANGED err
     \/ /\ "io" \in Faults
        /\ Fail(a, "rconf")
        /\ UNCHANGED <<dropIn, bk>>
  /\ UNCHANGED <<conf, nmDropIn, backup, admin, opMu, op>>

RestartResolved(a) ==
  /\ op[a] = "enable" /\ pc[a] \in {"restart", "restartStub"}
  /\ \/ /\ Goto(a, IF pc[a] = "restartStub" THEN "save2"
                   ELSE IF HasNM THEN "nm" ELSE "conf")
        /\ UNCHANGED err
     \/ /\ "io" \in Faults
        /\ Fail(a, "rconf")
  /\ UNCHANGED <<disk, admin, opMu, op, bk>>

\* platformApply, step 2.
WriteNMDropIn(a) ==
  /\ op[a] = "enable" /\ pc[a] = "nm"
  /\ \/ /\ nmDropIn' = TRUE
        /\ bk' = [bk EXCEPT ![a].nm = TRUE]
        /\ Goto(a, "conf")
        /\ UNCHANGED err
     \/ /\ "io" \in Faults
        /\ Fail(a, "rconf")
        /\ UNCHANGED <<nmDropIn, bk>>
  /\ UNCHANGED <<conf, dropIn, backup, admin, opMu, op>>

\* A wrong version: the flag is forgotten.
WriteResolvConfUnmarked(a) ==
  /\ op[a] = "enable" /\ pc[a] = "conf"
  /\ conf' = Ours
  /\ Goto(a, "save2")
  /\ UNCHANGED <<dropIn, nmDropIn, backup, admin, opMu, op, bk, err>>

\* platformApply, step 3.  The flag is set before the write is tried.
WriteResolvConf(a) ==
  /\ op[a] = "enable" /\ pc[a] = "conf"
  /\ bk' = [bk EXCEPT ![a].managed = TRUE]
  /\ \/ /\ conf' = Ours
        /\ Goto(a, "save2")
        /\ UNCHANGED err
     \/ /\ "io" \in Faults
        /\ Fail(a, "rconf")
        /\ UNCHANGED conf
  /\ UNCHANGED <<dropIn, nmDropIn, backup, admin, opMu, op>>

\* A wrong version: the flags replace the file that was saved first.
SaveFlagsAlone(a) ==
  /\ op[a] = "enable" /\ pc[a] = "save2"
  /\ backup' = [dropIn |-> bk[a].dropIn, nm |-> bk[a].nm, managed |-> bk[a].managed]
  /\ Goto(a, "done")
  /\ UNCHANGED <<conf, dropIn, nmDropIn, admin, opMu, op, bk, err>>

\* The second saveBackup, which puts the flags on disk.  Its error is dropped.
SaveFlags(a) ==
  /\ op[a] = "enable" /\ pc[a] = "save2"
  /\ \/ backup' = bk[a]
     \/ "lateSave" \in Faults /\ UNCHANGED backup
  /\ Goto(a, "done")
  /\ UNCHANGED <<conf, dropIn, nmDropIn, admin, opMu, op, bk, err>>

-----------------------------------------------------------------------------
(* disableSystemDNS, and platformRestore on enableSystemDNS's error path *)

LoadForDisable(a) ==
  /\ op[a] = "disable" /\ pc[a] = "load"
  /\ \/ /\ backup = NoBackup
        /\ Goto(a, "done")
        /\ UNCHANGED <<bk, err>>
     \/ /\ backup # NoBackup /\ ~Allowed(a)
        /\ Fail(a, "done")
        /\ UNCHANGED bk
     \/ /\ backup # NoBackup /\ Allowed(a)
        /\ bk' = [bk EXCEPT ![a] = backup]
        /\ Goto(a, "rconf")
        /\ UNCHANGED err
  /\ UNCHANGED <<disk, admin, opMu, op>>

RestoreMayFail(a) == IF op[a] = "enable" THEN "undo" \in Faults ELSE "io" \in Faults

\* A wrong version: nothing is done if there was no resolv.conf.
RestoreConfIfPresent(a) ==
  /\ pc[a] = "rconf"
  /\ conf' = IF bk[a].managed /\ bk[a].file # Missing THEN bk[a].file ELSE conf
  /\ Goto(a, "rnm")
  /\ UNCHANGED <<dropIn, nmDropIn, backup, admin, opMu, op, bk, err>>

\* resolv.conf goes back: removed, rewritten, or (if it was a symbolic link)
\* removed first and linked in the next step.  An error is kept, the rest of
\* the restoration goes on.
RestoreConf(a) ==
  /\ pc[a] = "rconf"
  /\ \/ /\ ~bk[a].managed
        /\ Goto(a, "rnm")
        /\ UNCHANGED <<conf, err>>
     \/ /\ bk[a].managed /\ bk[a].file \in Links
        /\ conf' = Missing
        /\ Goto(a, "rlink")
        /\ UNCHANGED err
     \/ /\ bk[a].managed /\ bk[a].file \notin Links
        /\ conf' = bk[a].file
        /\ Goto(a, "rnm")
        /\ UNCHANGED err
     \/ /\ bk[a].managed /\ bk[a].file \notin Links \cup {Missing}
        /\ RestoreMayFail(a)
        /\ Fail(a, "rnm")
        /\ UNCHANGED conf
  /\ UNCHANGED <<dropIn, nmDropIn, backup, admin, opMu, op, bk>>

\* os.Symlink fails when a file has appeared in between.
RestoreLink(a) ==
  /\ pc[a] = "rlink"
  /\ \/ /\ conf = Missing
        /\ conf' = bk[a].file
        /\ Goto(a, "rnm")
        /\ UNCHANGED err
     \/ /\ conf # Missing \/ RestoreMayFail(a)
        /\ Fail(a, "rnm")
        /\ UNCHANGED conf
  /\ UNCHANGED <<dropIn, nmDropIn, backup, admin, opMu, op, bk>>

RestoreNM(a) ==
  /\ pc[a] = "rnm"
  /\ nmDropIn' = (nmDropIn /\ ~bk[a].nm)
  /\ Goto(a, "rresolved")
  /\ UNCHANGED <<conf, dropIn, backup, admin, opMu, op, bk, err>>

\* A wrong version: the backup goes even after a restoration that failed.
RestoreResolvedAnyway(a) ==
  /\ pc[a] = "rresolved"
  /\ dropIn' = (dropIn /\ ~bk[a].dropIn)
  /\ Goto(a, "rremove")
  /\ UNCHANGED <<conf, nmDropIn, backup, admin, opMu, op, bk, err>>

\* disableSystemDNS keeps the backup if the restoration met an error;
\* enableSystemDNS does not look at it.
RestoreResolved(a) ==
  /\ pc[a] = "rresolved"
  /\ dropIn' = (dropIn /\ ~bk[a].dropIn)
  /\ Goto(a, IF op[a] = "disable" /\ err[a] THEN "done" ELSE "rremove")
  /\ UNCHANGED <<conf, nmDropIn, backup, admin, opMu, op, bk, err>>

RemoveBackup(a) ==
  /\ pc[a] = "rremove"
  /\ backup' = NoBackup
  /\ Goto(a, "done")
  /\ UNCHANGED <<conf, dropIn, nmDropIn, admin, opMu, op, bk, err>>

-----------------------------------------------------------------------------
(* reconcileSystemDNS *)

LoadForSync(a) ==
  /\ op[a] = "sync" /\ pc[a] = "load"
  /\ \/ /\ backup = NoBackup
        /\ Fail(a, "done")
        /\ UNCHANGED bk
     \/ /\ backup # NoBackup
        /\ bk' = [bk EXCEPT ![a] = backup]
        /\ Goto(a, "check")
        /\ UNCHANGED err
  /\ UNCHANGED <<disk, admin, opMu, op>>

\* platformReconcile: a drop-in that is gone is only reported; a resolv.conf
\* that is not ours any more is rewritten (which only root can; nothing asks
\* isAdmin here).
CheckSetting(a) ==
  /\ op[a] = "sync" /\ pc[a] = "check"
  /\ \/ /\ bk[a].dropIn /\ ~dropIn
        /\ Fail(a, "done")
     \/ /\ bk[a].dropIn => dropIn
        /\ Goto(a, IF bk[a].managed /\ conf # Ours THEN "rewrite" ELSE "done")
        /\ UNCHANGED err
  /\ UNCHANGED <<disk, admin, opMu, op, bk>>

RewriteConf(a) ==
  /\ op[a] = "sync" /\ pc[a] = "rewrite"
  /\ \/ /\ Allowed(a)
        /\ conf' = Ours
        /\ Goto(a, "done")
        /\ UNCHANGED err
     \/ /\ "io" \in Faults \/ ~Allowed(a)
        /\ Fail(a, "done")
        /\ UNCHANGED conf
  /\ UNCHANGED <<dropIn, nmDropIn, backup, admin, opMu, op, bk>>

-----------------------------------------------------------------------------
(* The environment *)

\* A DHCP client or another program writes a regular resolv.conf.
Lease(file) ==
  /\ "lease" \in Faults
  /\ file \in UserFiles \ Links
  /\ conf' = file
  /\ UNCHANGED <<dropIn, nmDropIn, backup, admin, opMu, op, pc, bk, err>>

\* A process ends, whatever its goroutines were doing.
Kill(gone) ==
  /\ \A a \in gone : Unrecorded(a) => "lateCrash" \in Faults
  /\ opMu' = IF opMu \in gone THEN Nobody ELSE opMu
  /\ op' = [a \in Actors |-> IF a \in gone THEN "none" ELSE op[a]]
  /\ pc' = [a \in Actors |-> IF a \in gone THEN "idle" ELSE pc[a]]
  /\ bk' = [a \in Actors |-> IF a \in gone THEN NoBackup ELSE bk[a]]
  /\ err' = [a \in Actors |-> IF a \in gone THEN FALSE ELSE err[a]]
  /\ admin' \in IF Threads \subseteq gone THEN Elevations ELSE {admin}
  /\ UNCHANGED disk

-----------------------------------------------------------------------------

EnableStep(a) ==
  \/ LoadForEnable(a) \/ SaveBackup(a) \/ WriteDropIn(a) \/ RestartResolved(a)
  \/ WriteNMDropIn(a) \/ WriteResolvConf(a) \/ SaveFlags(a)

RestoreStep(a) ==
  \/ LoadForDisable(a) \/ RestoreConf(a) \/ RestoreLink(a) \/ RestoreNM(a)
  \/ RestoreResolved(a) \/ RemoveBackup(a)

SyncStep(a) == LoadForSync(a) \/ CheckSetting(a) \/ RewriteConf(a)

\* One step inside a procedure.
Step(a) == EnableStep(a) \/ RestoreStep(a) \/ SyncStep(a)

SysNext ==
  \/ \E a \in Actors : Lock(a) \/ Return(a) \/ Step(a)
  \/ \E a \in Actors, procedure \in Ops \ {"none"} : Call(a, procedure)
  \/ \E file \in UserFiles : Lease(file)
  \/ Kill(Threads)
  \/ \E t \in Tools : Kill({t})

SysSpec == SysInit /\ [][SysNext]_sysVars

-----------------------------------------------------------------------------
(* Properties *)

\* The backup can undo everything: while no procedure is under way, whatever
\* the machine carries of Ceky's (resolv.conf, the resolved and NetworkManager
\* drop-ins) is marked in a backup on disk that holds a file of the user's.
\* This is what "birebir geri yükler" (sysdns.go:17-20) rests on, across
\* failed writes, crashes and restarts.
Restorable ==
  (\A a \in Actors : ~Busy(a)) =>
    \/ backup = NoBackup /\ conf # Ours /\ ~dropIn /\ ~nmDropIn
    \/ backup # NoBackup /\ backup.file \in UserConf /\ Covers(backup)

\* At every instant, also in the middle of a procedure, a machine that asks
\* Ceky has the user's own resolv.conf in the backup file ("Önce yedek diske
\* yazılır, sonra ayar değiştirilir", sysdns.go:107).
PointedHasBackup == Pointed => backup # NoBackup /\ backup.file \in UserConf

\* The backup is deleted only over a machine that is back to what it was: no
\* drop-in left, and resolv.conf the saved one (or, if a DHCP client is about,
\* at least one of the user's).
DropOnlyRestored ==
  [][backup # NoBackup /\ backup' = NoBackup =>
       /\ ~dropIn /\ ~nmDropIn
       /\ conf \in UserConf
       /\ "lease" \notin Faults => conf = backup.file]_sysVars

\* Once saved, the user's file is never replaced by a later one: a second
\* enable, a retry after a crash and the second saveBackup all keep it.
OriginalKept ==
  [][backup # NoBackup /\ backup' # NoBackup => backup'.file = backup.file]_sysVars

\* The machine is redirected only under a record and the record forgotten only
\* when the machine is back: the promise of SafeRedirect.
Promise == INSTANCE SafeRedirect
             WITH target <- IF Pointed THEN "ceky" ELSE "user",
                  saved <- backup # NoBackup

PromiseKept == Promise!Spec

-----------------------------------------------------------------------------
(* The inductive invariant behind Restorable and PointedHasBackup *)

\* A goroutine does nothing without the lock, and a tool never takes it.
LockHeld ==
  /\ \A a \in Threads : pc[a] # "idle" => opMu = a
  /\ \A a \in Tools : pc[a] # "held"

OneBusy == \A a, c \in Actors : Busy(a) /\ Busy(c) => a = c

Clean == conf # Ours /\ ~dropIn /\ ~nmDropIn

Sound ==
  \/ backup = NoBackup /\ Clean
  \/ backup # NoBackup /\ backup.file \in UserConf /\ Covers(backup)

\* The actor's copy is of the backup on disk, except for flags newer than it.
Working(a) ==
  /\ backup # NoBackup
  /\ bk[a] # NoBackup
  /\ backup.file \in UserConf
  /\ bk[a].file = backup.file
  /\ Covers(bk[a])

Planned(a) ==
  /\ Sound
  /\ bk[a] # NoBackup
  /\ bk[a].file \in UserConf
  /\ Covers(bk[a])
  /\ backup # NoBackup => bk[a] = backup

\* Where an actor in the middle of a procedure is, and what the disk is then.
BusyInv(a) ==
  /\ pc[a] = "load" => Sound
  /\ pc[a] = "save" => op[a] = "enable" /\ Planned(a)
  /\ pc[a] \in Applying \cup {"save2"} => op[a] = "enable" /\ Working(a)
  /\ pc[a] \in Restoring =>
       /\ Working(a)
       /\ op[a] \in {"enable", "disable"}
       /\ op[a] = "disable" => bk[a] = backup
  /\ pc[a] = "rlink" => conf # Ours
  /\ pc[a] \in {"rnm", "rresolved"} => conf # Ours \/ (op[a] = "disable" /\ err[a])
  /\ pc[a] = "rresolved" => ~nmDropIn
  /\ pc[a] = "rremove" => Clean
  /\ pc[a] \in {"check", "rewrite"} => op[a] = "sync" /\ Working(a) /\ bk[a] = backup
  /\ pc[a] = "rewrite" => bk[a].managed

IInv ==
  /\ SysTypeOK
  /\ LockHeld
  /\ OneBusy
  /\ \A a \in Actors : Busy(a) => BusyInv(a)
  /\ (\A a \in Actors : ~Busy(a)) => Sound

=============================================================================
