-------------------------- MODULE SystemDNS_proofs --------------------------
(***************************************************************************)
(* Proofs about SystemDNS, for every set of goroutines, tools and files,   *)
(* with and without systemd-resolved and NetworkManager.                   *)
(***************************************************************************)
EXTENDS SystemDNS, TLAPS

\* An actor that works from its copy of the backup has one.
Loaded ==
  \A a \in Actors :
    pc[a] \in {"save", "save2", "check", "rewrite"} \cup Applying \cup Restoring
      => bk[a] \in Backup

TypeInv == SysTypeOK /\ Loaded

LEMMA SnapshotType == SysTypeOK => Snapshot \in Backup
  BY DEF SysTypeOK, Snapshot, Backup

LEMMA TypeStep == TypeInv /\ [SysNext]_sysVars => TypeInv'
<1> SUFFICES ASSUME TypeInv, [SysNext]_sysVars PROVE TypeInv'
  OBVIOUS
<1> USE ConstantsAssumption DEF TypeInv
<1> USE DEF SysTypeOK, Loaded, Goto, Fail, Labels, Applying, Restoring, disk
<1>1. ASSUME NEW a \in Actors, Lock(a) PROVE TypeInv'
  BY <1>1 DEF Lock
<1>2. ASSUME NEW a \in Actors, Return(a) PROVE TypeInv'
  BY <1>2 DEF Return, Ops
<1>3. ASSUME NEW a \in Actors, EnableStep(a) PROVE TypeInv'
  <2>1. CASE LoadForEnable(a)
    <3>1. PICK b \in Backup \cup {NoBackup}, l \in {"save", "done"} :
             /\ bk' = [bk EXCEPT ![a] = b]
             /\ pc' = [pc EXCEPT ![a] = l]
             /\ l = "save" => b \in Backup
      <4>1. CASE Allowed(a)
        BY <2>1, <4>1, SnapshotType DEF LoadForEnable
      <4>2. CASE ~Allowed(a)
        <5>1. bk' = [bk EXCEPT ![a] = bk[a]]
          BY <2>1, <4>2 DEF LoadForEnable
        <5>2. bk[a] \in Backup \cup {NoBackup} /\ pc' = [pc EXCEPT ![a] = "done"]
          BY <2>1, <4>2 DEF LoadForEnable
        <5> QED BY <5>1, <5>2
      <4> QED BY <4>1, <4>2
    <3>2. bk' \in [Actors -> Backup \cup {NoBackup}]
      BY <3>1
    <3>3. pc' \in [Actors -> Labels] /\ err' \in [Actors -> BOOLEAN]
      BY <2>1 DEF LoadForEnable
    <3>4. Loaded'
      BY <3>1
    <3> QED BY <2>1, <3>2, <3>3, <3>4 DEF LoadForEnable
  <2>2. CASE SaveBackup(a)
    <3>1. pc' \in [Actors -> Labels] /\ err' \in [Actors -> BOOLEAN]
      BY <2>2 DEF SaveBackup, FirstWrite
    <3>2. bk[a] \in Backup /\ bk' = bk
      BY <2>2 DEF SaveBackup
    <3>3. Loaded'
      BY <2>2, <3>2 DEF SaveBackup
    <3>4. backup' \in Backup \cup {NoBackup}
      BY <2>2, <3>2 DEF SaveBackup
    <3> QED BY <2>2, <3>1, <3>2, <3>3, <3>4 DEF SaveBackup
  <2>3. CASE WriteDropIn(a)
    <3>1. PICK b \in Backup, l \in {"restart", "restartStub", "rconf"} :
             /\ bk' = [bk EXCEPT ![a] = b]
             /\ pc' = [pc EXCEPT ![a] = l]
      <4>1. bk[a] \in Backup
        BY <2>3 DEF WriteDropIn
      <4>2. [bk[a] EXCEPT !.dropIn = TRUE] \in Backup
        BY <4>1 DEF Backup
      <4>3. CASE UNCHANGED bk
        <5>1. bk' = [bk EXCEPT ![a] = bk[a]]
          BY <4>3
        <5> QED BY <2>3, <4>1, <5>1 DEF WriteDropIn
      <4>4. CASE bk' = [bk EXCEPT ![a].dropIn = TRUE]
        <5>1. bk' = [bk EXCEPT ![a] = [bk[a] EXCEPT !.dropIn = TRUE]]
          BY <4>4
        <5>2. \E l \in {"restart", "restartStub", "rconf"} : pc' = [pc EXCEPT ![a] = l]
          BY <2>3 DEF WriteDropIn
        <5> QED BY <4>2, <5>1, <5>2
      <4> QED BY <2>3, <4>3, <4>4 DEF WriteDropIn
    <3>2. bk' \in [Actors -> Backup \cup {NoBackup}]
      BY <3>1
    <3>3. pc' \in [Actors -> Labels]
      BY <3>1
    <3>4. Loaded'
      BY <3>1
    <3>5. dropIn' \in BOOLEAN /\ err' \in [Actors -> BOOLEAN]
      BY <2>3 DEF WriteDropIn
    <3> QED BY <2>3, <3>2, <3>3, <3>4, <3>5 DEF WriteDropIn
  <2>4. CASE RestartResolved(a)
    <3>1. pc' \in [Actors -> Labels] /\ err' \in [Actors -> BOOLEAN]
      BY <2>4 DEF RestartResolved
    <3>2. bk[a] \in Backup
      BY <2>4 DEF RestartResolved
    <3>3. Loaded'
      BY <2>4, <3>2 DEF RestartResolved
    <3> QED BY <2>4, <3>1, <3>3 DEF RestartResolved
  <2>5. CASE WriteNMDropIn(a)
    <3>1. PICK b \in Backup, l \in {"conf", "rconf"} :
             /\ bk' = [bk EXCEPT ![a] = b]
             /\ pc' = [pc EXCEPT ![a] = l]
      <4>1. bk[a] \in Backup
        BY <2>5 DEF WriteNMDropIn
      <4>2. [bk[a] EXCEPT !.nm = TRUE] \in Backup
        BY <4>1 DEF Backup
      <4>3. CASE UNCHANGED bk
        <5>1. bk' = [bk EXCEPT ![a] = bk[a]]
          BY <4>3
        <5> QED BY <2>5, <4>1, <5>1 DEF WriteNMDropIn
      <4>4. CASE bk' = [bk EXCEPT ![a].nm = TRUE]
        <5>1. bk' = [bk EXCEPT ![a] = [bk[a] EXCEPT !.nm = TRUE]]
          BY <4>4
        <5>2. \E l \in {"conf", "rconf"} : pc' = [pc EXCEPT ![a] = l]
          BY <2>5 DEF WriteNMDropIn
        <5> QED BY <4>2, <5>1, <5>2
      <4> QED BY <2>5, <4>3, <4>4 DEF WriteNMDropIn
    <3>2. bk' \in [Actors -> Backup \cup {NoBackup}]
      BY <3>1
    <3>3. pc' \in [Actors -> Labels]
      BY <3>1
    <3>4. Loaded'
      BY <3>1
    <3>5. nmDropIn' \in BOOLEAN /\ err' \in [Actors -> BOOLEAN]
      BY <2>5 DEF WriteNMDropIn
    <3> QED BY <2>5, <3>2, <3>3, <3>4, <3>5 DEF WriteNMDropIn
  <2>6. CASE WriteResolvConf(a)
    <3>1. bk[a] \in Backup
      BY <2>6 DEF WriteResolvConf
    <3>2. [bk[a] EXCEPT !.managed = TRUE] \in Backup
      BY <3>1 DEF Backup
    <3>3. bk' = [bk EXCEPT ![a] = [bk[a] EXCEPT !.managed = TRUE]]
      BY <2>6 DEF WriteResolvConf
    <3>4. bk' \in [Actors -> Backup \cup {NoBackup}]
      BY <3>2, <3>3
    <3>5. PICK l \in {"save2", "rconf"} : pc' = [pc EXCEPT ![a] = l]
      BY <2>6 DEF WriteResolvConf
    <3>6. pc' \in [Actors -> Labels]
      BY <3>5
    <3>7. Loaded'
      BY <3>2, <3>3, <3>5
    <3>8. conf' \in Confs /\ err' \in [Actors -> BOOLEAN]
      BY <2>6 DEF WriteResolvConf, Confs
    <3> QED BY <2>6, <3>4, <3>6, <3>7, <3>8 DEF WriteResolvConf
  <2>7. CASE SaveFlags(a)
    BY <2>7 DEF SaveFlags
  <2> QED BY <1>3, <2>1, <2>2, <2>3, <2>4, <2>5, <2>6, <2>7 DEF EnableStep
<1>4. ASSUME NEW a \in Actors, RestoreStep(a) PROVE TypeInv'
  <2>1. CASE LoadForDisable(a)
    <3>1. pc' \in [Actors -> Labels] /\ err' \in [Actors -> BOOLEAN]
      BY <2>1 DEF LoadForDisable
    <3>2. bk' \in [Actors -> Backup \cup {NoBackup}]
      BY <2>1 DEF LoadForDisable
    <3>3. Loaded'
      BY <2>1 DEF LoadForDisable
    <3> QED BY <2>1, <3>1, <3>2, <3>3 DEF LoadForDisable
  <2>2. CASE RestoreConf(a)
    <3>1. bk[a] \in Backup
      BY <2>2 DEF RestoreConf
    <3>2. bk[a].file \in Confs
      BY <3>1 DEF Backup
    <3>3. conf' \in Confs
      BY <2>2, <3>2 DEF RestoreConf, Confs, UserConf
    <3>4. pc' \in [Actors -> Labels] /\ err' \in [Actors -> BOOLEAN]
      BY <2>2 DEF RestoreConf
    <3>5. Loaded'
      BY <2>2, <3>1 DEF RestoreConf
    <3> QED BY <2>2, <3>3, <3>4, <3>5 DEF RestoreConf
  <2>3. CASE RestoreLink(a)
    <3>1. bk[a].file \in Confs
      BY <2>3 DEF RestoreLink, Backup
    <3> QED BY <2>3, <3>1 DEF RestoreLink
  <2>4. CASE RestoreNM(a)
    BY <2>4 DEF RestoreNM
  <2>5. CASE RestoreResolved(a)
    <3>1. dropIn' \in BOOLEAN
      BY <2>5 DEF RestoreResolved
    <3>2. pc' \in [Actors -> Labels]
      BY <2>5 DEF RestoreResolved
    <3>3. Loaded'
      BY <2>5 DEF RestoreResolved
    <3> QED BY <2>5, <3>1, <3>2, <3>3 DEF RestoreResolved
  <2>6. CASE RemoveBackup(a)
    BY <2>6 DEF RemoveBackup
  <2> QED
    BY <1>4, <2>1, <2>2, <2>3, <2>4, <2>5, <2>6 DEF RestoreStep
<1>5. ASSUME NEW a \in Actors, SyncStep(a) PROVE TypeInv'
  <2>1. CASE LoadForSync(a)
    <3>1. pc' \in [Actors -> Labels] /\ err' \in [Actors -> BOOLEAN]
      BY <2>1 DEF LoadForSync
    <3>2. bk' \in [Actors -> Backup \cup {NoBackup}]
      BY <2>1 DEF LoadForSync
    <3>3. Loaded'
      BY <2>1 DEF LoadForSync
    <3> QED BY <2>1, <3>1, <3>2, <3>3 DEF LoadForSync
  <2>2. CASE CheckSetting(a)
    <3>1. pc' \in [Actors -> Labels] /\ err' \in [Actors -> BOOLEAN]
      BY <2>2 DEF CheckSetting
    <3>2. Loaded'
      BY <2>2 DEF CheckSetting
    <3> QED BY <2>2, <3>1, <3>2 DEF CheckSetting
  <2>3. CASE RewriteConf(a)
    BY <2>3 DEF RewriteConf, Confs
  <2> QED BY <1>5, <2>1, <2>2, <2>3 DEF SyncStep
<1>6. ASSUME NEW a \in Actors, NEW procedure \in Ops \ {"none"}, Call(a, procedure)
      PROVE TypeInv'
  BY <1>6 DEF Call
<1>7. ASSUME NEW file \in UserFiles, Lease(file) PROVE TypeInv'
  BY <1>7 DEF Lease, Confs, UserConf
<1>8. ASSUME NEW gone \in SUBSET Actors, Kill(gone) PROVE TypeInv'
  <2>1. admin' \in Elevations
    BY <1>8 DEF Kill
  <2>2. opMu' \in Threads \cup {Nobody}
    BY <1>8 DEF Kill
  <2>3. /\ op' \in [Actors -> Ops]
        /\ pc' \in [Actors -> Labels]
        /\ bk' \in [Actors -> Backup \cup {NoBackup}]
        /\ err' \in [Actors -> BOOLEAN]
    BY <1>8 DEF Kill, Ops
  <2>4. Loaded'
    BY <1>8 DEF Kill
  <2> QED BY <1>8, <2>1, <2>2, <2>3, <2>4 DEF Kill
<1>9. CASE UNCHANGED sysVars
  BY <1>9 DEF sysVars
<1> QED
  BY <1>1, <1>2, <1>3, <1>4, <1>5, <1>6, <1>7, <1>8, <1>9
  DEF SysNext, Step, Actors

\* No variable leaves its type, whatever goes wrong.
THEOREM TypeCorrect == SysSpec => []SysTypeOK
<1>1. SysInit => TypeInv
  BY ConstantsAssumption
  DEF SysInit, TypeInv, SysTypeOK, Loaded, Confs, Actors, Ops, Labels, Applying, Restoring
<1>2. TypeInv => SysTypeOK
  BY DEF TypeInv
<1> QED BY <1>1, <1>2, TypeStep, PTL DEF SysSpec

-----------------------------------------------------------------------------
(* Without the faults the code has no answer to *)

Answerable == Faults \cap Unanswered = {}

LEMMA NoUndo == Answerable => \A a \in Actors : op[a] = "enable" => ~RestoreMayFail(a)
  BY DEF Answerable, Unanswered, RestoreMayFail

\* The invariant holds after a step of a procedure if it holds of the actor
\* that took it: while one actor is busy, every other one is not.
LEMMA ByStep ==
  ASSUME IInv, SysTypeOK',
         NEW a \in Actors, Busy(a),
         NEW label \in Labels \ {"idle", "held"}, pc' = [pc EXCEPT ![a] = label],
         opMu' = opMu,
         Busy(a)' => BusyInv(a)',
         ~Busy(a)' => Sound'
  PROVE  IInv'
<1>1. \A c \in Actors \ {a} : ~Busy(c) /\ ~Busy(c)'
  BY DEF IInv, SysTypeOK, OneBusy, Busy
<1>2. OneBusy'
  BY <1>1 DEF OneBusy
<1>3. LockHeld'
  BY ConstantsAssumption DEF IInv, SysTypeOK, LockHeld, Busy, Actors
<1> QED BY <1>1, <1>2, <1>3 DEF IInv

\* What the invariant says of an actor at one of its steps.
LEMMA AtStep ==
  ASSUME IInv, NEW a \in Actors, Busy(a)
  PROVE  BusyInv(a) /\ pc[a] \in Labels /\ op[a] \in Ops
  BY DEF IInv, SysTypeOK

LEMMA EnableKeeps ==
  ASSUME Answerable, IInv, SysTypeOK', NEW a \in Actors, EnableStep(a)
  PROVE  IInv'
<1> USE DEF Busy, Goto, Fail, Applying, Restoring, Labels, disk
<1>b. Busy(a)
  BY DEF EnableStep, LoadForEnable, SaveBackup, WriteDropIn, RestartResolved,
         WriteNMDropIn, WriteResolvConf, SaveFlags
<1>i. BusyInv(a)
  BY <1>b, AtStep
<1>t. SysTypeOK
  BY DEF IInv
<1>1. CASE LoadForEnable(a)
  <2>1. Sound /\ Sound'
    BY <1>1, <1>i DEF LoadForEnable, BusyInv, Sound, Clean, Covers
  <2>2. ASSUME pc' = [pc EXCEPT ![a] = "save"] PROVE BusyInv(a)'
    <3>1. Planned(a)'
      <4>1. UNCHANGED <<conf, dropIn, nmDropIn, backup>>
        BY <1>1 DEF LoadForEnable
      <4>2. bk'[a] = IF backup = NoBackup THEN Snapshot ELSE backup
        BY <1>1, <2>2, <1>t DEF LoadForEnable, SysTypeOK
      <4>3. CASE backup = NoBackup
        <5>1. bk'[a] = Snapshot /\ Snapshot # NoBackup
          BY <4>2, <4>3, <1>t, SnapshotType, NoBackupAssumption
        <5>2. conf \in UserConf /\ ~dropIn /\ ~nmDropIn
          BY <2>1, <4>3, <1>t DEF Sound, Clean, SysTypeOK, Confs
        <5> QED BY <2>1, <4>1, <4>3, <5>1, <5>2, ConstantsAssumption
                DEF Planned, Covers, Snapshot
      <4>4. CASE backup # NoBackup
        BY <2>1, <4>1, <4>2, <4>4 DEF Planned, Sound, Covers
      <4> QED BY <4>3, <4>4
    <3> QED BY <1>1, <2>2, <3>1, <1>t DEF LoadForEnable, BusyInv, SysTypeOK
  <2>3. PICK label \in {"save", "done"} : pc' = [pc EXCEPT ![a] = label]
    BY <1>1 DEF LoadForEnable
  <2>4. Busy(a)' => BusyInv(a)'
    BY <2>2, <2>3, <1>t DEF SysTypeOK
  <2>5. opMu' = opMu
    BY <1>1 DEF LoadForEnable
  <2> QED BY <1>b, <2>1, <2>3, <2>4, <2>5, ByStep
<1>2. CASE SaveBackup(a)
  <2>1. Planned(a)
    BY <1>2, <1>i DEF SaveBackup, BusyInv
  <2>2. ASSUME pc' = [pc EXCEPT ![a] = FirstWrite], backup' = bk[a] PROVE BusyInv(a)'
    BY <1>2, <2>1, <2>2, <1>t DEF SaveBackup, FirstWrite, BusyInv, Planned, Working, Covers, SysTypeOK
  <2>3. UNCHANGED backup => Sound'
    BY <1>2, <2>1 DEF SaveBackup, Planned, Sound, Clean, Covers
  <2> QED BY <1>2, <1>b, <2>2, <2>3, <1>t, ByStep DEF SaveBackup, FirstWrite, SysTypeOK
<1>3. CASE WriteDropIn(a)
  <2>1. Working(a) /\ op[a] = "enable"
    BY <1>3, <1>i DEF WriteDropIn, BusyInv
  <2>2. bk[a] \in Backup /\ bk'[a] # NoBackup
    <3>1. bk[a] \in Backup
      BY <2>1, <1>t DEF Working, SysTypeOK
    <3>2. [bk[a] EXCEPT !.dropIn = TRUE] \in Backup
      BY <3>1 DEF Backup
    <3>3. bk'[a] \in {bk[a], [bk[a] EXCEPT !.dropIn = TRUE]}
      BY <1>3, <1>t DEF WriteDropIn, SysTypeOK
    <3> QED BY <3>1, <3>2, <3>3, NoBackupAssumption
  <2>3. Working(a)'
    BY <1>3, <2>1, <2>2, <1>t DEF WriteDropIn, Working, Covers, Backup, SysTypeOK
  <2>4. PICK label \in {"restart", "restartStub", "rconf"} : pc' = [pc EXCEPT ![a] = label]
    BY <1>3 DEF WriteDropIn
  <2>5. BusyInv(a)'
    BY <1>3, <2>1, <2>3, <2>4, <1>t DEF WriteDropIn, BusyInv, SysTypeOK
  <2> QED BY <1>3, <1>b, <2>4, <2>5, <1>t, ByStep DEF WriteDropIn, SysTypeOK
<1>4. CASE RestartResolved(a)
  <2>1. Working(a) /\ op[a] = "enable"
    BY <1>4, <1>i DEF RestartResolved, BusyInv
  <2>2. Working(a)'
    BY <1>4, <2>1 DEF RestartResolved, Working, Covers
  <2>3. PICK label \in {"save2", "nm", "conf", "rconf"} : pc' = [pc EXCEPT ![a] = label]
    BY <1>4 DEF RestartResolved
  <2>4. BusyInv(a)'
    BY <1>4, <2>1, <2>2, <2>3, <1>t DEF RestartResolved, BusyInv, SysTypeOK
  <2> QED BY <1>4, <1>b, <2>3, <2>4, <1>t, ByStep DEF RestartResolved, SysTypeOK
<1>5. CASE WriteNMDropIn(a)
  <2>1. Working(a) /\ op[a] = "enable"
    BY <1>5, <1>i DEF WriteNMDropIn, BusyInv
  <2>2. bk[a] \in Backup /\ bk'[a] # NoBackup
    <3>1. bk[a] \in Backup
      BY <2>1, <1>t DEF Working, SysTypeOK
    <3>2. [bk[a] EXCEPT !.nm = TRUE] \in Backup
      BY <3>1 DEF Backup
    <3>3. bk'[a] \in {bk[a], [bk[a] EXCEPT !.nm = TRUE]}
      BY <1>5, <1>t DEF WriteNMDropIn, SysTypeOK
    <3> QED BY <3>1, <3>2, <3>3, NoBackupAssumption
  <2>3. Working(a)'
    BY <1>5, <2>1, <2>2, <1>t DEF WriteNMDropIn, Working, Covers, Backup, SysTypeOK
  <2>4. PICK label \in {"conf", "rconf"} : pc' = [pc EXCEPT ![a] = label]
    BY <1>5 DEF WriteNMDropIn
  <2>5. BusyInv(a)'
    BY <1>5, <2>1, <2>3, <2>4, <1>t DEF WriteNMDropIn, BusyInv, SysTypeOK
  <2> QED BY <1>5, <1>b, <2>4, <2>5, <1>t, ByStep DEF WriteNMDropIn, SysTypeOK
<1>6. CASE WriteResolvConf(a)
  <2>1. Working(a) /\ op[a] = "enable"
    BY <1>6, <1>i DEF WriteResolvConf, BusyInv
  <2>2. bk[a] \in Backup /\ bk'[a] # NoBackup
    <3>1. bk[a] \in Backup
      BY <2>1, <1>t DEF Working, SysTypeOK
    <3>2. [bk[a] EXCEPT !.managed = TRUE] \in Backup
      BY <3>1 DEF Backup
    <3>3. bk'[a] \in {bk[a], [bk[a] EXCEPT !.managed = TRUE]}
      BY <1>6, <1>t DEF WriteResolvConf, SysTypeOK
    <3> QED BY <3>1, <3>2, <3>3, NoBackupAssumption
  <2>3. Working(a)'
    BY <1>6, <2>1, <2>2, <1>t DEF WriteResolvConf, Working, Covers, Backup, SysTypeOK
  <2>4. PICK label \in {"save2", "rconf"} : pc' = [pc EXCEPT ![a] = label]
    BY <1>6 DEF WriteResolvConf
  <2>5. BusyInv(a)'
    BY <1>6, <2>1, <2>3, <2>4, <1>t DEF WriteResolvConf, BusyInv, SysTypeOK
  <2> QED BY <1>6, <1>b, <2>4, <2>5, <1>t, ByStep DEF WriteResolvConf, SysTypeOK
<1>7. CASE SaveFlags(a)
  <2>1. Working(a)
    BY <1>7, <1>i DEF SaveFlags, BusyInv
  <2>2. backup' = bk[a]
    BY <1>7 DEF SaveFlags, Answerable, Unanswered
  <2>3. Sound'
    BY <1>7, <2>1, <2>2 DEF SaveFlags, Working, Sound, Covers
  <2>4. pc' = [pc EXCEPT ![a] = "done"] /\ opMu' = opMu /\ ~Busy(a)'
    BY <1>7, <1>t DEF SaveFlags, SysTypeOK
  <2> QED BY <1>b, <2>3, <2>4, ByStep
<1> QED BY <1>1, <1>2, <1>3, <1>4, <1>5, <1>6, <1>7 DEF EnableStep

LEMMA RestoreKeeps ==
  ASSUME Answerable, IInv, SysTypeOK', NEW a \in Actors, RestoreStep(a)
  PROVE  IInv'
<1> USE DEF Busy, Goto, Fail, Applying, Restoring, Labels, disk
<1>b. Busy(a)
  BY DEF RestoreStep, LoadForDisable, RestoreConf, RestoreLink, RestoreNM,
         RestoreResolved, RemoveBackup
<1>i. BusyInv(a)
  BY <1>b, AtStep
<1>t. SysTypeOK
  BY DEF IInv
<1>1. CASE LoadForDisable(a)
  <2>1. Sound /\ Sound'
    BY <1>1, <1>i DEF LoadForDisable, BusyInv, Sound, Clean, Covers
  <2>2. PICK label \in {"rconf", "done"} : pc' = [pc EXCEPT ![a] = label]
    BY <1>1 DEF LoadForDisable
  <2>3. CASE label = "rconf"
    <3>1. backup # NoBackup /\ bk'[a] = backup /\ UNCHANGED <<disk, op>>
      BY <1>1, <2>2, <2>3, <1>t DEF LoadForDisable, SysTypeOK
    <3>2. Working(a)'
      BY <2>1, <3>1 DEF Working, Sound, Covers
    <3>3. BusyInv(a)'
      BY <1>1, <2>2, <2>3, <3>1, <3>2, <1>t DEF LoadForDisable, BusyInv, SysTypeOK
    <3> QED BY <1>1, <1>b, <2>2, <2>3, <3>3, <1>t, ByStep DEF LoadForDisable, SysTypeOK
  <2>4. CASE label = "done"
    BY <1>1, <1>b, <2>1, <2>2, <2>4, <1>t, ByStep DEF LoadForDisable, SysTypeOK
  <2> QED BY <2>2, <2>3, <2>4
<1>2. CASE RestoreConf(a)
  <2>1. /\ Working(a)
        /\ op[a] \in {"enable", "disable"}
        /\ op[a] = "disable" => bk[a] = backup
    BY <1>2, <1>i DEF RestoreConf, BusyInv
  <2>2. PICK label \in {"rlink", "rnm"} : pc' = [pc EXCEPT ![a] = label]
    BY <1>2 DEF RestoreConf
  <2>3. UNCHANGED <<dropIn, nmDropIn, backup, opMu, op, bk>>
    BY <1>2 DEF RestoreConf
  <2>4. conf' # Ours \/ (op[a] = "disable" /\ err'[a] /\ label = "rnm" /\ UNCHANGED conf)
    <3>1. bk[a].file # Ours /\ Missing # Ours
      BY <2>1, ConstantsAssumption DEF Working, UserConf
    <3>2. RestoreMayFail(a) => op[a] = "disable"
      BY <2>1, NoUndo
    <3> QED BY <1>2, <2>1, <2>2, <3>1, <3>2, <1>t DEF RestoreConf, Working, Covers, SysTypeOK
  <2>5. Working(a)'
    BY <2>1, <2>3, <2>4 DEF Working, Covers
  <2>6. BusyInv(a)'
    BY <2>1, <2>2, <2>3, <2>4, <2>5, <1>t DEF BusyInv, SysTypeOK
  <2> QED BY <1>b, <2>2, <2>3, <2>6, <1>t, ByStep DEF SysTypeOK
<1>3. CASE RestoreLink(a)
  <2>1. /\ Working(a)
        /\ op[a] \in {"enable", "disable"}
        /\ op[a] = "disable" => bk[a] = backup
        /\ conf # Ours
    BY <1>3, <1>i DEF RestoreLink, BusyInv
  <2>2. pc' = [pc EXCEPT ![a] = "rnm"]
    BY <1>3 DEF RestoreLink
  <2>3. UNCHANGED <<dropIn, nmDropIn, backup, opMu, op, bk>>
    BY <1>3 DEF RestoreLink
  <2>4. conf' # Ours
    BY <1>3, <2>1, ConstantsAssumption DEF RestoreLink, Working, UserConf
  <2>5. Working(a)'
    BY <2>1, <2>3, <2>4 DEF Working, Covers
  <2>6. BusyInv(a)'
    BY <2>1, <2>2, <2>3, <2>4, <2>5, <1>t DEF BusyInv, SysTypeOK
  <2> QED BY <1>b, <2>2, <2>3, <2>6, <1>t, ByStep DEF SysTypeOK
<1>4. CASE RestoreNM(a)
  <2>1. /\ Working(a)
        /\ op[a] \in {"enable", "disable"}
        /\ op[a] = "disable" => bk[a] = backup
        /\ conf # Ours \/ (op[a] = "disable" /\ err[a])
    BY <1>4, <1>i DEF RestoreNM, BusyInv
  <2>2. pc' = [pc EXCEPT ![a] = "rresolved"] /\ ~nmDropIn'
    BY <1>4, <2>1 DEF RestoreNM, Working, Covers
  <2>3. UNCHANGED <<conf, dropIn, backup, opMu, op, bk, err>>
    BY <1>4 DEF RestoreNM
  <2>4. Working(a)'
    BY <2>1, <2>2, <2>3 DEF Working, Covers
  <2>5. BusyInv(a)'
    BY <2>1, <2>2, <2>3, <2>4, <1>t DEF BusyInv, SysTypeOK
  <2> QED BY <1>b, <2>2, <2>3, <2>5, <1>t, ByStep DEF SysTypeOK
<1>5. CASE RestoreResolved(a)
  <2>1. /\ Working(a)
        /\ op[a] \in {"enable", "disable"}
        /\ op[a] = "disable" => bk[a] = backup
        /\ conf # Ours \/ (op[a] = "disable" /\ err[a])
        /\ ~nmDropIn
    BY <1>5, <1>i DEF RestoreResolved, BusyInv
  <2>2. UNCHANGED <<conf, nmDropIn, backup, opMu, op, bk, err>> /\ ~dropIn'
    BY <1>5, <2>1 DEF RestoreResolved, Working, Covers
  <2>3. Working(a)'
    BY <2>1, <2>2 DEF Working, Covers
  <2>4. PICK label \in {"rremove", "done"} :
          /\ pc' = [pc EXCEPT ![a] = label]
          /\ label = "done" <=> op[a] = "disable" /\ err[a]
    BY <1>5 DEF RestoreResolved
  <2>5. CASE label = "rremove"
    <3>1. BusyInv(a)'
      BY <2>1, <2>2, <2>3, <2>4, <2>5, <1>t DEF BusyInv, Clean, SysTypeOK
    <3> QED BY <1>b, <2>2, <2>4, <2>5, <3>1, <1>t, ByStep DEF SysTypeOK
  <2>6. CASE label = "done"
    <3>1. Sound'
      BY <2>1, <2>2, <2>3, <2>4, <2>6 DEF Sound, Working, Covers
    <3> QED BY <1>b, <2>2, <2>4, <2>6, <3>1, <1>t, ByStep DEF SysTypeOK
  <2> QED BY <2>4, <2>5, <2>6
<1>6. CASE RemoveBackup(a)
  <2>1. Clean
    BY <1>6, <1>i DEF RemoveBackup, BusyInv
  <2>2. Sound'
    BY <1>6, <2>1 DEF RemoveBackup, Sound, Clean
  <2> QED BY <1>6, <1>b, <2>2, <1>t, ByStep DEF RemoveBackup, SysTypeOK
<1> QED BY <1>1, <1>2, <1>3, <1>4, <1>5, <1>6 DEF RestoreStep

LEMMA SyncKeeps ==
  ASSUME IInv, SysTypeOK', NEW a \in Actors, SyncStep(a)
  PROVE  IInv'
<1> USE DEF Busy, Goto, Fail, Applying, Restoring, Labels, disk
<1>b. Busy(a)
  BY DEF SyncStep, LoadForSync, CheckSetting, RewriteConf
<1>i. BusyInv(a)
  BY <1>b, AtStep
<1>t. SysTypeOK
  BY DEF IInv
<1>1. CASE LoadForSync(a)
  <2>1. Sound /\ Sound'
    BY <1>1, <1>i DEF LoadForSync, BusyInv, Sound, Clean, Covers
  <2>2. PICK label \in {"check", "done"} : pc' = [pc EXCEPT ![a] = label]
    BY <1>1 DEF LoadForSync
  <2>3. ASSUME label = "check" PROVE BusyInv(a)'
    <3>1. backup # NoBackup /\ bk'[a] = backup /\ UNCHANGED <<disk, op>>
      BY <1>1, <2>2, <2>3, <1>t DEF LoadForSync, SysTypeOK
    <3>2. Working(a)'
      BY <2>1, <3>1 DEF Working, Sound, Covers
    <3> QED BY <1>1, <2>2, <2>3, <3>1, <3>2, <1>t DEF LoadForSync, BusyInv, SysTypeOK
  <2> QED BY <1>1, <1>b, <2>1, <2>2, <2>3, <1>t, ByStep DEF LoadForSync, SysTypeOK
<1>2. CASE CheckSetting(a)
  <2>1. op[a] = "sync" /\ Working(a) /\ bk[a] = backup
    BY <1>2, <1>i DEF CheckSetting, BusyInv
  <2>2. UNCHANGED <<conf, dropIn, nmDropIn, backup, opMu, op, bk>>
    BY <1>2 DEF CheckSetting
  <2>3. Sound' /\ Working(a)'
    BY <2>1, <2>2 DEF Sound, Working, Covers
  <2>4. PICK label \in {"rewrite", "done"} :
          pc' = [pc EXCEPT ![a] = label] /\ (label = "rewrite" => bk[a].managed)
    BY <1>2 DEF CheckSetting
  <2>5. ASSUME label = "rewrite" PROVE BusyInv(a)'
    BY <2>1, <2>2, <2>3, <2>4, <2>5, <1>t DEF BusyInv, SysTypeOK
  <2> QED BY <1>b, <2>2, <2>3, <2>4, <2>5, <1>t, ByStep DEF SysTypeOK
<1>3. CASE RewriteConf(a)
  <2>1. Working(a) /\ bk[a] = backup /\ bk[a].managed
    BY <1>3, <1>i DEF RewriteConf, BusyInv
  <2>2. UNCHANGED <<dropIn, nmDropIn, backup, opMu>> /\ pc' = [pc EXCEPT ![a] = "done"]
    BY <1>3 DEF RewriteConf
  <2>3. Sound'
    BY <2>1, <2>2 DEF Sound, Working, Covers
  <2> QED BY <1>b, <2>2, <2>3, <1>t, ByStep DEF SysTypeOK
<1> QED BY <1>1, <1>2, <1>3 DEF SyncStep

-----------------------------------------------------------------------------
(* The steps around the procedures *)

\* A step that leaves the disk and every procedure under way alone keeps the
\* invariant, if it stops none that the disk depends on.
LEMMA ByControl ==
  ASSUME IInv, SysTypeOK', LockHeld', UNCHANGED disk,
         \A c \in Actors : Busy(c)' => /\ Busy(c)
                                       /\ pc'[c] = pc[c] /\ op'[c] = op[c]
                                       /\ bk'[c] = bk[c] /\ err'[c] = err[c],
         (\A c \in Actors : ~Busy(c)') => Sound
  PROVE  IInv'
<1>1. OneBusy'
  BY DEF IInv, OneBusy
<1>2. UNCHANGED <<conf, dropIn, nmDropIn, backup>>
  BY DEF disk
<1>3. Sound <=> Sound'
  BY <1>2 DEF Sound, Clean, Covers
<1>4. ASSUME NEW c \in Actors, Busy(c)' PROVE BusyInv(c)'
  <2>1. BusyInv(c) /\ pc'[c] = pc[c] /\ op'[c] = op[c] /\ bk'[c] = bk[c] /\ err'[c] = err[c]
    BY <1>4 DEF IInv
  <2>2. (Working(c) <=> Working(c)') /\ (Planned(c) <=> Planned(c)') /\ (Clean <=> Clean')
    BY <1>2, <1>3, <2>1 DEF Working, Planned, Clean, Covers
  <2> QED BY <1>2, <1>3, <2>1, <2>2 DEF BusyInv
<1> QED BY <1>1, <1>3, <1>4 DEF IInv

\* A procedure that is killed leaves the disk sound, unless it had changes on
\* the machine that only its memory knew of.
LEMMA KilledSound ==
  ASSUME IInv, NEW a \in Actors, Busy(a), ~Unrecorded(a)
  PROVE  Sound
<1>1. BusyInv(a) /\ pc[a] \in Labels /\ op[a] \in Ops
  BY AtStep
<1>2. CASE pc[a] = "load"
  BY <1>1, <1>2 DEF BusyInv
<1>3. CASE pc[a] = "save"
  BY <1>1, <1>3 DEF BusyInv, Planned
<1>4. CASE pc[a] \in Applying \cup Restoring \cup {"save2", "check", "rewrite"}
  <2>1. Working(a) /\ bk[a] = backup
    BY <1>1, <1>4 DEF BusyInv, Unrecorded, Applying, Restoring
  <2> QED BY <2>1 DEF Working, Sound
<1> QED BY <1>1, <1>2, <1>3, <1>4 DEF Busy, Labels

LEMMA LockKeeps ==
  ASSUME IInv, SysTypeOK', NEW a \in Actors, Lock(a)
  PROVE  IInv'
<1>1. LockHeld'
  BY ConstantsAssumption DEF IInv, SysTypeOK, LockHeld, Lock, Goto, Actors
<1>2. \A c \in Actors : (Busy(c)' <=> Busy(c)) /\ (Busy(c) => pc'[c] = pc[c])
  BY DEF IInv, SysTypeOK, Lock, Goto, Busy
<1>3. (\A c \in Actors : ~Busy(c)') => Sound
  BY <1>2 DEF IInv
<1> QED BY <1>1, <1>2, <1>3, ByControl DEF Lock

LEMMA ReturnKeeps ==
  ASSUME IInv, SysTypeOK', NEW a \in Actors, Return(a)
  PROVE  IInv'
<1>1. LockHeld'
  BY ConstantsAssumption DEF IInv, SysTypeOK, LockHeld, Return, Goto, Actors
<1>2. \A c \in Actors : /\ Busy(c)' <=> Busy(c)
                        /\ Busy(c) => c # a
  BY DEF IInv, SysTypeOK, Return, Goto, Busy
<1>3. (\A c \in Actors : ~Busy(c)') => Sound
  BY <1>2 DEF IInv
<1>4. \A c \in Actors : Busy(c)' => /\ Busy(c)
                                    /\ pc'[c] = pc[c] /\ op'[c] = op[c]
                                    /\ bk'[c] = bk[c] /\ err'[c] = err[c]
  BY <1>2 DEF IInv, SysTypeOK, Return, Goto
<1>5. UNCHANGED disk
  BY DEF Return
<1> QED BY <1>1, <1>3, <1>4, <1>5, ByControl

LEMMA CallKeeps ==
  ASSUME Answerable, IInv, SysTypeOK', NEW a \in Actors,
         NEW procedure \in Ops, Call(a, procedure)
  PROVE  IInv'
<1>1. \A c \in Actors : ~Busy(c)
  <2> SUFFICES ASSUME NEW c \in Actors, Busy(c) PROVE FALSE
    OBVIOUS
  <2>1. a \in Threads /\ c \in Threads /\ pc[a] = "held"
    BY DEF Call, Answerable, Unanswered
  <2>2. a = c
    BY <2>1 DEF IInv, LockHeld, Busy
  <2> QED BY <2>1, <2>2 DEF Busy
<1>2. Sound
  BY <1>1 DEF IInv
<1>3. pc' = [pc EXCEPT ![a] = "load"] /\ UNCHANGED <<conf, dropIn, nmDropIn, backup, opMu>>
  BY DEF Call, Goto, disk
<1>4. Sound'
  BY <1>2, <1>3 DEF Sound, Clean, Covers
<1>5. BusyInv(a)'
  BY <1>3, <1>4 DEF BusyInv, IInv, SysTypeOK, Applying, Restoring
<1>6. \A c \in Actors : Busy(c)' => c = a
  BY <1>1, <1>3 DEF Busy, IInv, SysTypeOK
<1>7. LockHeld'
  BY <1>3, ConstantsAssumption DEF IInv, SysTypeOK, LockHeld, Call, Actors
<1> QED BY <1>4, <1>5, <1>6, <1>7 DEF IInv, OneBusy

LEMMA LeaseKeeps ==
  ASSUME IInv, SysTypeOK', NEW file \in UserFiles, Lease(file)
  PROVE  IInv'
<1>1. conf' # Ours /\ UNCHANGED <<dropIn, nmDropIn, backup, opMu, op, pc, bk, err>>
  BY ConstantsAssumption DEF Lease, UserConf
<1>2. \A b : Covers(b) => Covers(b)'
  BY <1>1 DEF Covers
<1>3. (Sound => Sound') /\ (Clean => Clean')
  BY <1>1 DEF Sound, Clean, Covers
<1>4. ASSUME NEW c \in Actors, BusyInv(c) PROVE BusyInv(c)'
  <2>1. (Working(c) => Working(c)') /\ (Planned(c) => Planned(c)')
    BY <1>1, <1>3 DEF Working, Planned, Covers
  <2> QED BY <1>1, <1>3, <1>4, <2>1 DEF BusyInv
<1> QED BY <1>1, <1>3, <1>4 DEF IInv, LockHeld, OneBusy, Busy

LEMMA KillKeeps ==
  ASSUME Answerable, IInv, SysTypeOK', NEW gone \in SUBSET Actors, Kill(gone)
  PROVE  IInv'
<1>1. \A c \in Actors : /\ c \in gone => pc'[c] = "idle"
                        /\ c \notin gone => /\ pc'[c] = pc[c] /\ op'[c] = op[c]
                                            /\ bk'[c] = bk[c] /\ err'[c] = err[c]
  BY DEF Kill
<1>2. LockHeld'
  BY <1>1 DEF IInv, LockHeld, Kill, Actors
<1>3. \A c \in Actors : Busy(c)' => c \notin gone
  BY <1>1 DEF Busy
<1>4. \A c \in Actors : c \notin gone => (Busy(c)' <=> Busy(c))
  BY <1>1 DEF Busy
<1>5. ASSUME \A c \in Actors : ~Busy(c)' PROVE Sound
  <2>1. CASE \A c \in Actors : ~Busy(c)
    BY <2>1 DEF IInv
  <2>2. CASE \E c \in Actors : Busy(c)
    <3>1. PICK c \in Actors : Busy(c)
      BY <2>2
    <3>2. c \in gone
      BY <1>4, <1>5, <3>1
    <3>3. ~Unrecorded(c)
      BY <3>2 DEF Kill, Answerable, Unanswered
    <3> QED BY <3>1, <3>3, KilledSound
  <2> QED BY <2>1, <2>2
<1>6. UNCHANGED disk
  BY DEF Kill
<1> QED BY <1>1, <1>2, <1>3, <1>4, <1>5, <1>6, ByControl

-----------------------------------------------------------------------------
(* The invariant *)

LEMMA IInvLoaded == IInv => TypeInv
<1> SUFFICES ASSUME IInv, NEW a \in Actors,
                    pc[a] \in {"save", "save2", "check", "rewrite"} \cup Applying \cup Restoring
             PROVE  bk[a] # NoBackup
  BY DEF IInv, TypeInv, Loaded, SysTypeOK
<1>1. Busy(a)
  BY DEF Busy, Applying, Restoring
<1>2. BusyInv(a)
  BY <1>1, AtStep
<1>3. Working(a) \/ Planned(a)
  BY <1>2 DEF BusyInv
<1> QED BY <1>3 DEF Working, Planned

LEMMA IInvInit == SysInit => IInv
<1> SUFFICES ASSUME SysInit PROVE IInv
  OBVIOUS
<1>1. SysTypeOK
  BY ConstantsAssumption
  DEF SysInit, SysTypeOK, Confs, Actors, Ops, Labels, Applying, Restoring
<1>2. \A a \in Actors : pc[a] = "idle" /\ ~Busy(a)
  BY DEF SysInit, Busy
<1>3. LockHeld /\ OneBusy
  BY <1>2 DEF LockHeld, OneBusy, Actors
<1>4. Sound
  BY ConstantsAssumption DEF SysInit, Sound, Clean
<1> QED BY <1>1, <1>2, <1>3, <1>4 DEF IInv

LEMMA IInvStep ==
  ASSUME Answerable, IInv, [SysNext]_sysVars
  PROVE  IInv'
<1>1. SysTypeOK'
  BY IInvLoaded, TypeStep DEF TypeInv
<1>2. CASE SysNext
  <2>1. ASSUME NEW a \in Actors, Lock(a) PROVE IInv'
    BY <1>1, <2>1, LockKeeps
  <2>2. ASSUME NEW a \in Actors, Return(a) PROVE IInv'
    BY <1>1, <2>2, ReturnKeeps
  <2>3. ASSUME NEW a \in Actors, Step(a) PROVE IInv'
    BY <1>1, <2>3, EnableKeeps, RestoreKeeps, SyncKeeps DEF Step
  <2>4. ASSUME NEW a \in Actors, NEW procedure \in Ops \ {"none"}, Call(a, procedure)
        PROVE  IInv'
    BY <1>1, <2>4, CallKeeps
  <2>5. ASSUME NEW file \in UserFiles, Lease(file) PROVE IInv'
    BY <1>1, <2>5, LeaseKeeps
  <2>6. ASSUME NEW gone \in SUBSET Actors, Kill(gone) PROVE IInv'
    BY <1>1, <2>6, KillKeeps
  <2> QED BY <1>2, <2>1, <2>2, <2>3, <2>4, <2>5, <2>6 DEF SysNext, Actors
<1>3. CASE UNCHANGED sysVars
  <2>1. UNCHANGED <<conf, dropIn, nmDropIn, backup, opMu, op, pc, bk, err, disk>>
    BY <1>3 DEF sysVars, disk
  <2>2. LockHeld' /\ \A c \in Actors : Busy(c)' <=> Busy(c)
    BY <2>1 DEF IInv, LockHeld, Busy
  <2>3. (\A c \in Actors : ~Busy(c)') => Sound
    BY <2>2 DEF IInv
  <2> QED BY <1>1, <2>1, <2>2, <2>3, ByControl
<1> QED BY <1>2, <1>3

\* The inductive invariant, as long as nothing happens that the code has no
\* answer to.
THEOREM Safe ==
  ASSUME Answerable
  PROVE  SysSpec => []IInv
<1>1. IInv /\ [SysNext]_sysVars => IInv'
  BY IInvStep
<1> QED BY <1>1, IInvInit, PTL DEF SysSpec

\* Whenever no procedure is under way, the backup on disk can take back every
\* change the machine carries: for any number of goroutines, tools and files,
\* whatever writes fail, whenever the process dies with its changes recorded.
THEOREM AlwaysRestorable ==
  ASSUME Answerable
  PROVE  SysSpec => []Restorable
<1>1. IInv => Restorable
  BY DEF IInv, Restorable, Sound, Clean
<1> QED BY <1>1, Safe, PTL

LEMMA IInvBackedUp == IInv => PointedHasBackup
<1> SUFFICES ASSUME IInv, Pointed PROVE backup # NoBackup /\ backup.file \in UserConf
  BY DEF PointedHasBackup
<1>1. ~Clean
  BY DEF Pointed, Clean
<1>2. CASE \A a \in Actors : ~Busy(a)
  BY <1>1, <1>2 DEF IInv, Sound
<1>3. CASE \E a \in Actors : Busy(a)
  <2>1. PICK a \in Actors : Busy(a)
    BY <1>3
  <2>2. BusyInv(a) /\ pc[a] \in Labels
    BY <2>1, AtStep
  <2>3. Sound \/ Working(a)
    BY <2>1, <2>2 DEF BusyInv, Busy, Labels, Planned
  <2> QED BY <1>1, <2>3 DEF Sound, Working
<1> QED BY <1>2, <1>3

\* At every instant a machine that asks Ceky has the user's file in the backup.
THEOREM AlwaysBackedUp ==
  ASSUME Answerable
  PROVE  SysSpec => []PointedHasBackup
  BY IInvBackedUp, Safe, PTL

-----------------------------------------------------------------------------
(* The promise *)

\* No step changes both the backup and who answers the machine.
LEMMA OneAtATime == [SysNext]_sysVars => UNCHANGED <<conf, dropIn>> \/ UNCHANGED backup
<1> SUFFICES ASSUME [SysNext]_sysVars
             PROVE  UNCHANGED <<conf, dropIn>> \/ UNCHANGED backup
  OBVIOUS
<1> USE DEF disk
<1>1. ASSUME NEW a \in Actors, EnableStep(a)
      PROVE  UNCHANGED <<conf, dropIn>> \/ UNCHANGED backup
  BY <1>1 DEF EnableStep, LoadForEnable, SaveBackup, WriteDropIn, RestartResolved,
              WriteNMDropIn, WriteResolvConf, SaveFlags
<1>2. ASSUME NEW a \in Actors, RestoreStep(a) \/ SyncStep(a)
      PROVE  UNCHANGED <<conf, dropIn>> \/ UNCHANGED backup
  BY <1>2 DEF RestoreStep, LoadForDisable, RestoreConf, RestoreLink, RestoreNM,
              RestoreResolved, RemoveBackup, SyncStep, LoadForSync, CheckSetting, RewriteConf
<1>3. ASSUME NEW a \in Actors, Lock(a) \/ Return(a) PROVE UNCHANGED backup
  BY <1>3 DEF Lock, Return
<1>4. ASSUME NEW a \in Actors, NEW procedure, Call(a, procedure) PROVE UNCHANGED backup
  BY <1>4 DEF Call
<1>5. ASSUME NEW file, Lease(file) PROVE UNCHANGED backup
  BY <1>5 DEF Lease
<1>6. ASSUME NEW gone, Kill(gone) PROVE UNCHANGED backup
  BY <1>6 DEF Kill
<1>7. CASE UNCHANGED sysVars
  BY <1>7 DEF sysVars
<1> QED BY <1>1, <1>2, <1>3, <1>4, <1>5, <1>6, <1>7 DEF SysNext, Step

\* A step maps to one of SafeRedirect's or to none of them: it redirects under
\* a record, reverts, saves, or forgets the record of a machine that is back.
LEMMA PromiseStep ==
  ASSUME PointedHasBackup, PointedHasBackup',
         UNCHANGED <<conf, dropIn>> \/ UNCHANGED backup
  PROVE  [Promise!Next]_(Promise!vars)
<1> USE DEF Promise!Next, Promise!vars, Promise!Save, Promise!Redirect, Promise!Revert,
            Promise!Forget
<1>1. CASE UNCHANGED <<conf, dropIn>>
  <2>1. Pointed' = Pointed
    BY <1>1 DEF Pointed
  <2>2. CASE backup' = NoBackup
    BY <2>1, <2>2 DEF PointedHasBackup
  <2>3. CASE backup' # NoBackup
    BY <2>1, <2>3
  <2> QED BY <2>2, <2>3
<1>2. CASE UNCHANGED backup
  <2>1. CASE Pointed'
    BY <1>2, <2>1 DEF PointedHasBackup
  <2>2. CASE ~Pointed'
    BY <1>2, <2>2
  <2> QED BY <2>1, <2>2
<1> QED BY <1>1, <1>2

\* The three procedures together implement SafeRedirect: the machine is
\* redirected only while a record of the user's setting exists, and the record
\* is dropped only once the machine is back.
THEOREM KeepsPromise ==
  ASSUME Answerable
  PROVE  SysSpec => PromiseKept
<1>1. SysInit => Promise!Init
  BY ConstantsAssumption DEF SysInit, Promise!Init, Pointed
<1>2. PointedHasBackup /\ PointedHasBackup' /\ [SysNext]_sysVars
        => [Promise!Next]_(Promise!vars)
  BY OneAtATime, PromiseStep
<1> QED BY <1>1, <1>2, AlwaysBackedUp, PTL DEF SysSpec, PromiseKept, Promise!Spec

-----------------------------------------------------------------------------
(* What a caller may conclude from a procedure's return *)

\* Errors are met late, the tools only restore, and a restoration that reports
\* no error to a goroutine has removed the backup.
Returned ==
  \A a \in Actors :
    /\ pc[a] \in {"idle", "held", "load", "save", "save2", "check", "rewrite"} \cup Applying
         => ~err[a]
    /\ a \in Tools => op[a] \in {"none", "disable"}
    /\ a \in Threads /\ op[a] = "disable" /\ pc[a] = "done" /\ ~err[a] => backup = NoBackup

\* Only a goroutine's enable writes the backup, and it holds opMu.
LEMMA WhoWrites ==
  ASSUME IInv, Returned, NEW a \in Actors, Step(a), backup' # backup, backup' # NoBackup
  PROVE  /\ a \in Threads /\ opMu = a /\ op[a] = "enable"
         /\ pc[a] \in {"save", "save2"}
<1>1. op[a] = "enable" /\ pc[a] \in {"save", "save2"}
  BY DEF Step, EnableStep, LoadForEnable, SaveBackup, WriteDropIn, RestartResolved,
         WriteNMDropIn, WriteResolvConf, SaveFlags, RestoreStep, LoadForDisable, RestoreConf,
         RestoreLink, RestoreNM, RestoreResolved, RemoveBackup, SyncStep, LoadForSync,
         CheckSetting, RewriteConf, disk
<1> QED BY <1>1 DEF Returned, Actors, IInv, LockHeld

\* What a step of a procedure does to its actor's place and error.
LEMMA StepMoves ==
  ASSUME SysTypeOK, NEW a \in Actors, Step(a)
  PROVE  /\ Busy(a)
         /\ UNCHANGED <<op, opMu, admin>>
         /\ \E label \in Labels \ {"idle", "held", "load"} :
              /\ pc' = [pc EXCEPT ![a] = label]
              /\ \/ err' = err
                 \/ err' = [err EXCEPT ![a] = TRUE] /\ label \in Restoring \cup {"done"}
              /\ label \in {"save", "save2", "check", "rewrite"} \cup Applying =>
                   pc[a] \in {"load", "save", "check"} \cup Applying
<1> USE DEF Busy, Goto, Fail, Applying, Restoring, Labels, disk
<1>1. CASE EnableStep(a)
  BY <1>1 DEF EnableStep, LoadForEnable, SaveBackup, WriteDropIn, RestartResolved,
              WriteNMDropIn, WriteResolvConf, SaveFlags, FirstWrite
<1>2. CASE RestoreStep(a)
  BY <1>2 DEF RestoreStep, LoadForDisable, RestoreConf, RestoreLink, RestoreNM,
              RestoreResolved, RemoveBackup
<1>3. CASE SyncStep(a)
  BY <1>3 DEF SyncStep, LoadForSync, CheckSetting, RewriteConf
<1> QED BY <1>1, <1>2, <1>3 DEF Step

LEMMA ReturnedStep ==
  ASSUME IInv, IInv', Returned, [SysNext]_sysVars
  PROVE  Returned'
<1> USE DEF Returned
<1>t. SysTypeOK /\ SysTypeOK'
  BY DEF IInv
<1>1. ASSUME NEW a \in Actors, Step(a) PROVE Returned'
  <2>1. PICK label \in Labels \ {"idle", "held", "load"} :
          /\ pc' = [pc EXCEPT ![a] = label]
          /\ \/ err' = err
             \/ err' = [err EXCEPT ![a] = TRUE] /\ label \in Restoring \cup {"done"}
          /\ label \in {"save", "save2", "check", "rewrite"} \cup Applying =>
               pc[a] \in {"load", "save", "check"} \cup Applying
    BY <1>1, <1>t, StepMoves
  <2>2. Busy(a) /\ UNCHANGED <<op, opMu, admin>>
    BY <1>1, <1>t, StepMoves
  <2>3. ASSUME NEW c \in Actors,
               pc'[c] \in {"idle", "held", "load", "save", "save2", "check", "rewrite"}
                            \cup Applying
        PROVE  ~err'[c]
    BY <1>t, <2>1, <2>3 DEF SysTypeOK, Applying, Restoring
  <2>4. ASSUME NEW c \in Threads, op'[c] = "disable", pc'[c] = "done", ~err'[c]
        PROVE  backup' = NoBackup
    <3>1. c \in Actors
      BY DEF Actors
    <3>2. CASE c = a
      <4>1. ~err[a]
        BY <1>t, <2>1, <2>4, <3>2 DEF SysTypeOK
      <4>2. BusyInv(a)
        BY <2>2, AtStep
      <4>3. CASE LoadForDisable(a)
        BY <1>t, <2>4, <3>2, <4>3
        DEF LoadForDisable, Fail, Goto, SysTypeOK, disk
      <4>4. CASE RemoveBackup(a)
        BY <4>4 DEF RemoveBackup
      <4>5. CASE RestoreConf(a) \/ RestoreLink(a) \/ RestoreNM(a) \/ RestoreResolved(a)
        BY <1>t, <2>2, <2>4, <3>2, <4>1, <4>5
        DEF RestoreConf, RestoreLink, RestoreNM, RestoreResolved, Fail, Goto, SysTypeOK
      <4>6. CASE EnableStep(a) \/ SyncStep(a)
        BY <2>2, <2>4, <3>2, <4>6
        DEF EnableStep, LoadForEnable, SaveBackup, WriteDropIn, RestartResolved,
            WriteNMDropIn, WriteResolvConf, SaveFlags, SyncStep, LoadForSync,
            CheckSetting, RewriteConf
      <4> QED BY <1>1, <4>3, <4>4, <4>5, <4>6 DEF Step, RestoreStep
    <3>3. CASE c # a
      <4>1. pc[c] = "done" /\ op[c] = "disable" /\ ~err[c] /\ backup = NoBackup
        BY <1>t, <2>1, <2>2, <2>4, <3>1, <3>3 DEF SysTypeOK
      <4>2. opMu = c
        BY <4>1 DEF IInv, LockHeld
      <4> QED BY <1>1, <3>3, <4>1, <4>2, WhoWrites
    <3> QED BY <3>2, <3>3
  <2> QED BY <2>2, <2>3, <2>4
<1>2. ASSUME NEW a \in Actors, Lock(a) \/ Return(a) PROVE Returned'
  BY <1>t, <1>2 DEF Lock, Return, Goto, disk, SysTypeOK, Applying
<1>3. ASSUME NEW a \in Actors, NEW procedure \in Ops, Call(a, procedure) PROVE Returned'
  BY <1>t, <1>3 DEF Call, Goto, disk, SysTypeOK, Applying
<1>4. ASSUME NEW gone \in SUBSET Actors, Kill(gone) PROVE Returned'
  BY <1>4 DEF Kill, disk
<1>5. ASSUME NEW file \in UserFiles, Lease(file) PROVE Returned'
  BY <1>5 DEF Lease
<1>6. CASE UNCHANGED sysVars
  BY <1>6 DEF sysVars
<1> QED BY <1>1, <1>2, <1>3, <1>4, <1>5, <1>6 DEF SysNext, Actors

\* A restoration can be believed: when disableSystemDNS has returned to a
\* goroutine without an error, the backup is gone, and stays so while the
\* goroutine holds opMu.
THEOREM ErrorsAreReported ==
  ASSUME Answerable
  PROVE  SysSpec => []Returned
<1>1. SysInit => Returned
  BY DEF SysInit, Returned
<1>2. IInv /\ IInv' /\ Returned /\ [SysNext]_sysVars => Returned'
  BY ReturnedStep
<1> QED BY <1>1, <1>2, Safe, PTL DEF SysSpec

\* Writes succeed, and no DHCP client is about where resolv.conf may be a link.
Undisturbed ==
  /\ Faults \subseteq {"lease"}
  /\ "lease" \in Faults => Links = {}

LEMMA UndisturbedAnswerable == Undisturbed => Answerable
  BY DEF Undisturbed, Answerable, Unanswered

\* Then a restoration with root cannot fail, not even in the moment between
\* the removal of the file and the link put in its place.
Smooth ==
  /\ \A a \in Threads : op[a] = "disable" /\ admin => ~err[a]
  /\ \A a \in Actors : pc[a] = "rlink" => conf = Missing /\ bk[a].file \in Links

LEMMA SmoothStep ==
  ASSUME Undisturbed, IInv, IInv', Returned, Smooth, [SysNext]_sysVars
  PROVE  Smooth'
<1> USE DEF Smooth
<1>t. SysTypeOK /\ SysTypeOK'
  BY DEF IInv
<1>0. \A a \in Actors : ~RestoreMayFail(a)
  BY DEF Undisturbed, RestoreMayFail
<1>1. ASSUME NEW a \in Actors, Step(a) PROVE Smooth'
  <2>1. Busy(a) /\ UNCHANGED <<op, opMu, admin>>
    BY <1>1, <1>t, StepMoves
  <2>2. \A c \in Actors \ {a} : pc'[c] = pc[c] /\ err'[c] = err[c] /\ pc[c] # "rlink"
    <3>1. \A c \in Actors \ {a} : ~Busy(c)
      BY <2>1 DEF IInv, OneBusy
    <3>2. \A c \in Actors \ {a} : pc'[c] = pc[c] /\ err'[c] = err[c]
      BY <1>1, <1>t, StepMoves DEF SysTypeOK
    <3> QED BY <3>1, <3>2 DEF Busy
  <2>3. ASSUME pc'[a] = "rlink" PROVE conf' = Missing /\ bk'[a].file \in Links
    <3>1. CASE EnableStep(a) \/ SyncStep(a)
      BY <1>t, <2>3, <3>1
      DEF EnableStep, LoadForEnable, SaveBackup, WriteDropIn, RestartResolved,
          WriteNMDropIn, WriteResolvConf, SaveFlags, SyncStep, LoadForSync,
          CheckSetting, RewriteConf, FirstWrite, Fail, Goto, SysTypeOK
    <3>2. CASE RestoreStep(a)
      BY <1>t, <2>3, <3>2
      DEF RestoreStep, LoadForDisable, RestoreConf, RestoreLink, RestoreNM,
          RestoreResolved, RemoveBackup, Fail, Goto, SysTypeOK
    <3> QED BY <1>1, <3>1, <3>2 DEF Step
  <2>4. ASSUME a \in Threads, op[a] = "disable", admin PROVE ~err'[a]
    <3>1. BusyInv(a)
      BY <2>1, AtStep
    <3>2. ~err[a]
      BY <2>4
    <3>3. CASE EnableStep(a) \/ SyncStep(a)
      BY <2>4, <3>3
      DEF EnableStep, LoadForEnable, SaveBackup, WriteDropIn, RestartResolved,
          WriteNMDropIn, WriteResolvConf, SaveFlags, SyncStep, LoadForSync,
          CheckSetting, RewriteConf
    <3>4. CASE LoadForDisable(a)
      BY <2>4, <3>2, <3>4 DEF LoadForDisable, Allowed
    <3>5. CASE RestoreConf(a) \/ RestoreNM(a) \/ RestoreResolved(a) \/ RemoveBackup(a)
      BY <1>0, <3>2, <3>5 DEF RestoreConf, RestoreNM, RestoreResolved, RemoveBackup
    <3>6. CASE RestoreLink(a)
      BY <1>0, <3>2, <3>6 DEF RestoreLink
    <3> QED BY <1>1, <3>3, <3>4, <3>5, <3>6 DEF Step, RestoreStep
  <2> QED BY <2>1, <2>2, <2>3, <2>4 DEF Actors
<1>2. ASSUME NEW a \in Actors, Lock(a) \/ Return(a) PROVE Smooth'
  BY <1>t, <1>2 DEF Lock, Return, Goto, disk, SysTypeOK, Actors
<1>3. ASSUME NEW a \in Actors, NEW procedure \in Ops, Call(a, procedure) PROVE Smooth'
  <2>1. ~err[a]
    BY <1>3 DEF Call, Returned
  <2> QED BY <1>t, <1>3, <2>1 DEF Call, Goto, disk, SysTypeOK, Actors
<1>4. CASE Kill(Threads)
  BY <1>4 DEF Kill, disk, Actors
<1>5. ASSUME NEW a \in Tools, Kill({a}) PROVE Smooth'
  <2>1. \A t \in Threads : t # a
    BY ConstantsAssumption
  <2>2. Threads # {} => admin' = admin
    BY <1>5, <2>1 DEF Kill
  <2> QED BY <1>5, <2>2, ConstantsAssumption DEF Kill, disk, Actors
<1>6. ASSUME NEW file \in UserFiles, Lease(file) PROVE Smooth'
  BY <1>6 DEF Lease, Undisturbed
<1>7. CASE UNCHANGED sysVars
  BY <1>7 DEF sysVars
<1> QED BY <1>1, <1>2, <1>3, <1>4, <1>5, <1>6, <1>7 DEF SysNext, Actors

-----------------------------------------------------------------------------
(* The user's file *)

\* A goroutine that will write the backup has the file of the one on disk; the
\* tools write none, and opMu keeps goroutines apart.
KeptInv ==
  /\ TypeInv
  /\ LockHeld
  /\ \A a \in Tools : op[a] \in {"none", "disable"}
  /\ \A a \in Threads :
       op[a] = "enable" /\ pc[a] \in Applying \cup {"save", "save2"} /\ backup # NoBackup
         => bk[a].file = backup.file

\* What a step may write of the backup, if there is one.
LEMMA KeptWrite ==
  ASSUME KeptInv, NEW a \in Actors, Step(a)
  PROVE  backup' # NoBackup => backup' = backup \/ (a \in Threads /\ backup' = bk[a]
           /\ op[a] = "enable" /\ pc[a] \in {"save", "save2"} /\ bk' = bk)
<1>1. ASSUME op[a] = "enable" PROVE a \in Threads
  BY <1>1 DEF KeptInv, Actors
<1>2. CASE EnableStep(a)
  BY <1>1, <1>2 DEF EnableStep, LoadForEnable, SaveBackup, WriteDropIn, RestartResolved,
    WriteNMDropIn, WriteResolvConf, SaveFlags, disk
<1>3. CASE RestoreStep(a) \/ SyncStep(a)
  BY <1>3 DEF RestoreStep, LoadForDisable, RestoreConf, RestoreLink, RestoreNM,
    RestoreResolved, RemoveBackup, SyncStep, LoadForSync, CheckSetting, RewriteConf, disk
<1> QED BY <1>2, <1>3 DEF Step

\* The actor that steps goes on with the same file.
LEMMA KeptStep ==
  ASSUME KeptInv, NEW a \in Threads, Step(a), TypeInv',
         op'[a] = "enable", pc'[a] \in Applying \cup {"save", "save2"}, backup' # NoBackup
  PROVE  bk'[a].file = backup'.file
<1> USE DEF Applying, Restoring, Goto, Fail, disk
<1>t. a \in Actors /\ SysTypeOK /\ Loaded
  BY DEF Actors, KeptInv, TypeInv
<1>f. FirstWrite \in {"resolved", "nm", "conf"}
  BY DEF FirstWrite
<1>1. CASE LoadForEnable(a)
  <2>1. Allowed(a)
    BY <1>1, <1>t DEF LoadForEnable, SysTypeOK
  <2>2. bk'[a] = (IF backup = NoBackup THEN Snapshot ELSE backup) /\ backup' = backup
    BY <1>1, <1>t, <2>1 DEF LoadForEnable, SysTypeOK
  <2> QED BY <2>2
<1>2. CASE SaveBackup(a)
  <2>1. backup' = bk[a] /\ bk' = bk
    BY <1>2, <1>t DEF SaveBackup, SysTypeOK
  <2> QED BY <2>1
<1>3. CASE WriteDropIn(a)
  <2>1. backup' = backup /\ op[a] = "enable" /\ pc[a] = "resolved" /\ bk[a] \in Backup
    BY <1>3, <1>t DEF WriteDropIn, Loaded
  <2>2. bk' = [bk EXCEPT ![a].dropIn = TRUE]
    BY <1>3, <1>t DEF WriteDropIn, SysTypeOK
  <2>3. bk'[a].file = bk[a].file
    BY <1>t, <2>1, <2>2 DEF SysTypeOK, Backup
  <2> QED BY <2>1, <2>3 DEF KeptInv
<1>4. CASE WriteNMDropIn(a)
  <2>1. backup' = backup /\ op[a] = "enable" /\ pc[a] = "nm" /\ bk[a] \in Backup
    BY <1>4, <1>t DEF WriteNMDropIn, Loaded
  <2>2. bk' = [bk EXCEPT ![a].nm = TRUE]
    BY <1>4, <1>t DEF WriteNMDropIn, SysTypeOK
  <2>3. bk'[a].file = bk[a].file
    BY <1>t, <2>1, <2>2 DEF SysTypeOK, Backup
  <2> QED BY <2>1, <2>3 DEF KeptInv
<1>5. CASE WriteResolvConf(a)
  <2>1. backup' = backup /\ op[a] = "enable" /\ pc[a] = "conf" /\ bk[a] \in Backup
    BY <1>5, <1>t DEF WriteResolvConf, Loaded
  <2>2. bk' = [bk EXCEPT ![a].managed = TRUE]
    BY <1>5 DEF WriteResolvConf
  <2>3. bk'[a].file = bk[a].file
    BY <1>t, <2>1, <2>2 DEF SysTypeOK, Backup
  <2> QED BY <2>1, <2>3 DEF KeptInv
<1>6. CASE RestartResolved(a)
  BY <1>6 DEF RestartResolved, KeptInv
<1>7. CASE SaveFlags(a)
  BY <1>7, <1>t DEF SaveFlags, SysTypeOK
<1>8. CASE RestoreStep(a)
  <2>1. PICK label \in {"done", "rconf", "rlink", "rnm", "rresolved", "rremove"} :
          pc' = [pc EXCEPT ![a] = label]
    BY <1>8 DEF RestoreStep, LoadForDisable, RestoreConf, RestoreLink, RestoreNM,
                RestoreResolved, RemoveBackup
  <2> QED BY <1>t, <2>1 DEF SysTypeOK
<1>9. CASE SyncStep(a)
  BY <1>9, <1>t DEF SyncStep, LoadForSync, CheckSetting, RewriteConf
<1> QED BY <1>1, <1>2, <1>3, <1>4, <1>5, <1>6, <1>7, <1>8, <1>9 DEF Step, EnableStep

LEMMA KeptKeeps == KeptInv /\ [SysNext]_sysVars => KeptInv'
<1> SUFFICES ASSUME KeptInv, [SysNext]_sysVars PROVE KeptInv'
  OBVIOUS
<1>t. TypeInv /\ TypeInv' /\ SysTypeOK
  BY TypeStep DEF KeptInv, TypeInv
<1> USE DEF Applying, Restoring
<1>1. ASSUME NEW a \in Actors, Step(a) PROVE KeptInv'
  <2>1. PICK label \in Labels \ {"idle", "held"} : pc' = [pc EXCEPT ![a] = label]
    BY <1>1, <1>t, StepMoves
  <2>2. Busy(a) /\ UNCHANGED <<op, opMu>>
    BY <1>1, <1>t, StepMoves
  <2>3. LockHeld'
    BY <1>t, <2>1, <2>2 DEF KeptInv, LockHeld, Busy, SysTypeOK, Actors
  <2>4. ASSUME NEW c \in Threads, op'[c] = "enable",
               pc'[c] \in Applying \cup {"save", "save2"}, backup' # NoBackup
        PROVE  bk'[c].file = backup'.file
    <3>1. CASE c = a
      BY <1>1, <1>t, <2>4, <3>1, KeptStep
    <3>2. CASE c # a
      <4>1. c \in Actors /\ pc'[c] = pc[c] /\ op'[c] = op[c]
        BY <1>t, <2>1, <2>2, <3>2 DEF SysTypeOK, Actors
      <4>2. opMu = c
        BY <2>4, <4>1 DEF KeptInv, LockHeld
      <4>3. a \notin Threads
        BY <2>2, <3>2, <4>2 DEF KeptInv, LockHeld, Busy
      <4>4. backup' = backup
        BY <1>1, <2>4, <4>3, KeptWrite
      <4>5. bk'[c] = bk[c]
        BY <1>1, <1>t, <3>2, <4>1
        DEF Step, EnableStep, LoadForEnable, SaveBackup, WriteDropIn, RestartResolved,
            WriteNMDropIn, WriteResolvConf, SaveFlags, RestoreStep, LoadForDisable, RestoreConf,
            RestoreLink, RestoreNM, RestoreResolved, RemoveBackup, SyncStep, LoadForSync,
            CheckSetting, RewriteConf, SysTypeOK
      <4> QED BY <2>4, <4>1, <4>4, <4>5 DEF KeptInv
    <3> QED BY <3>1, <3>2
  <2> QED BY <1>t, <2>2, <2>3, <2>4 DEF KeptInv
<1>2. ASSUME NEW a \in Actors, Lock(a) PROVE KeptInv'
  <2>1. LockHeld'
    BY <1>t, <1>2, ConstantsAssumption DEF Lock, Goto, KeptInv, LockHeld, SysTypeOK, Actors
  <2> QED BY <1>t, <1>2, <2>1 DEF Lock, Goto, KeptInv, SysTypeOK, Actors, disk
<1>3. ASSUME NEW a \in Actors, Return(a) PROVE KeptInv'
  <2>1. LockHeld'
    BY <1>t, <1>3, ConstantsAssumption DEF Return, Goto, KeptInv, LockHeld, SysTypeOK, Actors
  <2> QED BY <1>t, <1>3, <2>1 DEF Return, Goto, KeptInv, SysTypeOK, Actors, disk
<1>4. ASSUME NEW a \in Actors, NEW procedure \in Ops, Call(a, procedure) PROVE KeptInv'
  <2>1. LockHeld'
    BY <1>t, <1>4, ConstantsAssumption DEF Call, Goto, KeptInv, LockHeld, SysTypeOK, Actors
  <2> QED BY <1>t, <1>4, <2>1 DEF Call, Goto, KeptInv, SysTypeOK, Actors, disk
<1>5. ASSUME NEW file \in UserFiles, Lease(file) PROVE KeptInv'
  BY <1>t, <1>5 DEF Lease, KeptInv, LockHeld
<1>6. ASSUME NEW gone \in SUBSET Actors, Kill(gone) PROVE KeptInv'
  <2>1. LockHeld'
    BY <1>t, <1>6 DEF Kill, KeptInv, LockHeld, Actors
  <2> QED BY <1>t, <1>6, <2>1 DEF Kill, KeptInv, Actors, disk
<1>7. CASE UNCHANGED sysVars
  BY <1>t, <1>7 DEF sysVars, KeptInv, LockHeld
<1> QED BY <1>1, <1>2, <1>3, <1>4, <1>5, <1>6, <1>7 DEF SysNext, Actors

\* The file saved first is never replaced by a later one, under any fault: not
\* by a second enable, a retry after a crash, or the tools that run meanwhile.
THEOREM FirstFileKept == SysSpec => OriginalKept
<1>1. SysInit => KeptInv
  <2> SUFFICES ASSUME SysInit PROVE KeptInv
    OBVIOUS
  <2>1. TypeInv /\ LockHeld
    BY IInvInit, IInvLoaded DEF IInv
  <2> QED BY <2>1 DEF KeptInv, SysInit, Actors
<1>2. KeptInv /\ [SysNext]_sysVars
        => [backup # NoBackup /\ backup' # NoBackup => backup'.file = backup.file]_sysVars
  <2> SUFFICES ASSUME KeptInv, SysNext, backup # NoBackup, backup' # NoBackup
               PROVE  backup'.file = backup.file
    OBVIOUS
  <2>1. ASSUME NEW a \in Actors, Step(a) PROVE backup'.file = backup.file
    BY <2>1, KeptWrite DEF KeptInv
  <2>2. CASE backup' = backup
    BY <2>2
  <2> QED BY <2>1, <2>2 DEF SysNext, Lock, Return, Call, Lease, Kill, disk
<1> QED BY <1>1, <1>2, KeptKeeps, PTL DEF SysSpec, OriginalKept

\* Where resolv.conf stands, if only Ceky writes it, while an actor is busy.
FileAt(a) ==
  /\ pc[a] = "save" /\ backup = NoBackup => bk[a].file = conf
  /\ pc[a] \in Applying \cup Restoring \cup {"save2"} /\ backup.managed => bk[a].managed
  /\ pc[a] = "rlink" => bk[a].managed
  /\ pc[a] \in {"rnm", "rresolved"} => conf = backup.file \/ (op[a] = "disable" /\ err[a])
  /\ pc[a] = "rremove" => conf = backup.file

\* It is Ceky's or the one saved, or it was removed to make room for a link,
\* which the backup knows of, or the actor that removed it.
FilePlace ==
  backup # NoBackup =>
    \/ conf \in {Ours, backup.file}
    \/ conf = Missing /\ (backup.managed \/ \E a \in Actors : pc[a] = "rlink" /\ bk[a].managed)

FileInv == FilePlace /\ \A a \in Actors : Busy(a) => FileAt(a)

\* A step of a procedure concerns only its actor: no other one is busy.
LEMMA FileByStep ==
  ASSUME IInv, NEW a \in Actors, Busy(a),
         NEW label \in Labels \ {"idle", "held"}, pc' = [pc EXCEPT ![a] = label],
         FilePlace', Busy(a)' => FileAt(a)'
  PROVE  FileInv'
<1>1. \A c \in Actors \ {a} : ~Busy(c)'
  BY DEF IInv, SysTypeOK, OneBusy, Busy
<1> QED BY <1>1 DEF FileInv

LEMMA FileEnable ==
  ASSUME Answerable, "lease" \notin Faults, IInv, FileInv, IInv', NEW a \in Actors, EnableStep(a)
  PROVE  FilePlace' /\ (Busy(a)' => FileAt(a)')
<1> USE DEF Goto, Fail, Applying, Restoring, disk
<1>b. Busy(a)
  BY DEF Busy, EnableStep, LoadForEnable, SaveBackup, WriteDropIn, RestartResolved,
         WriteNMDropIn, WriteResolvConf, SaveFlags
<1>i. BusyInv(a) /\ FileAt(a)
  BY <1>b, AtStep DEF FileInv
<1>t. SysTypeOK /\ TypeInv
  BY IInvLoaded DEF IInv
<1>o. \A c \in Actors : pc[c] = "rlink" => c = a
  BY <1>b DEF IInv, OneBusy, Busy
<1>n. pc[a] # "rlink"
  BY DEF EnableStep, LoadForEnable, SaveBackup, WriteDropIn, RestartResolved,
         WriteNMDropIn, WriteResolvConf, SaveFlags
<1>p. backup # NoBackup =>
        conf \in {Ours, backup.file} \/ (conf = Missing /\ backup.managed)
  BY <1>o, <1>n DEF FileInv, FilePlace
<1>1. CASE LoadForEnable(a)
  <2>1. UNCHANGED <<conf, backup>>
    BY <1>1 DEF LoadForEnable
  <2>2. CASE Allowed(a)
    <3>1. pc'[a] = "save" /\ bk'[a] = (IF backup = NoBackup THEN Snapshot ELSE backup)
      BY <1>1, <1>t, <2>2 DEF LoadForEnable, SysTypeOK
    <3>2. backup = NoBackup => bk'[a].file = conf
      BY <3>1 DEF Snapshot
    <3> QED BY <1>p, <2>1, <3>1, <3>2 DEF FilePlace, FileAt
  <2>3. CASE ~Allowed(a)
    <3>1. pc'[a] = "done"
      BY <1>1, <1>t, <2>3 DEF LoadForEnable, SysTypeOK
    <3> QED BY <1>p, <2>1, <3>1 DEF FilePlace, Busy
  <2> QED BY <2>2, <2>3
<1>2. CASE SaveBackup(a)
  <2>1. Planned(a) /\ conf' = conf /\ bk' = bk
    BY <1>2, <1>i DEF SaveBackup, BusyInv
  <2>2. CASE backup' = bk[a] /\ pc' = [pc EXCEPT ![a] = FirstWrite]
    <3>1. pc'[a] \in {"resolved", "nm", "conf"}
      BY <1>t, <2>2 DEF SysTypeOK, FirstWrite
    <3>2. conf \in {Ours, bk[a].file} \/ (conf = Missing /\ bk[a].managed)
      BY <1>2, <1>i, <1>p, <2>1 DEF Planned, SaveBackup, FileAt
    <3> QED BY <2>1, <2>2, <3>1, <3>2 DEF FilePlace, FileAt
  <2>3. CASE backup' = backup /\ pc' = [pc EXCEPT ![a] = "done"]
    <3>1. pc'[a] = "done"
      BY <1>t, <2>3 DEF SysTypeOK
    <3> QED BY <1>p, <2>1, <2>3, <3>1 DEF FilePlace, Busy
  <2> QED BY <1>2, <2>2, <2>3 DEF SaveBackup
<1>3. CASE WriteDropIn(a) \/ RestartResolved(a) \/ WriteNMDropIn(a)
  <2>1. /\ UNCHANGED <<conf, backup>>
        /\ pc[a] \in Applying
        /\ \E label \in {"restart", "restartStub", "nm", "conf", "save2", "rconf"} :
             pc' = [pc EXCEPT ![a] = label]
    BY <1>3 DEF WriteDropIn, RestartResolved, WriteNMDropIn
  <2>2. bk[a] \in Backup
    BY <1>t, <2>1 DEF TypeInv, Loaded
  <2>3. bk'[a].managed = bk[a].managed
    <3>1. CASE WriteDropIn(a)
      <4>1. bk' = bk \/ bk' = [bk EXCEPT ![a].dropIn = TRUE]
        BY <3>1 DEF WriteDropIn
      <4> QED BY <1>t, <2>2, <4>1 DEF SysTypeOK, Backup
    <3>2. CASE WriteNMDropIn(a)
      <4>1. bk' = bk \/ bk' = [bk EXCEPT ![a].nm = TRUE]
        BY <3>2 DEF WriteNMDropIn
      <4> QED BY <1>t, <2>2, <4>1 DEF SysTypeOK, Backup
    <3>3. CASE RestartResolved(a)
      BY <3>3 DEF RestartResolved
    <3> QED BY <1>3, <3>1, <3>2, <3>3
  <2>4. pc'[a] \in {"restart", "restartStub", "nm", "conf", "save2", "rconf"}
    BY <1>t, <2>1 DEF SysTypeOK
  <2>5. FileAt(a)'
    BY <1>i, <2>1, <2>3, <2>4 DEF FileAt
  <2> QED BY <1>p, <2>1, <2>5 DEF FilePlace
<1>4. CASE WriteResolvConf(a)
  <2>1. bk[a] \in Backup
    BY <1>t, <1>4 DEF TypeInv, Loaded, WriteResolvConf
  <2>2. bk'[a].managed /\ backup' = backup
    BY <1>t, <1>4, <2>1 DEF WriteResolvConf, SysTypeOK, Backup
  <2>3. pc'[a] \in {"save2", "rconf"} /\ conf' \in {Ours, conf}
    BY <1>t, <1>4 DEF WriteResolvConf, SysTypeOK
  <2> QED BY <1>p, <2>2, <2>3 DEF FilePlace, FileAt
<1>5. CASE SaveFlags(a)
  <2>1. backup' = bk[a] /\ conf' = conf /\ Working(a)
    BY <1>5, <1>i DEF SaveFlags, BusyInv, Answerable, Unanswered
  <2>2. pc'[a] = "done" /\ (backup.managed => bk[a].managed)
    BY <1>5, <1>i, <1>t DEF SaveFlags, SysTypeOK, FileAt
  <2> QED BY <1>p, <2>1, <2>2 DEF FilePlace, Busy, Working
<1> QED BY <1>1, <1>2, <1>3, <1>4, <1>5 DEF EnableStep

LEMMA FileRestore ==
  ASSUME Answerable, "lease" \notin Faults, IInv, FileInv, IInv', NEW a \in Actors, RestoreStep(a)
  PROVE  FilePlace' /\ (Busy(a)' => FileAt(a)')
<1> USE DEF Goto, Fail, Applying, Restoring, disk
<1>b. Busy(a)
  BY DEF Busy, RestoreStep, LoadForDisable, RestoreConf, RestoreLink, RestoreNM,
         RestoreResolved, RemoveBackup
<1>i. BusyInv(a) /\ FileAt(a)
  BY <1>b, AtStep DEF FileInv
<1>t. SysTypeOK /\ SysTypeOK'
  BY DEF IInv
<1>o. \A c \in Actors : pc[c] = "rlink" => c = a
  BY <1>b DEF IInv, OneBusy, Busy
<1>p. backup # NoBackup /\ pc[a] # "rlink" =>
        conf \in {Ours, backup.file} \/ (conf = Missing /\ backup.managed)
  BY <1>o DEF FileInv, FilePlace
<1>1. CASE LoadForDisable(a)
  <2>1. UNCHANGED <<conf, backup>> /\ pc[a] # "rlink"
    BY <1>1 DEF LoadForDisable
  <2>2. CASE pc' = [pc EXCEPT ![a] = "done"]
    BY <1>p, <1>t, <2>1, <2>2 DEF FilePlace, Busy, SysTypeOK
  <2>3. CASE pc' = [pc EXCEPT ![a] = "rconf"] /\ bk' = [bk EXCEPT ![a] = backup]
    BY <1>p, <1>t, <2>1, <2>3 DEF FilePlace, FileAt, SysTypeOK
  <2> QED BY <1>1, <2>2, <2>3 DEF LoadForDisable
<1>2. CASE RestoreConf(a)
  <2>1. Working(a) /\ backup' = backup /\ bk' = bk /\ op' = op /\ pc[a] = "rconf"
    BY <1>2, <1>i DEF RestoreConf, BusyInv
  <2>2. backup.managed => bk[a].managed
    BY <1>i, <2>1 DEF FileAt
  <2>3. CASE ~bk[a].managed
    <3>1. conf' = conf /\ pc'[a] = "rnm"
      BY <1>2, <1>t, <2>3 DEF RestoreConf, SysTypeOK
    <3>2. conf = backup.file
      BY <1>p, <2>1, <2>2, <2>3 DEF Working, Covers
    <3> QED BY <2>1, <3>1, <3>2, <2>2 DEF FilePlace, FileAt
  <2>4. CASE bk[a].managed /\ conf' = Missing /\ pc' = [pc EXCEPT ![a] = "rlink"]
    <3>1. pc'[a] = "rlink"
      BY <1>t, <2>4 DEF SysTypeOK
    <3> QED BY <2>1, <2>4, <3>1 DEF FilePlace, FileAt
  <2>5. CASE bk[a].managed /\ conf' = bk[a].file /\ pc' = [pc EXCEPT ![a] = "rnm"]
    <3>1. pc'[a] = "rnm"
      BY <1>t, <2>5 DEF SysTypeOK
    <3> QED BY <2>1, <2>5, <3>1 DEF FilePlace, FileAt, Working
  <2>6. CASE /\ bk[a].managed /\ RestoreMayFail(a) /\ conf' = conf
             /\ pc' = [pc EXCEPT ![a] = "rnm"] /\ err' = [err EXCEPT ![a] = TRUE]
    <3>1. op[a] = "disable"
      BY <1>i, <2>1, <2>6, NoUndo DEF BusyInv
    <3>2. pc'[a] = "rnm" /\ err'[a]
      BY <1>t, <2>6 DEF SysTypeOK
    <3> QED BY <1>p, <2>1, <2>6, <3>1, <3>2 DEF FilePlace, FileAt
  <2> QED BY <1>2, <2>3, <2>4, <2>5, <2>6 DEF RestoreConf
<1>3. CASE RestoreLink(a)
  <2>1. Working(a) /\ backup' = backup /\ bk' = bk /\ op' = op /\ pc[a] = "rlink" /\ conf # Ours
    BY <1>3, <1>i DEF RestoreLink, BusyInv
  <2>2. bk[a].managed /\ pc'[a] = "rnm"
    BY <1>3, <1>i, <1>t, <2>1 DEF FileAt, RestoreLink, SysTypeOK
  <2>3. CASE conf' = bk[a].file
    BY <2>1, <2>2, <2>3 DEF FilePlace, FileAt, Working
  <2>4. CASE /\ conf # Missing \/ RestoreMayFail(a)
             /\ conf' = conf /\ err' = [err EXCEPT ![a] = TRUE]
    <3>1. CASE op[a] = "disable"
      <4>1. bk[a] = backup /\ err'[a]
        BY <1>i, <1>t, <2>1, <2>4, <3>1 DEF BusyInv, SysTypeOK
      <4>2. conf \in {Ours, backup.file} \/ conf = Missing
        BY <2>1 DEF FileInv, FilePlace, Working
      <4> QED BY <2>1, <2>2, <2>4, <3>1, <4>1, <4>2 DEF FilePlace, FileAt
    <3>2. CASE op[a] = "enable"
      <4>1. conf # Missing
        BY <2>4, <3>2, NoUndo
      <4>2. conf = backup.file
        BY <2>1, <4>1 DEF FileInv, FilePlace, Working
      <4> QED BY <2>1, <2>2, <2>4, <4>2 DEF FilePlace, FileAt
    <3> QED BY <1>i, <2>1, <3>1, <3>2 DEF BusyInv
  <2> QED BY <1>3, <2>3, <2>4 DEF RestoreLink
<1>4. CASE RestoreNM(a)
  BY <1>4, <1>i, <1>p, <1>t DEF RestoreNM, FilePlace, FileAt, SysTypeOK
<1>5. CASE RestoreResolved(a)
  <2>1. UNCHANGED <<conf, backup, bk, op, err>> /\ pc[a] = "rresolved"
    BY <1>5 DEF RestoreResolved
  <2>2. CASE op[a] = "disable" /\ err[a]
    <3>1. pc'[a] = "done"
      BY <1>5, <1>t, <2>2 DEF RestoreResolved, SysTypeOK
    <3> QED BY <1>p, <2>1, <3>1 DEF FilePlace, Busy
  <2>3. CASE ~(op[a] = "disable" /\ err[a])
    <3>1. pc'[a] = "rremove"
      BY <1>5, <1>t, <2>3 DEF RestoreResolved, SysTypeOK
    <3>2. conf = backup.file /\ (backup.managed => bk[a].managed)
      BY <1>i, <2>1, <2>3 DEF FileAt
    <3> QED BY <2>1, <3>1, <3>2 DEF FilePlace, FileAt
  <2> QED BY <2>2, <2>3
<1>6. CASE RemoveBackup(a)
  BY <1>6, <1>t DEF RemoveBackup, FilePlace, Busy, SysTypeOK
<1> QED BY <1>1, <1>2, <1>3, <1>4, <1>5, <1>6 DEF RestoreStep

LEMMA FileStep ==
  ASSUME Answerable, "lease" \notin Faults, IInv, IInv', FileInv, [SysNext]_sysVars
  PROVE  FileInv'
<1>t. SysTypeOK /\ SysTypeOK'
  BY DEF IInv
<1>1. ASSUME NEW a \in Actors, Step(a) PROVE FileInv'
  <2>1. PICK label \in Labels \ {"idle", "held"} : pc' = [pc EXCEPT ![a] = label]
    BY <1>1, <1>t, StepMoves
  <2>2. Busy(a)
    BY <1>1, <1>t, StepMoves
  <2>3. CASE SyncStep(a)
    <3>1. pc[a] # "rlink" /\ backup' = backup /\ conf' \in {Ours, conf}
      BY <2>3 DEF SyncStep, LoadForSync, CheckSetting, RewriteConf, disk
    <3>2. pc'[a] \in {"done", "check", "rewrite"}
      BY <1>t, <2>3 DEF SyncStep, LoadForSync, CheckSetting, RewriteConf, Goto, Fail, SysTypeOK
    <3>3. \A c \in Actors : pc[c] # "rlink"
      BY <2>2, <3>1 DEF IInv, OneBusy, Busy
    <3>4. FilePlace'
      BY <3>1, <3>3 DEF FileInv, FilePlace
    <3>5. FileAt(a)'
      BY <3>2 DEF FileAt, Applying, Restoring
    <3> QED BY <2>1, <2>2, <3>4, <3>5, FileByStep
  <2> QED BY <1>1, <2>1, <2>2, <2>3, FileEnable, FileRestore, FileByStep DEF Step
<1>2. ASSUME NEW gone \in SUBSET Actors, Kill(gone) PROVE FileInv'
  <2>1. UNCHANGED <<conf, backup>>
    BY <1>2 DEF Kill, disk
  <2>2. \A c \in Actors : /\ c \in gone => pc'[c] = "idle"
                          /\ c \notin gone => /\ pc'[c] = pc[c] /\ op'[c] = op[c]
                                              /\ bk'[c] = bk[c] /\ err'[c] = err[c]
    BY <1>2 DEF Kill
  <2>3. ASSUME NEW c \in Actors, Busy(c)' PROVE FileAt(c)'
    BY <2>1, <2>2, <2>3 DEF FileInv, FileAt, Busy
  <2>4. ASSUME NEW c \in gone, pc[c] = "rlink", bk[c].managed PROVE backup.managed
    <3>1. Busy(c) /\ ~Unrecorded(c)
      BY <1>2, <2>4 DEF Kill, Answerable, Unanswered, Busy
    <3>2. BusyInv(c)
      BY <3>1, AtStep
    <3>3. bk[c] = backup
      BY <2>4, <3>1, <3>2 DEF BusyInv, Unrecorded, Restoring
    <3> QED BY <2>4, <3>3
  <2>5. FilePlace'
    BY <2>1, <2>2, <2>4 DEF FileInv, FilePlace
  <2> QED BY <2>3, <2>5 DEF FileInv
<1>3. ASSUME NEW a \in Actors, Lock(a) PROVE FileInv'
  BY <1>t, <1>3
  DEF Lock, Goto, SysTypeOK, disk, FileInv, FilePlace, FileAt, Busy, Applying, Restoring
<1>4. ASSUME NEW a \in Actors, Return(a) PROVE FileInv'
  <2>1. UNCHANGED <<conf, backup>> /\ pc[a] \in {"held", "done"}
    BY <1>4 DEF Return, disk
  <2>2. pc'[a] = "idle"
    BY <1>t, <1>4 DEF Return, Goto, SysTypeOK
  <2>3. \A c \in Actors \ {a} : /\ pc'[c] = pc[c] /\ op'[c] = op[c]
                                /\ bk'[c] = bk[c] /\ err'[c] = err[c]
    BY <1>t, <1>4 DEF Return, Goto, SysTypeOK
  <2>4. FilePlace'
    BY <2>1, <2>3 DEF FileInv, FilePlace
  <2>5. ASSUME NEW c \in Actors, Busy(c)' PROVE FileAt(c)'
    BY <2>1, <2>2, <2>3, <2>5 DEF FileInv, FileAt, Busy
  <2> QED BY <2>4, <2>5 DEF FileInv
<1>5. ASSUME NEW a \in Actors, NEW procedure \in Ops, Call(a, procedure) PROVE FileInv'
  <2>1. UNCHANGED <<conf, backup, bk, err>> /\ pc[a] \in {"held", "idle"}
    BY <1>5 DEF Call, disk
  <2>2. pc'[a] = "load"
    BY <1>t, <1>5 DEF Call, Goto, SysTypeOK
  <2>3. \A c \in Actors \ {a} : pc'[c] = pc[c] /\ op'[c] = op[c]
    BY <1>t, <1>5 DEF Call, Goto, SysTypeOK
  <2>4. FilePlace'
    BY <2>1, <2>3 DEF FileInv, FilePlace
  <2>5. FileAt(a)'
    BY <2>2 DEF FileAt, Applying, Restoring
  <2>6. ASSUME NEW c \in Actors \ {a}, Busy(c)' PROVE FileAt(c)'
    BY <2>1, <2>3, <2>6 DEF FileInv, FileAt, Busy
  <2> QED BY <2>4, <2>5, <2>6 DEF FileInv
<1>6. ASSUME NEW file \in UserFiles, Lease(file) PROVE FileInv'
  BY <1>6 DEF Lease
<1>7. CASE UNCHANGED sysVars
  <2>1. UNCHANGED <<conf, backup, op, pc, bk, err>>
    BY <1>7 DEF sysVars
  <2>2. \A c \in Actors : (Busy(c)' <=> Busy(c)) /\ (FileAt(c)' <=> FileAt(c))
    BY <2>1 DEF Busy, FileAt
  <2> QED BY <2>1, <2>2 DEF FileInv, FilePlace
<1> QED BY <1>1, <1>2, <1>3, <1>4, <1>5, <1>6, <1>7 DEF SysNext, Actors

\* The last step of a restoration.
LEMMA DropStep ==
  ASSUME IInv, "lease" \notin Faults => FileInv, [SysNext]_sysVars,
         backup # NoBackup, backup' = NoBackup
  PROVE  /\ ~dropIn /\ ~nmDropIn
         /\ conf \in UserConf
         /\ "lease" \notin Faults => conf = backup.file
<1>1. PICK a \in Actors : Step(a)
  BY DEF SysNext, Lock, Return, Call, Lease, Kill, disk, sysVars
<1>2. RemoveBackup(a)
  <2>1. ASSUME pc[a] \in {"save", "save2"} PROVE bk[a] # NoBackup
    BY <2>1, IInvLoaded, NoBackupAssumption DEF TypeInv, Loaded
  <2> QED BY <1>1, <2>1
      DEF Step, EnableStep, LoadForEnable, SaveBackup, WriteDropIn, RestartResolved,
          WriteNMDropIn, WriteResolvConf, SaveFlags, RestoreStep, LoadForDisable, RestoreConf,
          RestoreLink, RestoreNM, RestoreResolved, SyncStep, LoadForSync, CheckSetting,
          RewriteConf, disk
<1>3. pc[a] = "rremove" /\ Busy(a)
  BY <1>2 DEF RemoveBackup, Busy
<1>4. Clean
  BY <1>3, AtStep DEF BusyInv
<1>5. "lease" \notin Faults => conf = backup.file
  BY <1>3 DEF FileInv, FileAt
<1> QED BY <1>4, <1>5 DEF Clean, IInv, SysTypeOK, Confs

\* The backup is deleted only over a machine that is back to what it was; if
\* nobody but Ceky writes resolv.conf, with the very file that was saved.
THEOREM DroppedWhenRestored ==
  ASSUME Answerable
  PROVE  SysSpec => DropOnlyRestored
<1>1. SysInit => ("lease" \notin Faults => FileInv)
  BY DEF SysInit, FileInv, FilePlace, Busy
<1>2. IInv /\ IInv' /\ ("lease" \notin Faults => FileInv) /\ [SysNext]_sysVars
        => ("lease" \notin Faults => FileInv)'
  BY FileStep
<1>3. IInv /\ ("lease" \notin Faults => FileInv) /\ [SysNext]_sysVars
        => [backup # NoBackup /\ backup' = NoBackup =>
              /\ ~dropIn /\ ~nmDropIn
              /\ conf \in UserConf
              /\ "lease" \notin Faults => conf = backup.file]_sysVars
  BY DropStep
<1> QED BY <1>1, <1>2, <1>3, Safe, PTL DEF SysSpec, DropOnlyRestored

=============================================================================
