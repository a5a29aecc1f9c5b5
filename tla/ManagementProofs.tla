-------------------------- MODULE ManagementProofs --------------------------
(***************************************************************************)
(* What the parts that keep a tunnel running on a machine hold to, for any *)
(* set of configurations and files, any retention, and any number of       *)
(* edits, faults, tools, deaths, processes and reloads: an edit that is    *)
(* over can be undone, an installation is whole after every step and its   *)
(* configuration is never lost, and the traffic totals go on.              *)
(***************************************************************************)
EXTENDS MCManagement, TLAPS

USE EKeepAssumption, IKeepAssumption

(* What the histories, snapshots and backups do: a new entry in front, the  *)
(* oldest beyond the limit gone.                                            *)
LEMMA Prepended ==
  ASSUME NEW S, NEW s \in Seq(S), NEW x \in S, NEW n \in 1 .. Len(s) + 1,
         NEW t, t = SubSeq(<<x>> \o s, 1, n)
  PROVE  t \in Seq(S) /\ Len(t) = n /\ t # <<>> /\ Head(t) = x
<1> DEFINE u == <<x>> \o s
<1>1. u \in Seq(S) /\ Len(u) = Len(s) + 1 /\ u[1] = x
  OBVIOUS
<1>2. t \in Seq(S) /\ Len(t) = n /\ t[1] = u[1]
  BY <1>1
<1>3. \A v \in Seq(S) : Len(v) \in 1 .. Len(s) + 1 => v # <<>> /\ Head(v) = v[1]
  OBVIOUS
<1>4. t # <<>> /\ Head(t) = t[1]
  BY <1>2, <1>3, Zenon
<1> QED
  BY <1>1, <1>2, <1>4, Zenon

LEMMA Shortened ==
  ASSUME NEW S, NEW s \in Seq(S), NEW n \in 0 .. Len(s),
         NEW t, t = SubSeq(s, 1, n)
  PROVE  t \in Seq(S) /\ Len(t) = n /\ \A i \in 1 .. n : t[i] = s[i]
OBVIOUS

-----------------------------------------------------------------------------
(* Engine.  While an edit is under way its outcome is open, and from one    *)
(* step to the next the file is the new one or the one before: nothing but  *)
(* the editor writes it until the edit is over.                             *)

EditOK ==
  /\ eEd # "idle" => eOutcome = "none"
  /\ eEd \in {"written", "saved", "waiting"} => eFile = eNew
  /\ eEd = "reverted" => eFile = eOld

EngineInv == EngineTypeOK /\ EditOK /\ EditIsUndoable

EEds == {"idle", "truncated", "written", "saved", "putBack", "waiting", "reverting", "reverted", "spoilt"}
EOutcomes == {"none", "applied", "refused", "spoilt"}

(* What the process, the watchdog and the service manager change is theirs: *)
(* the file and the edit stay.                                              *)
LEMMA EditUntouched ==
  ASSUME EngineInv, eFile' = eFile, UNCHANGED editVars,
         eChanged' \in BOOLEAN, eProc' \in EProcs, eCfg' \in EFiles, eNext' \in EFiles,
         eUp' \in BOOLEAN, eHung' \in BOOLEAN, eSaid' \in BOOLEAN,
         eFails' \in 0 .. wdThreshold, eSeen' \in BOOLEAN, eCool' \in BOOLEAN, eSight' = eSight
  PROVE  EngineInv'
<1>1. EngineTypeOK'
  <2>1. /\ eFile' \in EFiles /\ eOld' \in EFiles /\ eNew' \in EFiles
        /\ eHist' \in Seq(EFiles) /\ Len(eHist') <= EKeep
    BY DEF EngineInv, EngineTypeOK, editVars
  <2>2. eEd' = eEd /\ eWas' = eWas /\ eOutcome' = eOutcome
    BY DEF editVars
  <2> QED
    BY <2>1, <2>2, Zenon DEF EngineInv, EngineTypeOK
<1>2. EditOK' /\ EditIsUndoable'
  BY DEF EngineInv, EditOK, EditIsUndoable, editVars
<1> QED
  BY <1>1, <1>2 DEF EngineInv

(* An edit's step: the process is untouched or restarted.                   *)
LEMMA ProcessKept ==
  ASSUME EngineInv, NEW st \in EProcs, UNCHANGED procVars \/ Becomes(st)
  PROVE  /\ eProc' \in EProcs /\ eCfg' \in EFiles /\ eNext' \in EFiles
         /\ eUp' \in BOOLEAN /\ eHung' \in BOOLEAN /\ eSaid' \in BOOLEAN
<1>1. eProc' \in EProcs /\ eCfg' \in EFiles /\ eNext' \in EFiles
  BY DEF EngineInv, EngineTypeOK, procVars, Becomes
<1>2. eUp' \in BOOLEAN /\ eHung' \in BOOLEAN /\ eSaid' \in BOOLEAN
  BY Zenon DEF EngineInv, EngineTypeOK, procVars, Becomes
<1> QED
  BY <1>1, <1>2

LEMMA ProcessKeeps == ASSUME EngineInv, process PROVE EngineInv'
<1> USE DEF EngineInv, EngineTypeOK
<1>1. eFile' = eFile /\ UNCHANGED editVars /\ UNCHANGED watchVars
  BY DEF process, Respawn, Run, runEngine, Fatal, FirstFingerprint, Poll, Reload, waitForPorts, fileVars
<1>2. eChanged' \in BOOLEAN
  BY Zenon DEF process, Respawn, Run, runEngine, Fatal, FirstFingerprint, Poll, Reload, waitForPorts, fileVars
<1>3. eProc' \in EProcs
  BY DEF process, Respawn, Run, runEngine, Fatal, FirstFingerprint, Poll, Reload, waitForPorts, Becomes, EProcs
<1>4. eCfg' \in EFiles /\ eNext' \in EFiles
  BY DEF process, Respawn, Run, runEngine, Fatal, FirstFingerprint, Poll, Reload, waitForPorts, Becomes
<1>5. eUp' \in BOOLEAN /\ eHung' \in BOOLEAN
  BY Zenon DEF process, Respawn, Run, runEngine, Fatal, FirstFingerprint, Poll, Reload, waitForPorts, Becomes
<1>6. eSaid' \in BOOLEAN
  BY Zenon DEF process, Respawn, Run, runEngine, Fatal, FirstFingerprint, Poll, Reload, waitForPorts, Becomes
<1>7. eFails' \in 0 .. wdThreshold
  BY <1>1 DEF watchVars
<1>8. eSeen' \in BOOLEAN /\ eCool' \in BOOLEAN
  BY <1>1, Zenon DEF watchVars
<1> HIDE DEF EngineInv, EngineTypeOK
<1> QED
  BY <1>1, <1>2, <1>3, <1>4, <1>5, <1>6, <1>7, <1>8, EditUntouched DEF watchVars

LEMMA HangsKeeps == ASSUME EngineInv, Hangs PROVE EngineInv'
<1>1. /\ eFile' = eFile /\ UNCHANGED editVars /\ UNCHANGED watchVars
      /\ eProc' = eProc /\ eCfg' = eCfg /\ eNext' = eNext /\ eSaid' = eSaid /\ eChanged' = eChanged
  BY DEF Hangs, fileVars
<1>2. eUp' \in BOOLEAN /\ eHung' \in BOOLEAN
  BY Zenon DEF Hangs
<1>3. /\ eChanged' \in BOOLEAN /\ eSaid' \in BOOLEAN /\ eSeen' \in BOOLEAN /\ eCool' \in BOOLEAN
      /\ eProc' \in EProcs /\ eCfg' \in EFiles /\ eNext' \in EFiles /\ eFails' \in 0 .. wdThreshold
  BY <1>1, Zenon DEF EngineInv, EngineTypeOK, watchVars
<1> QED
  BY <1>1, <1>2, <1>3, EditUntouched DEF watchVars

LEMMA MetricsKeeps == ASSUME EngineInv, WritesMetrics PROVE EngineInv'
<1>1. /\ eFile' = eFile /\ UNCHANGED editVars /\ UNCHANGED watchVars
      /\ eProc' = eProc /\ eCfg' = eCfg /\ eNext' = eNext /\ eChanged' = eChanged
      /\ eUp' = eUp /\ eHung' = eHung /\ eSaid' = eUp
  BY DEF WritesMetrics, fileVars
<1>2. /\ eChanged' \in BOOLEAN /\ eSaid' \in BOOLEAN /\ eSeen' \in BOOLEAN /\ eCool' \in BOOLEAN
      /\ eUp' \in BOOLEAN /\ eHung' \in BOOLEAN
      /\ eProc' \in EProcs /\ eCfg' \in EFiles /\ eNext' \in EFiles /\ eFails' \in 0 .. wdThreshold
  BY <1>1, Zenon DEF EngineInv, EngineTypeOK, watchVars
<1> QED
  BY <1>1, <1>2, EditUntouched DEF watchVars

LEMMA StopKeeps == ASSUME EngineInv, StopService PROVE EngineInv'
<1>1. /\ eFile' = eFile /\ UNCHANGED editVars /\ UNCHANGED watchVars /\ Becomes("off") /\ eChanged' = eChanged
  BY DEF StopService, fileVars
<1>2. "off" \in EProcs
  BY DEF EProcs
<1>3. /\ eChanged' \in BOOLEAN /\ eSeen' \in BOOLEAN /\ eCool' \in BOOLEAN /\ eFails' \in 0 .. wdThreshold
  BY <1>1, Zenon DEF EngineInv, EngineTypeOK, watchVars
<1> QED
  BY <1>1, <1>2, <1>3, ProcessKept, EditUntouched DEF watchVars

LEMMA WatchdogKeeps == ASSUME EngineInv, RunWatchdog \/ CooldownOver PROVE EngineInv'
<1>1. eFile' = eFile /\ UNCHANGED editVars /\ eChanged' = eChanged /\ (UNCHANGED procVars \/ Becomes("boot"))
      /\ eSight' = eSight
  BY DEF RunWatchdog, CooldownOver, Look, RestartService, fileVars
<1>2. "boot" \in EProcs
  BY DEF EProcs
<1>3. eFails' \in 0 .. wdThreshold
  <2>1. \A b \in BOOLEAN : Look(b) => eFails' \in {0, eFails, eFails + 1} /\ (eFails' = eFails + 1 => eFails < wdThreshold)
    BY DEF Look, EngineInv, EngineTypeOK, wdThreshold
  <2>2. CASE RunWatchdog
    <3>1. eSaid \in BOOLEAN /\ eUp \in BOOLEAN
      BY Zenon DEF EngineInv, EngineTypeOK
    <3>2. \E b \in BOOLEAN : Look(b)
      BY <2>2, <3>1, Zenon DEF RunWatchdog
    <3> QED
      BY <2>1, <3>2 DEF EngineInv, EngineTypeOK, wdThreshold
  <2>3. CASE CooldownOver
    BY <2>3 DEF CooldownOver, EngineInv, EngineTypeOK
  <2> QED
    BY <2>2, <2>3
<1>4. eSeen' \in BOOLEAN /\ eCool' \in BOOLEAN
  BY Zenon DEF EngineInv, EngineTypeOK, RunWatchdog, CooldownOver, Look
<1>5. eChanged' \in BOOLEAN
  BY <1>1, Zenon DEF EngineInv, EngineTypeOK
<1> QED
  BY <1>1, <1>2, <1>3, <1>4, <1>5, ProcessKept, EditUntouched

(* The editor's steps and edits by hand: what is left to show of each is    *)
(* where the file, the edit and the history are afterwards.                 *)
LEMMA EditTyped ==
  ASSUME EngineInv, NEW st \in EProcs, UNCHANGED procVars \/ Becomes(st), UNCHANGED watchVars,
         eFile' \in EFiles, eChanged' \in BOOLEAN, eEd' \in EEds, eOld' \in EFiles, eNew' \in EFiles,
         eWas' \in BOOLEAN, eHist' \in Seq(EFiles), Len(eHist') <= EKeep,
         eOutcome' \in EOutcomes
  PROVE  EngineTypeOK'
<1>1. eFails' \in 0 .. wdThreshold /\ eSeen' \in BOOLEAN /\ eCool' \in BOOLEAN /\ eSight' \in {"engine", "sockets"}
  BY Zenon DEF EngineInv, EngineTypeOK, watchVars
<1> QED
  BY <1>1, ProcessKept, Zenon DEF EngineTypeOK, EEds, EOutcomes

LEMMA WriteType ==
  ASSUME NEW content \in EFiles, Write(content)
  PROVE  eFile' = content /\ eFile' \in EFiles /\ eChanged' \in BOOLEAN
<1>1. eChanged' \in BOOLEAN
  BY Zenon DEF Write
<1> QED
  BY <1>1 DEF Write

LEMMA HandEditKeeps ==
  ASSUME EngineInv, NEW content \in EConfigs \cup {"torn"}, HandEdit(content) PROVE EngineInv'
<1>1. content \in EFiles /\ "boot" \in EProcs
  BY DEF EFiles, EProcs
<1>2. eFile' = content /\ eChanged' \in BOOLEAN
  BY <1>1, WriteType DEF HandEdit
<1>3. eEd = "idle" /\ eEd' = eEd /\ eHist' = eHist /\ eOutcome' = "none" /\ eOld' = content /\ eNew' = content
  BY DEF HandEdit
<1>4. eWas' \in BOOLEAN
  BY Zenon DEF HandEdit
<1>5. eHist' \in Seq(EFiles) /\ Len(eHist') <= EKeep /\ eEd' \in EEds
  BY <1>3 DEF EngineInv, EngineTypeOK, EEds
<1>6. UNCHANGED procVars /\ UNCHANGED watchVars /\ eOutcome' \in EOutcomes
  BY <1>3 DEF HandEdit, EOutcomes
<1>7. EngineTypeOK'
  BY <1>1, <1>2, <1>3, <1>4, <1>5, <1>6, EditTyped
<1>8. EditOK' /\ EditIsUndoable'
  BY <1>3 DEF EditOK, EditIsUndoable
<1> QED
  BY <1>7, <1>8 DEF EngineInv

LEMMA BeginKeeps == ASSUME EngineInv, NEW content \in EFiles, Begin(content) PROVE EngineInv'
<1>1. "empty" \in EFiles /\ "boot" \in EProcs
  BY DEF EFiles, EProcs
<1>2. eFile' = "empty" /\ eChanged' \in BOOLEAN
  BY <1>1, WriteType DEF Begin
<1>3. eEd' = "truncated" /\ eHist' = eHist /\ eOutcome' = "none" /\ eOld' = eFile /\ eNew' = content
  BY DEF Begin
<1>4. eWas' \in BOOLEAN
  BY Zenon DEF Begin, IsActive
<1>5. eHist' \in Seq(EFiles) /\ Len(eHist') <= EKeep /\ eEd' \in EEds /\ eOld' \in EFiles
  BY <1>3 DEF EngineInv, EngineTypeOK, EEds
<1>6. UNCHANGED procVars /\ UNCHANGED watchVars /\ eOutcome' \in EOutcomes
  BY <1>3 DEF Begin, EOutcomes
<1>7. EngineTypeOK'
  BY <1>1, <1>2, <1>3, <1>4, <1>5, <1>6, EditTyped
<1>8. EditOK' /\ EditIsUndoable'
  BY <1>3 DEF EditOK, EditIsUndoable
<1> QED
  BY <1>7, <1>8 DEF EngineInv

(* recordConfigChange: the file before the edit is newest.                  *)
LEMMA RecordKeeps ==
  ASSUME EngineInv
  PROVE  /\ recordConfigChange \in Seq(EFiles) /\ Len(recordConfigChange) <= EKeep
         /\ eOld # "empty" => recordConfigChange # <<>> /\ Head(recordConfigChange) = eOld
<1> DEFINE n == IF Len(eHist) < EKeep THEN Len(eHist) + 1 ELSE EKeep
<1>1. /\ eHist \in Seq(EFiles) /\ Len(eHist) \in Nat /\ Len(eHist) <= EKeep /\ eOld \in EFiles
  BY DEF EngineInv, EngineTypeOK
<1>2. n \in 1 .. Len(eHist) + 1 /\ n <= EKeep
  BY <1>1
<1> HIDE DEF n
<1> DEFINE t == SubSeq(<<eOld>> \o eHist, 1, n)
<1>3. recordConfigChange = IF eOld = "empty" THEN eHist ELSE t
  BY DEF recordConfigChange, n
<1>0. t = SubSeq(<<eOld>> \o eHist, 1, n)
  OBVIOUS
<1> HIDE DEF t
<1>4. t \in Seq(EFiles) /\ Len(t) = n /\ t # <<>> /\ Head(t) = eOld
  BY <1>0, <1>1, <1>2, Prepended
<1>5. CASE eOld = "empty"
  BY <1>1, <1>3, <1>5
<1>6. CASE eOld # "empty"
  BY <1>2, <1>3, <1>4, <1>6
<1> QED
  BY <1>5, <1>6

(* One step of an edit under way: what it may do to the file and the edit.  *)
LEMMA EditStepKeeps ==
  ASSUME EngineInv, NEW st \in EProcs, UNCHANGED procVars \/ Becomes(st), UNCHANGED watchVars,
         UNCHANGED <<eOld, eNew, eWas>>,
         (UNCHANGED <<eFile, eChanged>>) \/ (\E content \in {"empty", "torn", eOld, eNew} : Write(content)),
         eEd' \in EEds, eOutcome' \in EOutcomes,
         eHist' = eHist \/ eHist' = recordConfigChange,
         EditOK', EditIsUndoable'
  PROVE  EngineInv'
<1>1. eOld \in EFiles /\ eNew \in EFiles /\ {"empty", "torn"} \subseteq EFiles
  BY DEF EngineInv, EngineTypeOK, EFiles
<1>2. eFile' \in EFiles /\ eChanged' \in BOOLEAN
  <2>1. CASE UNCHANGED <<eFile, eChanged>>
    BY <2>1, Zenon DEF EngineInv, EngineTypeOK
  <2>2. CASE \E content \in {"empty", "torn", eOld, eNew} : Write(content)
    BY <1>1, <2>2, WriteType
  <2> QED
    BY <2>1, <2>2
<1>3. eHist' \in Seq(EFiles) /\ Len(eHist') <= EKeep
  BY RecordKeeps DEF EngineInv, EngineTypeOK
<1>4. eOld' \in EFiles /\ eNew' \in EFiles
  BY <1>1
<1>5. eWas' \in BOOLEAN
  BY Zenon DEF EngineInv, EngineTypeOK
<1>6. EngineTypeOK'
  BY <1>2, <1>3, <1>4, <1>5, EditTyped
<1> QED
  BY <1>6 DEF EngineInv

LEMMA EditorKeeps == ASSUME EngineInv, editor PROVE EngineInv'
<1> USE DEF fileVars
<1>1. {"boot", "off"} \subseteq EProcs /\ EConfigs \subseteq EFiles
  BY DEF EProcs, EFiles
<1>2. ASSUME NEW content \in EConfigs, applySpec(content) PROVE EngineInv'
  BY <1>1, <1>2, BeginKeeps DEF applySpec
<1>3. CASE applyRawConfig
  <2>1. PICK i \in DOMAIN eHist : Begin(eHist[i])
    BY <1>3 DEF applyRawConfig
  <2>2. eHist[i] \in EFiles
    BY DEF EngineInv, EngineTypeOK
  <2> QED
    BY <2>1, <2>2, BeginKeeps
<1>4. CASE Written
  <2>1. EditOK' /\ EditIsUndoable'
    BY <1>4 DEF Written, Write, EngineInv, EditOK, EditIsUndoable
  <2>2. UNCHANGED procVars /\ UNCHANGED watchVars /\ UNCHANGED <<eOld, eNew, eWas, eHist, eOutcome>> /\ Write(eNew)
    BY <1>4 DEF Written
  <2>3. eEd' \in EEds /\ eOutcome' \in EOutcomes
    BY <1>4, <2>2 DEF Written, EEds, EOutcomes, EngineInv, EngineTypeOK
  <2> QED
    BY <1>1, <2>1, <2>2, <2>3, EditStepKeeps
<1>5. CASE Save \/ SaveFails
  <2>1. EditOK' /\ EditIsUndoable'
    BY <1>5 DEF Save, SaveFails, Write, EngineInv, EditOK, EditIsUndoable
  <2>2. (UNCHANGED procVars \/ Becomes("boot")) /\ UNCHANGED watchVars /\ UNCHANGED <<eOld, eNew, eWas, eHist, eOutcome>>
        /\ ((UNCHANGED <<eFile, eChanged>>) \/ Write("empty"))
    BY <1>5 DEF Save, SaveFails
  <2>3. eEd' \in EEds /\ eOutcome' \in EOutcomes
    BY <1>5, <2>2 DEF Save, SaveFails, EEds, EOutcomes, EngineInv, EngineTypeOK
  <2> QED
    BY <1>1, <2>1, <2>2, <2>3, EditStepKeeps
<1>6. CASE PutBack
  <2>1. EditOK' /\ EditIsUndoable'
    BY <1>6 DEF PutBack, WriteOld, Write, EngineInv, EditOK, EditIsUndoable
  <2>2. UNCHANGED procVars /\ UNCHANGED watchVars /\ UNCHANGED <<eOld, eNew, eWas, eHist>>
        /\ \E content \in {"empty", "torn", eOld, eNew} : Write(content)
    BY <1>6 DEF PutBack, WriteOld
  <2>3. eEd' \in EEds /\ eOutcome' \in EOutcomes
    BY <1>6 DEF PutBack, EEds, EOutcomes
  <2> QED
    BY <1>1, <2>1, <2>2, <2>3, EditStepKeeps
<1>7. CASE EditRestarts
  <2>1. EditOK' /\ EditIsUndoable'
    BY <1>7 DEF EditRestarts, Write, EngineInv, EditOK, EditIsUndoable
  <2>2. (UNCHANGED procVars \/ Becomes("boot")) /\ UNCHANGED watchVars /\ UNCHANGED <<eOld, eNew, eWas, eHist, eOutcome>>
        /\ ((UNCHANGED <<eFile, eChanged>>) \/ Write("empty"))
    BY <1>7 DEF EditRestarts, RestartService
  <2>3. eEd' \in EEds /\ eOutcome' \in EOutcomes
    BY <1>7, <2>2 DEF EditRestarts, EEds, EOutcomes, EngineInv, EngineTypeOK
  <2> QED
    BY <1>1, <2>1, <2>2, <2>3, EditStepKeeps
<1>8. CASE Confirm
  <2>1. EditOK' /\ EditIsUndoable'
    BY <1>8, RecordKeeps DEF Confirm, EngineInv, EditOK, EditIsUndoable
  <2>2. UNCHANGED procVars /\ UNCHANGED watchVars /\ UNCHANGED <<eOld, eNew, eWas>> /\ UNCHANGED <<eFile, eChanged>>
        /\ eHist' = recordConfigChange
    BY <1>8 DEF Confirm
  <2>3. eEd' \in EEds /\ eOutcome' \in EOutcomes
    BY <1>8 DEF Confirm, EEds, EOutcomes
  <2> QED
    BY <1>1, <2>1, <2>2, <2>3, EditStepKeeps
<1>9. CASE TimesOut \/ Revert
  <2>1. EditOK' /\ EditIsUndoable'
    BY <1>9 DEF TimesOut, Revert, WriteOld, Write, EngineInv, EditOK, EditIsUndoable
  <2>2. UNCHANGED procVars /\ UNCHANGED watchVars /\ UNCHANGED <<eOld, eNew, eWas, eHist, eOutcome>>
        /\ \E content \in {"empty", "torn", eOld, eNew} : Write(content)
    BY <1>9 DEF TimesOut, Revert, WriteOld
  <2>3. eEd' \in EEds /\ eOutcome' \in EOutcomes
    BY <1>9, <2>2 DEF TimesOut, Revert, EEds, EOutcomes, EngineInv, EngineTypeOK
  <2> QED
    BY <1>1, <2>1, <2>2, <2>3, EditStepKeeps
<1>10. CASE RevertRestarts
  <2>1. EditOK' /\ EditIsUndoable'
    BY <1>10 DEF RevertRestarts, EngineInv, EditOK, EditIsUndoable
  <2>2. (Becomes("off") \/ Becomes("boot")) /\ UNCHANGED watchVars /\ UNCHANGED <<eOld, eNew, eWas, eHist>>
        /\ UNCHANGED <<eFile, eChanged>>
    BY <1>10 DEF RevertRestarts, RestartService
  <2>3. eEd' \in EEds /\ eOutcome' \in EOutcomes
    BY <1>10 DEF RevertRestarts, EEds, EOutcomes
  <2> QED
    BY <1>1, <2>1, <2>2, <2>3, EditStepKeeps
<1> QED
  BY <1>2, <1>3, <1>4, <1>5, <1>6, <1>7, <1>8, <1>9, <1>10 DEF editor

LEMMA EngineStart == EngineInit => EngineInv
<1> SUFFICES ASSUME EngineInit PROVE EngineInv
  OBVIOUS
<1>1. eFile \in EFiles /\ eHist = <<>> /\ eOutcome = "none" /\ eFails = 0 /\ eProc = "boot" /\ eEd = "idle"
      /\ eCfg = eFile /\ eNext = eFile /\ eOld = eFile /\ eNew = eFile
  BY DEF EngineInit, EFiles, EConfigs
<1>2. eChanged \in BOOLEAN /\ eUp \in BOOLEAN /\ eHung \in BOOLEAN /\ eSaid \in BOOLEAN /\ eWas \in BOOLEAN
      /\ eSeen \in BOOLEAN /\ eCool \in BOOLEAN
  BY Zenon DEF EngineInit
<1>3. eHist \in Seq(EFiles) /\ Len(eHist) <= EKeep /\ eFails \in 0 .. wdThreshold /\ eProc \in EProcs
  BY <1>1 DEF wdThreshold, EProcs
<1>5. eSight \in {"engine", "sockets"} /\ eOutcome \in EOutcomes
  BY DEF EngineInit, EOutcomes
<1>4. EngineTypeOK
  BY <1>1, <1>2, <1>3, <1>5, Zenon DEF EngineTypeOK, EOutcomes
<1> QED
  BY <1>1, <1>4 DEF EngineInv, EditOK, EditIsUndoable

LEMMA EngineStep == EngineInv /\ [EngineNext]_engineVars => EngineInv'
<1> SUFFICES ASSUME EngineInv, [EngineNext]_engineVars PROVE EngineInv'
  OBVIOUS
<1>1. CASE UNCHANGED engineVars
  <2>3. UNCHANGED fileVars /\ UNCHANGED procVars /\ UNCHANGED editVars /\ UNCHANGED watchVars
    BY <1>1 DEF engineVars
  <2>1. EngineTypeOK'
    BY <2>3, ZenonT(60) DEF EngineInv, EngineTypeOK, fileVars, procVars, editVars, watchVars
  <2>2. EditOK' /\ EditIsUndoable'
    BY <1>1 DEF EngineInv, EditOK, EditIsUndoable, engineVars, fileVars, editVars
  <2> QED
    BY <2>1, <2>2 DEF EngineInv
<1> QED
  BY <1>1, ProcessKeeps, HangsKeeps, MetricsKeeps, StopKeeps, HandEditKeeps, EditorKeeps, WatchdogKeeps
     DEF EngineNext

(* edit.go, applySpec, applyRawConfig, revertSpec and recordConfigChange:   *)
(* through reloads, exits, hangs, failed restarts and edits by hand, an     *)
(* edit that was refused has left the file it found, unless the disk failed *)
(* as it was put back, and one that was applied has it newest in the        *)
(* history.                                                                 *)
THEOREM EditCanBeUndone == EngineSpec => []EditIsUndoable
<1>1. EngineInv => EditIsUndoable
  BY DEF EngineInv
<1> QED
  BY <1>1, EngineStart, EngineStep, PTL DEF EngineSpec

-----------------------------------------------------------------------------
(* Install.  What each step of a tool relies on is what the steps before it *)
(* left: every snapshot holds the program an update found; until the        *)
(* program is replaced it and the configuration are the ones the tool       *)
(* started from; and a rollback that an update began puts back what that    *)
(* update's own snapshot holds.                                             *)

GoodSnaps   == [bin : {"v1"}, conf : [IFiles -> IContents], meta : BOOLEAN]
FetchSteps  == {"downloaded", "verified", "snapBin", "snapConf", "snapped", "extracted"}
PlacedSteps == {"installed", "restarted"}
UpdateSteps == FetchSteps \cup PlacedSteps
SnapSteps   == {"snapBin", "snapConf", "snapped", "extracted"} \cup PlacedSteps
RollSteps   == {"rollback", "rollbackCopied", "rollbackConf"}
RestoreSteps == {"staged", "removed", "aside", "placed", "committed"}

FilesOK ==
  /\ iConf \in IDirs /\ iAside \in IDirs /\ iStage \in IDirs
  /\ iRuns \in {"v1", "v2", "bad"} /\ iTmp \in {"none", "v1", "v2", "bad", "part"} /\ iBin \in {"v1", "v2", "bad"}
  /\ iBefore = [bin |-> iBefore.bin, conf |-> iBefore.conf] /\ iBefore.conf \in IDirs
  /\ iLeft \subseteq IFiles /\ iBare \in BOOLEAN
  /\ iOutcome \in IOutcomes

SnapsOK ==
  /\ iSnaps \in Seq(GoodSnaps) /\ iFaults \in Nat
  /\ Len(iSnaps) <= IRetention + iFaults + (IF iPc \in {"snapBin", "snapConf"} THEN 1 ELSE 0)
  /\ iPc \in SnapSteps => Len(iSnaps) > 0
  /\ iPc \in SnapSteps \ {"snapBin"} => iSnaps[1].conf = iBefore.conf
  /\ iPc \in SnapSteps \ {"snapBin", "snapConf"} => iPick = 1
  /\ iPc \in RollSteps => iPick \in 1 .. Len(iSnaps)
  /\ iPc \in RollSteps /\ iArchive # "none" => iSnaps[iPick].conf = iBefore.conf
  /\ iPc = "rollbackConf" => \A f \in iLeft : iSnaps[iPick].conf[f] # "none"

BackupsOK ==
  /\ iBackups \in Seq({"whole"}) /\ Len(iBackups) <= IBackupsKept

ProgramOK ==
  /\ iPc \in FetchSteps => iBin = "v1"
  /\ iPc = "extracted" => iTmp = iArchive
  /\ iPc = "rollbackCopied" => iTmp = "v1"
  /\ iPc = "rollbackConf" => iBin = "v1"
  /\ iPc \in UpdateSteps => iArchive \in {"v2", "bad"}
  /\ iTrusted => iArchive # "bad"
  /\ iBin = "bad" => ~iTrusted

BeforeOK ==
  /\ iPc # "idle" => iOutcome = "none"
  /\ iPc \in FetchSteps \cup RestoreSteps => iBefore.bin = iBin
  /\ iPc \in UpdateSteps \/ (iPc \in RollSteps /\ iArchive # "none") => iBefore.bin = "v1"
  /\ iPc \in UpdateSteps \/ (iPc \in RollSteps \ {"rollbackConf"} /\ iArchive # "none") => iConf = iBefore.conf
  /\ iPc \in SnapSteps \ {"snapBin"} \/ (iPc \in RollSteps /\ iArchive # "none") => iBefore.conf # NoDir
  /\ iPc = "rollbackConf" /\ iArchive # "none" =>
       iConf # NoDir /\ \A f \in IFiles : iConf[f] # iBefore.conf[f] => f \in iLeft

RestoreOK ==
  /\ iPc \in {"staged", "removed"} => iConf = Made(iBefore.conf)
  /\ iPc = "aside" => iConf = NoDir /\ iAside = Made(iBefore.conf) /\ iLast = iAside
  /\ iPc \in {"staged", "removed", "aside"} =>
       /\ \A f \in IFiles : iStage[f] \in {Made(iBefore.conf)[f], "c2"}
       /\ ~iBare => Made(iBefore.conf) \notin Nothing /\ iStage \notin Nothing
  /\ iPc \in {"placed", "committed"} =>
       /\ \A f \in IFiles : iConf[f] \in {Made(iBefore.conf)[f], "c2"}
       /\ ~iBare => iConf \notin Nothing

InstallInv ==
  FilesOK /\ SnapsOK /\ BackupsOK /\ ProgramOK /\ BeforeOK /\ RestoreOK /\ RolledBack /\ ConfigKept

LEMMA DirTypes ==
  /\ NoDir \in IDirs /\ Empty \in [IFiles -> IContents] /\ [IFiles -> IContents] \subseteq IDirs
  /\ \A d \in IDirs : Made(d) \in [IFiles -> IContents]
BY DEF NoDir, Empty, Made, IContents, IDirs

(* The definitions every step of a tool is made of.                         *)
USE DEF Goto, Starts, Ends, programVars, confVars, updateVars, backupVars,
        FetchSteps, PlacedSteps, UpdateSteps, SnapSteps, RollSteps, RestoreSteps, restoreVars, Fault

LEMMA DownloadKeeps == ASSUME InstallInv, Download PROVE InstallInv'
<1> USE DEF InstallInv, Download
<1>1. FilesOK' /\ BackupsOK'
  BY DEF FilesOK, BackupsOK, IOutcomes
<1>2. SnapsOK'
  BY DEF SnapsOK
<1>3. ProgramOK' /\ BeforeOK' /\ RestoreOK'
  BY DEF ProgramOK, BeforeOK, RestoreOK
<1>4. RolledBack' /\ ConfigKept'
  BY DEF RolledBack, ConfigKept, ProgramOK, BeforeOK, RestoreOK
<1> QED
  BY <1>1, <1>2, <1>3, <1>4

LEMMA verifyChecksumKeeps == ASSUME InstallInv, verifyChecksum PROVE InstallInv'
<1> USE DEF InstallInv, verifyChecksum
<1>1. FilesOK' /\ BackupsOK'
  BY DEF FilesOK, BackupsOK, IOutcomes
<1>2. SnapsOK'
  BY DEF SnapsOK
<1>3. ProgramOK' /\ BeforeOK' /\ RestoreOK'
  BY DEF ProgramOK, BeforeOK, RestoreOK
<1>4. RolledBack' /\ ConfigKept'
  BY DEF RolledBack, ConfigKept, ProgramOK, BeforeOK, RestoreOK
<1> QED
  BY <1>1, <1>2, <1>3, <1>4

LEMMA FindLocalUpdateKeeps == ASSUME InstallInv, FindLocalUpdate PROVE InstallInv'
<1> USE DEF InstallInv, FindLocalUpdate
<1>1. FilesOK' /\ BackupsOK'
  BY DEF FilesOK, BackupsOK, IOutcomes
<1>2. SnapsOK'
  BY DEF SnapsOK
<1>3. ProgramOK' /\ BeforeOK' /\ RestoreOK'
  BY DEF ProgramOK, BeforeOK, RestoreOK
<1>4. RolledBack' /\ ConfigKept'
  BY DEF RolledBack, ConfigKept, ProgramOK, BeforeOK, RestoreOK
<1> QED
  BY <1>1, <1>2, <1>3, <1>4

LEMMA extractBinaryKeeps == ASSUME InstallInv, extractBinary PROVE InstallInv'
<1> USE DEF InstallInv, extractBinary
<1>1. FilesOK' /\ BackupsOK'
  BY DEF FilesOK, BackupsOK, ProgramOK, IOutcomes
<1>2. SnapsOK'
  BY DEF SnapsOK
<1>3. ProgramOK' /\ BeforeOK' /\ RestoreOK'
  BY DEF ProgramOK, BeforeOK, RestoreOK
<1>4. RolledBack' /\ ConfigKept'
  BY DEF RolledBack, ConfigKept, ProgramOK, BeforeOK, RestoreOK
<1> QED
  BY <1>1, <1>2, <1>3, <1>4

LEMMA ReplaceKeeps == ASSUME InstallInv, Replace PROVE InstallInv'
<1> USE DEF InstallInv, Replace
<1>1. FilesOK' /\ BackupsOK'
  BY DEF FilesOK, BackupsOK, ProgramOK, IOutcomes
<1>2. SnapsOK'
  BY DEF SnapsOK
<1>3. ProgramOK' /\ BeforeOK' /\ RestoreOK'
  BY DEF ProgramOK, BeforeOK, RestoreOK
<1>4. RolledBack' /\ ConfigKept'
  BY DEF RolledBack, ConfigKept, ProgramOK, BeforeOK, RestoreOK
<1> QED
  BY <1>1, <1>2, <1>3, <1>4

LEMMA RestartAllKeeps == ASSUME InstallInv, RestartAll PROVE InstallInv'
<1> USE DEF InstallInv, RestartAll
<1>1. FilesOK' /\ BackupsOK'
  BY DEF FilesOK, BackupsOK, IOutcomes
<1>2. SnapsOK'
  BY DEF SnapsOK
<1>3. ProgramOK' /\ BeforeOK' /\ RestoreOK'
  BY DEF ProgramOK, BeforeOK, RestoreOK
<1>4. RolledBack' /\ ConfigKept'
  BY DEF RolledBack, ConfigKept, ProgramOK, BeforeOK, RestoreOK
<1> QED
  BY <1>1, <1>2, <1>3, <1>4

LEMMA unhealthyAfterUpdateKeeps == ASSUME InstallInv, unhealthyAfterUpdate PROVE InstallInv'
<1> USE DEF InstallInv, unhealthyAfterUpdate
<1>1. FilesOK' /\ BackupsOK'
  BY DEF FilesOK, BackupsOK, IOutcomes
<1>2. SnapsOK'
  BY DEF SnapsOK
<1>3. ProgramOK' /\ BeforeOK' /\ RestoreOK'
  BY DEF ProgramOK, BeforeOK, RestoreOK
<1>4. RolledBack' /\ ConfigKept'
  BY DEF RolledBack, ConfigKept, ProgramOK, BeforeOK, RestoreOK
<1> QED
  BY <1>1, <1>2, <1>3, <1>4

(* What a rollback copies is the program its update found. *)
LEMMA RollbackCopiesKeeps == ASSUME InstallInv, RollbackCopies PROVE InstallInv'
<1> USE DEF InstallInv, RollbackCopies
<1>0. iSnaps[iPick].bin = "v1"
  <2>1. iSnaps[iPick] \in GoodSnaps
    BY DEF SnapsOK
  <2> QED
    BY <2>1 DEF GoodSnaps
<1>1. FilesOK' /\ BackupsOK'
  BY <1>0 DEF FilesOK, BackupsOK
<1>2. SnapsOK'
  BY <1>0 DEF SnapsOK
<1>3. ProgramOK' /\ BeforeOK' /\ RestoreOK'
  BY <1>0 DEF ProgramOK, BeforeOK, RestoreOK
<1>4. RolledBack' /\ ConfigKept'
  BY <1>0 DEF RolledBack, ConfigKept, ProgramOK, BeforeOK, RestoreOK
<1> QED
  BY <1>1, <1>2, <1>3, <1>4

LEMMA RollbackReplacesKeeps == ASSUME InstallInv, RollbackReplaces PROVE InstallInv'
<1> USE DEF InstallInv, RollbackReplaces
<1>1. FilesOK' /\ BackupsOK'
  BY DEF FilesOK, BackupsOK, ProgramOK, IOutcomes
<1>2. SnapsOK'
  BY DEF SnapsOK
<1>3. ProgramOK' /\ BeforeOK' /\ RestoreOK'
  BY DEF ProgramOK, BeforeOK, RestoreOK
<1>4. RolledBack' /\ ConfigKept'
  BY DEF RolledBack, ConfigKept, ProgramOK, BeforeOK, RestoreOK
<1> QED
  BY <1>1, <1>2, <1>3, <1>4

LEMMA RollbackRestartsKeeps == ASSUME InstallInv, RollbackRestarts PROVE InstallInv'
<1>1. /\ iConf \in IDirs /\ iConf' = Made(iConf) /\ iPc = "rollbackConf" /\ iLeft = {}
      /\ iBefore.conf \in IDirs /\ Made(iConf) \in IDirs
  BY DirTypes DEF InstallInv, RollbackRestarts, FilesOK
<1>2. iConf' \in Nothing => iConf \in Nothing
  BY <1>1 DEF Made, Nothing
<1>3. iArchive # "none" => iConf' = iBefore.conf
  <2> SUFFICES ASSUME iArchive # "none" PROVE Made(iConf) = iBefore.conf
    BY <1>1
  <2>1. iConf # NoDir /\ iBefore.conf # NoDir /\ \A f \in IFiles : iConf[f] = iBefore.conf[f]
    BY <1>1 DEF InstallInv, BeforeOK
  <2>2. iConf \in [IFiles -> IContents] /\ iBefore.conf \in [IFiles -> IContents]
    BY <1>1, <2>1 DEF IDirs
  <2>3. iConf = iBefore.conf
    BY <2>1, <2>2
  <2> QED
    BY <2>1, <2>3 DEF Made
<1> USE DEF InstallInv, RollbackRestarts
<1>4. FilesOK' /\ BackupsOK'
  BY <1>1 DEF FilesOK, BackupsOK, IOutcomes
<1>5. SnapsOK'
  BY DEF SnapsOK
<1>6. ProgramOK' /\ BeforeOK' /\ RestoreOK'
  BY DEF ProgramOK, BeforeOK, RestoreOK
<1>7. RolledBack'
  BY <1>3 DEF RolledBack, ProgramOK, BeforeOK
<1>8. ConfigKept'
  BY <1>2 DEF ConfigKept
<1> QED
  BY <1>4, <1>5, <1>6, <1>7, <1>8

LEMMA stageRefusedKeeps == ASSUME InstallInv, stageRefused PROVE InstallInv'
<1> USE DEF InstallInv, stageRefused
<1>1. FilesOK' /\ BackupsOK'
  BY DirTypes DEF FilesOK, BackupsOK, IOutcomes
<1>2. SnapsOK'
  BY DEF SnapsOK
<1>3. ProgramOK' /\ BeforeOK' /\ RestoreOK'
  BY DEF ProgramOK, BeforeOK, RestoreOK
<1>4. RolledBack' /\ ConfigKept'
  BY DEF RolledBack, ConfigKept, ProgramOK, BeforeOK, RestoreOK
<1> QED
  BY <1>1, <1>2, <1>3, <1>4

LEMMA MoveAsideKeeps == ASSUME InstallInv, MoveAside PROVE InstallInv'
<1> USE DEF InstallInv, MoveAside
<1>1. FilesOK' /\ BackupsOK'
  BY DirTypes DEF FilesOK, BackupsOK, IOutcomes
<1>2. SnapsOK'
  BY DEF SnapsOK
<1>3. ProgramOK' /\ BeforeOK' /\ RestoreOK'
  BY DEF ProgramOK, BeforeOK, RestoreOK
<1>4. RolledBack' /\ ConfigKept'
  BY DEF RolledBack, ConfigKept, ProgramOK, BeforeOK, RestoreOK
<1> QED
  BY <1>1, <1>2, <1>3, <1>4

LEMMA commitRestoreKeeps == ASSUME InstallInv, commitRestore PROVE InstallInv'
<1> USE DEF InstallInv, commitRestore
<1>1. FilesOK' /\ BackupsOK'
  BY DirTypes DEF FilesOK, BackupsOK, IOutcomes
<1>2. SnapsOK'
  BY DEF SnapsOK
<1>3. ProgramOK' /\ BeforeOK' /\ RestoreOK'
  BY DEF ProgramOK, BeforeOK, RestoreOK
<1>4. RolledBack' /\ ConfigKept'
  BY DEF RolledBack, ConfigKept, ProgramOK, BeforeOK, RestoreOK
<1> QED
  BY <1>1, <1>2, <1>3, <1>4

LEMMA RollbackFailsKeeps == ASSUME InstallInv, RollbackFails PROVE InstallInv'
<1> USE DEF InstallInv, RollbackFails
<1>1. FilesOK' /\ BackupsOK'
  BY DirTypes DEF FilesOK, BackupsOK, IOutcomes
<1>2. SnapsOK'
  BY DEF SnapsOK
<1>3. ProgramOK' /\ BeforeOK' /\ RestoreOK'
  BY DEF ProgramOK, BeforeOK, RestoreOK
<1>4. RolledBack' /\ ConfigKept'
  BY DEF RolledBack, ConfigKept, ProgramOK, BeforeOK, RestoreOK
<1> QED
  BY <1>1, <1>2, <1>3, <1>4

LEMMA RemovePreviousKeeps == ASSUME InstallInv, RemovePrevious PROVE InstallInv'
<1> USE DEF InstallInv, RemovePrevious
<1>1. FilesOK' /\ BackupsOK'
  BY DirTypes DEF FilesOK, BackupsOK, IOutcomes
<1>2. SnapsOK'
  BY DEF SnapsOK
<1>3. ProgramOK' /\ BeforeOK' /\ RestoreOK'
  BY DEF ProgramOK, BeforeOK, RestoreOK
<1>4. RolledBack' /\ ConfigKept'
  BY DEF RolledBack, ConfigKept, ProgramOK, BeforeOK, RestoreOK
<1> QED
  BY <1>1, <1>2, <1>3, <1>4

LEMMA RemoveAsideKeeps == ASSUME InstallInv, RemoveAside PROVE InstallInv'
<1> USE DEF InstallInv, RemoveAside
<1>1. FilesOK' /\ BackupsOK'
  BY DirTypes DEF FilesOK, BackupsOK, IOutcomes
<1>2. SnapsOK'
  BY DEF SnapsOK
<1>3. ProgramOK' /\ BeforeOK' /\ RestoreOK'
  BY DEF ProgramOK, BeforeOK, RestoreOK
<1>4. RolledBack' /\ ConfigKept'
  BY DEF RolledBack, ConfigKept, ProgramOK, BeforeOK, RestoreOK
<1> QED
  BY <1>1, <1>2, <1>3, <1>4

LEMMA RestoreRestartsKeeps == ASSUME InstallInv, RestoreRestarts PROVE InstallInv'
<1> USE DEF InstallInv, RestoreRestarts
<1>1. FilesOK' /\ BackupsOK'
  BY DirTypes DEF FilesOK, BackupsOK, IOutcomes
<1>2. SnapsOK'
  BY DEF SnapsOK
<1>3. ProgramOK' /\ BeforeOK' /\ RestoreOK'
  BY DEF ProgramOK, BeforeOK, RestoreOK
<1>4. RolledBack' /\ ConfigKept'
  BY DEF RolledBack, ConfigKept, ProgramOK, BeforeOK, RestoreOK
<1> QED
  BY <1>1, <1>2, <1>3, <1>4

LEMMA DiesKeeps == ASSUME InstallInv, Dies PROVE InstallInv'
<1> USE DEF InstallInv, Dies
<1>1. FilesOK' /\ BackupsOK'
  BY DEF FilesOK, BackupsOK, IOutcomes
<1>2. SnapsOK'
  BY DEF SnapsOK
<1>3. ProgramOK' /\ BeforeOK' /\ RestoreOK'
  BY DEF ProgramOK, BeforeOK, RestoreOK
<1>4. RolledBack' /\ ConfigKept'
  BY DEF RolledBack, ConfigKept, ProgramOK, BeforeOK, RestoreOK
<1> QED
  BY <1>1, <1>2, <1>3, <1>4

(* TakeSnapshot: the new one is in front and holds the program and the      *)
(* configuration that the update found.                                     *)
LEMMA SnapType ==
  ASSUME NEW b \in {"v1"}, NEW c \in [IFiles -> IContents], NEW m \in BOOLEAN
  PROVE  Snap(b, c, m) \in GoodSnaps /\ Snap(b, c, m).conf = c
BY DEF Snap, GoodSnaps

LEMMA SetSnapType ==
  ASSUME NEW s \in GoodSnaps, iSnaps \in Seq(GoodSnaps), Len(iSnaps) > 0
  PROVE  SetSnap(s) \in Seq(GoodSnaps) /\ Len(SetSnap(s)) = Len(iSnaps) /\ SetSnap(s)[1] = s
BY DEF SetSnap

LEMMA NewestType ==
  ASSUME iSnaps \in Seq(GoodSnaps), Len(iSnaps) > 0
  PROVE  iSnaps[1].bin \in {"v1"} /\ iSnaps[1].conf \in [IFiles -> IContents]
<1>1. iSnaps[1] \in GoodSnaps
  OBVIOUS
<1> QED
  BY <1>1 DEF GoodSnaps

LEMMA TakeSnapshotBinKeeps == ASSUME InstallInv, TakeSnapshotBin PROVE InstallInv'
<1> DEFINE s == Snap(iBin, Empty, FALSE)
<1>1. iBin = "v1" /\ iSnaps \in Seq(GoodSnaps) /\ iSnaps' = <<s>> \o iSnaps
  BY DEF InstallInv, TakeSnapshotBin, ProgramOK, SnapsOK
<1>2. s \in GoodSnaps
  BY <1>1, DirTypes, SnapType
<1> HIDE DEF s
<1>3. iSnaps' \in Seq(GoodSnaps) /\ Len(iSnaps') = Len(iSnaps) + 1
  BY <1>1, <1>2
<1>0. iPc = "verified" /\ iPc' = "snapBin" /\ iFaults' = iFaults
  BY DEF TakeSnapshotBin
<1>4. SnapsOK'
  BY <1>0, <1>1, <1>3 DEF InstallInv, SnapsOK
<1> USE DEF InstallInv, TakeSnapshotBin
<1>5. FilesOK' /\ BackupsOK'
  BY DEF FilesOK, BackupsOK, IOutcomes
<1>6. ProgramOK' /\ BeforeOK' /\ RestoreOK'
  BY DEF ProgramOK, BeforeOK, RestoreOK
<1>7. RolledBack' /\ ConfigKept'
  BY DEF RolledBack, ConfigKept, BeforeOK, RestoreOK
<1> QED
  BY <1>4, <1>5, <1>6, <1>7

LEMMA TakeSnapshotConfKeeps == ASSUME InstallInv, TakeSnapshotConf PROVE InstallInv'
<1> DEFINE s == Snap(iSnaps[1].bin, iConf, FALSE)
<1>1. iSnaps \in Seq(GoodSnaps) /\ Len(iSnaps) > 0 /\ iSnaps' = SetSnap(s) /\ iConf \in [IFiles -> IContents]
      /\ iConf = iBefore.conf
  BY DEF InstallInv, TakeSnapshotConf, FilesOK, SnapsOK, BeforeOK, IDirs
<1>2. s \in GoodSnaps /\ s.conf = iConf
  BY <1>1, NewestType, SnapType
<1> HIDE DEF s
<1>3. iSnaps' \in Seq(GoodSnaps) /\ Len(iSnaps') = Len(iSnaps) /\ iSnaps'[1].conf = iBefore.conf
  BY <1>1, <1>2, SetSnapType
<1> USE DEF InstallInv, TakeSnapshotConf
<1>4. FilesOK' /\ BackupsOK'
  BY DEF FilesOK, BackupsOK, IOutcomes
<1>5. SnapsOK'
  BY <1>3 DEF SnapsOK
<1>6. ProgramOK' /\ BeforeOK' /\ RestoreOK'
  BY DEF ProgramOK, BeforeOK, RestoreOK
<1>7. RolledBack' /\ ConfigKept'
  BY DEF RolledBack, ConfigKept, BeforeOK, RestoreOK
<1> QED
  BY <1>4, <1>5, <1>6, <1>7

(* The pruning at the end keeps the one just taken: retention is positive.  *)
LEMMA TakeSnapshotMetaKeeps == ASSUME InstallInv, TakeSnapshotMeta PROVE InstallInv'
<1> DEFINE s == Snap(iSnaps[1].bin, iSnaps[1].conf, TRUE)
           t == SetSnap(s)
           n == IF Len(t) > IRetention THEN IRetention ELSE Len(t)
<1>1. iSnaps \in Seq(GoodSnaps) /\ Len(iSnaps) > 0 /\ iSnaps[1].conf = iBefore.conf
  BY DEF InstallInv, TakeSnapshotMeta, SnapsOK
<1>2. s \in GoodSnaps /\ s.conf = iBefore.conf
  BY <1>1, NewestType, SnapType
<1>3. iSnaps' = SubSeq(t, 1, n)
  BY DEF TakeSnapshotMeta, pruneSnapshots
<1> HIDE DEF s
<1>4. t \in Seq(GoodSnaps) /\ Len(t) = Len(iSnaps) /\ t[1] = s
  BY <1>1, <1>2, SetSnapType
<1> HIDE DEF t
<1>5. n \in 1 .. Len(t) /\ n <= IRetention
  BY <1>1, <1>4, IKeepAssumption
<1> HIDE DEF n
<1>6. iSnaps' \in Seq(GoodSnaps) /\ Len(iSnaps') = n /\ iSnaps'[1] = s
  BY <1>3, <1>4, <1>5, Shortened
<1>7. SnapsOK'
  <2>1. iPc' = "snapped" /\ iPick' = 1 /\ iBefore' = iBefore /\ iFaults' = iFaults /\ iFaults \in Nat
    BY DEF TakeSnapshotMeta, InstallInv, SnapsOK
  <2> QED
    BY <1>2, <1>5, <1>6, <2>1, IKeepAssumption DEF SnapsOK
<1> USE DEF InstallInv, TakeSnapshotMeta
<1>8. FilesOK' /\ BackupsOK'
  BY DEF FilesOK, BackupsOK, IOutcomes
<1>9. ProgramOK' /\ BeforeOK' /\ RestoreOK'
  BY DEF ProgramOK, BeforeOK, RestoreOK
<1>10. RolledBack' /\ ConfigKept'
  BY DEF RolledBack, ConfigKept, BeforeOK, RestoreOK
<1> QED
  BY <1>7, <1>8, <1>9, <1>10

(* A snapshot that fails goes, and those before it stay.                    *)
LEMMA TakeSnapshotFailsKeeps == ASSUME InstallInv, TakeSnapshotFails PROVE InstallInv'
<1>1. iSnaps \in Seq(GoodSnaps) /\ (iPc # "verified" => Len(iSnaps) > 0)
  BY DEF InstallInv, TakeSnapshotFails, SnapsOK
<1>2. iPc # "verified" => Tail(iSnaps) \in Seq(GoodSnaps) /\ Len(Tail(iSnaps)) = Len(iSnaps) - 1
  BY <1>1
<1>3. iPc' = "idle" /\ iFaults' \in {iFaults, iFaults + 1} /\ iFaults \in Nat
  BY DEF TakeSnapshotFails, InstallInv, SnapsOK
<1>4. SnapsOK'
  BY <1>1, <1>2, <1>3 DEF SnapsOK, InstallInv, TakeSnapshotFails
<1> USE DEF InstallInv, TakeSnapshotFails
<1>5. FilesOK' /\ BackupsOK'
  BY DEF FilesOK, BackupsOK, IOutcomes
<1>6. ProgramOK' /\ BeforeOK' /\ RestoreOK'
  BY DEF ProgramOK, BeforeOK, RestoreOK
<1>7. RolledBack' /\ ConfigKept'
  BY DEF RolledBack, ConfigKept, BeforeOK, RestoreOK
<1> QED
  BY <1>4, <1>5, <1>6, <1>7

LEMMA RollbackUpdateKeeps ==
  ASSUME InstallInv, NEW i \in DOMAIN iSnaps, RollbackUpdate(i) PROVE InstallInv'
<1> USE DEF InstallInv, RollbackUpdate
<1>1. FilesOK' /\ BackupsOK'
  BY DEF FilesOK, BackupsOK, IOutcomes
<1>2. SnapsOK'
  BY DEF SnapsOK
<1>3. ProgramOK' /\ BeforeOK' /\ RestoreOK'
  BY DEF ProgramOK, BeforeOK, RestoreOK
<1>4. RolledBack' /\ ConfigKept'
  BY DEF RolledBack, ConfigKept, BeforeOK, RestoreOK
<1> QED
  BY <1>1, <1>2, <1>3, <1>4

(* A rollback that an update began writes over each file what its snapshot  *)
(* holds, which is what the update found.                                   *)
LEMMA RollbackConfigKeeps ==
  ASSUME InstallInv, NEW f \in IFiles, RollbackConfig(f) PROVE InstallInv'
<1> DEFINE c == iSnaps[iPick].conf
<1>1. /\ iPick \in 1 .. Len(iSnaps) /\ iSnaps \in Seq(GoodSnaps) /\ iConf \in IDirs
      /\ iPc = "rollbackConf" /\ f \in iLeft /\ iLeft \subseteq IFiles
  BY DEF InstallInv, RollbackConfig, SnapsOK, FilesOK
<1>2. c \in [IFiles -> IContents]
  <2>1. iSnaps[iPick] \in GoodSnaps
    BY <1>1
  <2> QED
    BY <2>1 DEF GoodSnaps
<1>3. c[f] \notin {"none", "gone"}
  BY <1>1, <1>2 DEF InstallInv, SnapsOK, IContents
<1>4. \/ iConf[f] = "part" /\ iConf' = [iConf EXCEPT ![f] = c[f]] /\ iLeft' = iLeft \ {f}
      \/ iConf' = [Made(iConf) EXCEPT ![f] = "part"] /\ iLeft' = iLeft
  BY DEF RollbackConfig
<1>5. iArchive # "none" => c = iBefore.conf
  BY DEF InstallInv, RollbackConfig, SnapsOK
<1> HIDE DEF c
<1>6. Made(iConf) \in [IFiles -> IContents]
  BY <1>1, DirTypes
<1>11. iConf[f] = "part" => iConf \in [IFiles -> IContents]
  BY <1>1 DEF IDirs, NoDir
<1>7. iConf' \in [IFiles -> IContents] /\ iLeft' \subseteq IFiles /\ iConf'[f] \notin {"none", "gone"}
  BY <1>1, <1>2, <1>3, <1>4, <1>6, <1>11 DEF IContents
<1>8. iConf' \notin Nothing
  BY <1>7 DEF Nothing, NoDir, Empty
<1>9. iArchive # "none" => \A g \in IFiles : iConf'[g] # iBefore.conf[g] => g \in iLeft'
  <2> SUFFICES ASSUME iArchive # "none", NEW g \in IFiles, iConf'[g] # iBefore.conf[g] PROVE g \in iLeft'
    OBVIOUS
  <2>1. iConf # NoDir /\ (iConf[g] # iBefore.conf[g] => g \in iLeft)
    BY <1>1 DEF InstallInv, BeforeOK
  <2>2. Made(iConf) = iConf
    BY <2>1 DEF Made
  <2> QED
    BY <1>1, <1>4, <1>5, <1>6, <1>11, <2>1, <2>2
<1> USE DEF InstallInv, RollbackConfig
<1>10. FilesOK' /\ BackupsOK'
  BY <1>7, DirTypes DEF FilesOK, BackupsOK
<1>15. SnapsOK'
  BY <1>4 DEF SnapsOK
<1>12. ProgramOK' /\ RestoreOK'
  BY DEF ProgramOK, RestoreOK
<1>13. BeforeOK'
  BY <1>8, <1>9 DEF BeforeOK, Nothing
<1>14. RolledBack' /\ ConfigKept'
  BY <1>8 DEF RolledBack, ConfigKept, BeforeOK
<1> QED
  BY <1>10, <1>12, <1>13, <1>14, <1>15

(* What is staged differs from the present only in the archive's files, and *)
(* is empty only when both are.                                             *)
LEMMA stageRestoreKeeps ==
  ASSUME InstallInv, NEW archive \in [IFiles -> {"c2", "none"}], stageRestore(archive) PROVE InstallInv'
<1> DEFINE d == Made(iConf)
<1>1. /\ iConf \in IDirs /\ iConf' = d /\ iBefore' = [bin |-> iBin, conf |-> iConf]
      /\ iStage' = Overlay(d, archive) /\ iBare' = (iBare \/ iConf \in Nothing) /\ iBare \in BOOLEAN
  BY DEF InstallInv, FilesOK, stageRestore
<1>2. d \in [IFiles -> IContents]
  BY <1>1, DirTypes
<1>3. iConf \notin Nothing => d = iConf
  BY DEF Nothing, Made
<1>4. Made(iBefore'.conf) = d
  BY <1>1
<1> HIDE DEF d
<1>5. /\ iStage' \in [IFiles -> IContents]
      /\ \A f \in IFiles : iStage'[f] = IF archive[f] = "none" THEN d[f] ELSE archive[f]
  BY <1>1, <1>2 DEF Overlay, IContents
<1>6. \A f \in IFiles : iStage'[f] \in {d[f], "c2"}
  BY <1>5
<1>7. ~iBare' => d \notin Nothing /\ iStage' \notin Nothing
  <2> SUFFICES ASSUME ~iBare' PROVE d \notin Nothing /\ iStage' \notin Nothing
    OBVIOUS
  <2>1. iConf \notin Nothing /\ d = iConf
    BY <1>1, <1>3
  <2>2. PICK f \in IFiles : d[f] # "none"
    BY <1>2, <2>1 DEF Nothing, Empty
  <2>3. PICK g \in IFiles : d[g] # "gone"
    BY <1>2, <2>1, <2>2 DEF IContents
  <2>4. iStage'[f] # "none" /\ iStage'[g] # "gone"
    BY <1>5, <2>2, <2>3
  <2> QED
    BY <2>1, <2>4 DEF Nothing, NoDir, Empty
<1>8. FilesOK' /\ BackupsOK'
  BY <1>1, <1>2, <1>5, DirTypes DEF InstallInv, stageRestore, FilesOK, BackupsOK, IOutcomes
<1>9. SnapsOK'
  BY DEF InstallInv, stageRestore, SnapsOK
<1>10. ProgramOK' /\ BeforeOK'
  BY <1>1 DEF InstallInv, stageRestore, ProgramOK, BeforeOK
<1>11. RestoreOK'
  <2>1. iPc' = "staged"
    BY DEF stageRestore
  <2> QED
    BY <1>1, <1>4, <1>6, <1>7, <2>1 DEF RestoreOK
<1>12. RolledBack'
  BY DEF stageRestore, RolledBack
<1>13. ConfigKept'
  <2>1. iPc' = "staged" /\ iOutcome' = "none"
    BY DEF stageRestore
  <2> QED
    BY <1>1, <1>4, <1>7, <2>1 DEF ConfigKept
<1> QED
  BY <1>8, <1>9, <1>10, <1>11, <1>12, <1>13 DEF InstallInv

(* publishBackup: only what was written to its end gets the final name.     *)
LEMMA backupKeeps == ASSUME InstallInv, backup PROVE InstallInv'
<1>1. BackupsOK'
  <2>1. iBackups \in Seq({"whole"}) /\ Len(iBackups) \in Nat /\ Len(iBackups) <= IBackupsKept
    BY DEF InstallInv, BackupsOK
  <2>2. CASE WriteBackup \/ BackupWritten
    BY <2>1, <2>2 DEF WriteBackup, BackupWritten, BackupsOK
  <2>3. CASE publishBackup
    <3> DEFINE n == IF Len(iBackups) < IBackupsKept THEN Len(iBackups) + 1 ELSE IBackupsKept
               u == <<"whole">> \o iBackups
    <3>1. iBackups' = SubSeq(u, 1, n)
      BY <2>3 DEF publishBackup
    <3>2. u \in Seq({"whole"}) /\ Len(u) = Len(iBackups) + 1
      BY <2>1
    <3>3. n \in 0 .. Len(iBackups) + 1 /\ n <= IBackupsKept
      BY <2>1, IKeepAssumption
    <3> HIDE DEF n, u
    <3>4. iBackups' \in Seq({"whole"}) /\ Len(iBackups') = n
      BY <3>1, <3>2, <3>3, Shortened
    <3> QED
      BY <3>3, <3>4 DEF BackupsOK
  <2> QED
    BY <2>2, <2>3 DEF backup
<1> USE DEF InstallInv, backup, WriteBackup, BackupWritten, publishBackup
<1>2. FilesOK'
  BY DEF FilesOK
<1>3. SnapsOK'
  BY DEF SnapsOK
<1>4. ProgramOK' /\ BeforeOK' /\ RestoreOK'
  BY DEF ProgramOK, BeforeOK, RestoreOK
<1>5. RolledBack' /\ ConfigKept'
  BY DEF RolledBack, ConfigKept
<1> QED
  BY <1>1, <1>2, <1>3, <1>4, <1>5

LEMMA ChangeConfKeeps == ASSUME InstallInv, NEW f \in IFiles, ChangeConf(f) PROVE InstallInv'
<1>1. iConf' \in [IFiles -> IContents] /\ iConf'[f] = "c2"
  <2>1. Made(iConf) \in [IFiles -> IContents]
    BY DirTypes DEF InstallInv, FilesOK
  <2> QED
    BY <2>1 DEF ChangeConf, IContents
<1>0. iConf' \notin Nothing
  BY <1>1 DEF Nothing, NoDir, Empty
<1> USE DEF InstallInv, ChangeConf
<1>2. FilesOK' /\ BackupsOK'
  BY <1>1, DirTypes DEF FilesOK, BackupsOK, IOutcomes
<1>3. SnapsOK'
  BY DEF SnapsOK
<1>4. ProgramOK' /\ BeforeOK' /\ RestoreOK'
  BY DEF ProgramOK, BeforeOK, RestoreOK
<1>5. RolledBack' /\ ConfigKept'
  BY <1>0 DEF RolledBack, ConfigKept
<1> QED
  BY <1>2, <1>3, <1>4, <1>5

LEMMA InstallStep == InstallInv /\ [InstallNext]_installVars => InstallInv'
<1> SUFFICES ASSUME InstallInv, [InstallNext]_installVars PROVE InstallInv'
  OBVIOUS
<1>1. CASE UNCHANGED installVars
  <2> USE <1>1 DEF InstallInv, installVars
  <2>1. FilesOK' /\ BackupsOK'
    BY DEF FilesOK, BackupsOK, IOutcomes
  <2>2. SnapsOK'
    BY DEF SnapsOK
  <2>3. ProgramOK' /\ BeforeOK' /\ RestoreOK'
    BY DEF ProgramOK, BeforeOK, RestoreOK
  <2>4. RolledBack' /\ ConfigKept'
    BY DEF RolledBack, ConfigKept
  <2> QED
    BY <2>1, <2>2, <2>3, <2>4
<1>2. CASE update
  BY <1>2, DownloadKeeps, verifyChecksumKeeps, FindLocalUpdateKeeps, TakeSnapshotBinKeeps, TakeSnapshotConfKeeps,
     TakeSnapshotMetaKeeps, TakeSnapshotFailsKeeps, extractBinaryKeeps, ReplaceKeeps, RestartAllKeeps, unhealthyAfterUpdateKeeps DEF update
<1>3. CASE rollback
  BY <1>3, RollbackUpdateKeeps, RollbackCopiesKeeps, RollbackReplacesKeeps, RollbackRestartsKeeps,
     RollbackConfigKeeps, RollbackFailsKeeps DEF rollback
<1>4. CASE Restore
  BY <1>4, stageRestoreKeeps, stageRefusedKeeps, RemovePreviousKeeps, MoveAsideKeeps,
     commitRestoreKeeps, RemoveAsideKeeps, RestoreRestartsKeeps DEF Restore
<1> QED
  BY <1>1, <1>2, <1>3, <1>4, backupKeeps, DiesKeeps, ChangeConfKeeps DEF InstallNext, tools

LEMMA InstallStart == InstallInit => InstallInv
<1> SUFFICES ASSUME InstallInit PROVE InstallInv
  OBVIOUS
<1>1. iConf \in [IFiles -> IContents] /\ iBefore = [bin |-> iBin, conf |-> iConf]
  BY DEF InstallInit, IContents
<1>0. iConf \notin Nothing
  <2>1. iConf \in [IFiles -> {"c1", "none"}] /\ iConf # Empty
    BY DEF InstallInit
  <2>2. PICK f \in IFiles : iConf[f] # "none"
    BY <2>1 DEF Empty
  <2>3. iConf[f] # "gone"
    BY <2>1
  <2> QED
    BY <2>1, <2>3 DEF Nothing, NoDir
<1>5. FilesOK
  <2>1. iBefore.conf = iConf /\ iBefore.bin = iBin
    BY <1>1
  <2> QED
    BY <1>1, <2>1, DirTypes DEF InstallInit, FilesOK, IOutcomes
<1>2. BackupsOK /\ SnapsOK
  BY IKeepAssumption DEF InstallInit, BackupsOK, SnapsOK
<1>3. ProgramOK /\ BeforeOK /\ RestoreOK /\ RolledBack /\ ConfigKept
  BY <1>0 DEF InstallInit, ProgramOK, BeforeOK, RestoreOK, RolledBack, ConfigKept
<1> QED
  BY <1>2, <1>3, <1>5 DEF InstallInv

(* update.go, snapshot.go, restore.go, backup.go: whichever step a tool     *)
(* dies in and however many ran before, the program is whole and the one a  *)
(* checksum vouched for unless the operator brought it, no backup is part   *)
(* of one, an update that fails leaves things as it found them unless its   *)
(* rollback fails too, and the configuration is in place or aside as long   *)
(* as no restore is started with none in place.                             *)
THEOREM InstallStaysRight == InstallSpec => []InstallIsRight
<1>1. InstallInv => InstallIsRight
  <2> SUFFICES ASSUME InstallInv PROVE InstallIsRight
    OBVIOUS
  <2>1. iBin # "part" /\ (iBin = "bad" => ~iTrusted)
    BY DEF InstallInv, FilesOK, ProgramOK
  <2>2. \A i \in DOMAIN iBackups : iBackups[i] = "whole"
    BY DEF InstallInv, BackupsOK
  <2> QED
    BY <2>1, <2>2 DEF InstallInv, InstallIsRight, InstalledWhole
<1> QED
  BY <1>1, InstallStart, InstallStep, PTL DEF InstallSpec

LEMMA InstallTyped == InstallInv => InstallTypeOK
<1> SUFFICES ASSUME InstallInv PROVE InstallTypeOK
  OBVIOUS
<1>1. iSnaps \in Seq(ISnaps)
  <2>1. GoodSnaps \subseteq ISnaps
    BY DEF GoodSnaps, ISnaps
  <2>2. iSnaps \in Seq(GoodSnaps)
    BY DEF InstallInv, SnapsOK
  <2> HIDE DEF GoodSnaps, ISnaps
  <2> QED
    BY <2>1, <2>2
<1>2. Len(iSnaps) <= IRetention + 1 + iFaults
  BY <1>1, IKeepAssumption DEF InstallInv, SnapsOK
<1> QED
  BY <1>1, <1>2 DEF InstallInv, FilesOK, BackupsOK, InstallTypeOK

-----------------------------------------------------------------------------
(* TrafficTotals.  The counters, the baselines and the file hold integers,  *)
(* and reloads are only ever added to.                                      *)
TrafficTypeOK ==
  /\ tCarried \in Int /\ tForgotten \in Int /\ tBytes \in Nat /\ tBase \in Int
  /\ tFile \in Int /\ tOld \in Int /\ tReloads \in Nat

(* What a reload needs of a counted tunnel: the file, which the next        *)
(* collector begins with, and the collector that has yet to write once more *)
(* both hold, with the counter, all that was not forgotten.                 *)
FileSuffices ==
  tKind # "own" =>
    /\ tFile + tBytes >= tCarried - tForgotten
    /\ tOld >= 0 => tOld + tBytes >= tCarried - tForgotten

TrafficInv == TrafficTypeOK /\ FileSuffices /\ TotalsGoOn

(* Every step of the counters, the collectors and the processes keeps the   *)
(* totals going on.                                                         *)
LEMMA TrafficStep == TrafficInv /\ [TrafficNext]_trafficVars => TrafficInv'
<1> SUFFICES ASSUME TrafficInv, [TrafficNext]_trafficVars PROVE TrafficInv'
  OBVIOUS
<1> USE DEF TrafficInv, TrafficTypeOK, FileSuffices, TotalsGoOn, Total
<1>1. CASE Carry
  BY <1>1 DEF Carry
<1>2. CASE CollectorWrites
  BY <1>2 DEF CollectorWrites
<1>3. CASE OldCollectorEnds
  BY <1>3 DEF OldCollectorEnds, OldTotal
<1>4. CASE ProcessRestarts
  \* With a last write the baseline takes over the counter; without it, what
  \* the file is short of is forgotten, and all of it where the tunnel counts
  \* its own.
  <2>1. CASE tKind = "own"
    BY <1>4, <2>1 DEF ProcessRestarts, NewCollector
  <2>2. CASE tKind # "own"
    <3>1. CASE /\ tFile' = Total(tBase) /\ tBase' = Total(tBase)
               /\ tForgotten' = tForgotten + (IF tKind = "own" THEN tBytes ELSE 0)
      BY <1>4, <2>2, <3>1 DEF ProcessRestarts
    <3>2. CASE /\ NewCollector /\ UNCHANGED tFile
               /\ tForgotten' = tForgotten + (IF tKind = "own" THEN tBytes ELSE Total(tBase) - tFile)
      BY <1>4, <2>2, <3>2 DEF ProcessRestarts, NewCollector
    <3> QED
      BY <1>4, <3>1, <3>2 DEF ProcessRestarts
  <2> QED
    BY <2>1, <2>2
<1>5. CASE ReloadCollector
  BY <1>5 DEF ReloadCollector, NewCollector
<1>6. CASE UNCHANGED trafficVars
  BY <1>6 DEF trafficVars
<1> QED
  BY <1>1, <1>2, <1>3, <1>4, <1>5, <1>6 DEF TrafficNext

(* metrics.go: across any number of processes, killed or ended in order, and*)
(* of reloads, nothing a counted tunnel carried leaves its total but what a *)
(* killed process had not written; a layer-3 tunnel's is of its present run.*)
THEOREM TotalsContinue == TrafficSpec => []TotalsGoOn
<1>1. TrafficInit => TrafficInv
  BY DEF TrafficInit, TrafficInv, TrafficTypeOK, FileSuffices, TotalsGoOn, Total
<1>2. TrafficInv => TotalsGoOn
  BY DEF TrafficInv
<1> QED
  BY <1>1, <1>2, TrafficStep, PTL DEF TrafficSpec

-----------------------------------------------------------------------------
(* A step of the composition is a step of one part and none of the others.  *)
LEMMA PartStep ==
  [PartNext]_partVars => /\ [EngineNext]_engineVars
                         /\ [InstallNext]_installVars
                         /\ [TrafficNext]_trafficVars
<1>1. ASSUME UNCHANGED partVars
      PROVE  UNCHANGED engineVars /\ UNCHANGED installVars /\ UNCHANGED trafficVars
  BY <1>1 DEF partVars
<1>2. ASSUME PartNext
      PROVE  /\ EngineNext \/ UNCHANGED engineVars
             /\ InstallNext \/ UNCHANGED installVars
             /\ TrafficNext \/ UNCHANGED trafficVars
  BY <1>2, Zenon DEF PartNext, InstallNext
<1> QED
  BY <1>1, <1>2, Zenon

(* The file, process and edit of the engine, and the program, configuration,*)
(* snapshots and backups of the installation, keep their types: histories   *)
(* and backups stay within their retention, and snapshots exceed it by what *)
(* tools that died left.                                                    *)
THEOREM PartsTypeCorrect == PartSpec => []PartsTyped
<1>1. PartInit => EngineInv /\ InstallInv
  BY EngineStart, InstallStart DEF PartInit
<1>2. EngineInv /\ InstallInv /\ [PartNext]_partVars => (EngineInv /\ InstallInv)'
  BY PartStep, EngineStep, InstallStep
<1>3. EngineInv /\ InstallInv => PartsTyped
  BY InstallTyped DEF PartsTyped, EngineInv
<1> QED
  BY <1>1, <1>2, <1>3, PTL DEF PartSpec
=============================================================================
