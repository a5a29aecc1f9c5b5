------------------------------- MODULE Install -------------------------------
(***************************************************************************)
(* The management tool where a failure or a crash half way would cost the  *)
(* installation: an update (downloaded or found on disk) with its          *)
(* verification, safety snapshot, health check and rollback; the restore   *)
(* of a configuration from a backup; the writing of backups.               *)
(*                                                                         *)
(* The program is "v1" and the release "v2"; "bad" is an archive that is   *)
(* not the published one and "part" a file not yet written to its end.     *)
(* A configuration file is "c1" or "c2", "part" while it is copied over,   *)
(* or missing.  A rename is atomic; the process can die between any two    *)
(* steps, and any copy, write or rename can fail.  Nothing but these tools *)
(* runs; backups are written beside them.                                  *)
(***************************************************************************)
EXTENDS Integers, Sequences

CONSTANTS
  IFiles,        \* configuration files
  IRetention,    \* snapshotRetention (five)
  IBackupsKept,  \* backupRetention (ten)
  IMaxOps,       \* bound: tools started
  IMaxFaults     \* bound: processes that die half way, copies and renames that fail

(* snapshotRetention and backupRetention.                                   *)
ASSUME IKeepAssumption == IRetention \in Nat \ {0} /\ IBackupsKept \in Nat

VARIABLES
  iBin, iTmp,         \* the program, and the file it is extracted to
  iRuns,              \* the version the services run
  iConf, iAside,      \* ConfigDir and ConfigDir.restore-previous
  iStage,             \* the directory a restore is prepared in
  iSnaps,             \* snapshots, newest first: what they hold, and meta.json
  iPick, iLeft,       \* the one a rollback puts back, and its files still to be copied
  iArchive, iTrusted, \* what was downloaded or found, and whether a checksum vouched for it
  iPc,                \* the step of the tool that runs
  iHealthy,           \* whether v2 comes up on this machine; chosen once
  iBefore,            \* history: program and configuration when the tool started
  iOutcome,
  iLast,              \* history: the configuration a restore last moved aside
  iBare,              \* history: a restore was started with no configuration in place
  iBackups, iPartial, \* published backups (whether whole), and the one being written
  iOps, iFaults

programVars == <<iBin, iTmp, iRuns>>
confVars    == <<iConf, iAside, iStage>>
backupVars  == <<iBackups, iPartial>>
updateVars  == <<iSnaps, iPick, iLeft, iArchive, iTrusted>>
restoreVars == <<iLast, iBare>>
installVars == <<programVars, confVars, updateVars, iPc, iHealthy, iBefore, iOutcome, restoreVars,
                 backupVars, iOps, iFaults>>

NoDir == [f \in IFiles |-> "gone"]       \* no such directory
Empty == [f \in IFiles |-> "none"]
Nothing == {NoDir, Empty}

(* os.MkdirAll.                                                             *)
Made(dir) == IF dir = NoDir THEN Empty ELSE dir

Snap(bin, conf, meta) == [bin |-> bin, conf |-> conf, meta |-> meta]

InstallInit ==
  /\ iBin = "v1" /\ iTmp = "none" /\ iRuns = "v1"
  /\ iConf \in [IFiles -> {"c1", "none"}] /\ iConf # Empty
  /\ iAside = NoDir /\ iStage = NoDir /\ iLast = NoDir /\ iBare = FALSE
  /\ iSnaps = <<>> /\ iPick = 1 /\ iLeft = {} /\ iArchive = "none" /\ iTrusted = FALSE
  /\ iPc = "idle"
  /\ iHealthy \in BOOLEAN
  /\ iBefore = [bin |-> iBin, conf |-> iConf]
  /\ iOutcome = "none"
  /\ iBackups = <<>> /\ iPartial = "none"
  /\ iOps = 0 /\ iFaults = 0

Goto(pc) == iPc' = pc

Starts(pc) ==
  /\ iPc = "idle" /\ iOps < IMaxOps /\ iOps' = iOps + 1
  /\ Goto(pc)
  /\ iBefore' = [bin |-> iBin, conf |-> iConf] /\ iOutcome' = "none"

Ends(outcome) == Goto("idle") /\ iOutcome' = outcome

Fault == iFaults < IMaxFaults /\ iFaults' = iFaults + 1

-----------------------------------------------------------------------------
(* update.go and localupdate.go, up to a verified archive *)

(* latestTag names a newer version, and downloadAsset gets the archive from *)
(* the first source that serves it whole.                                   *)
Download ==
  /\ iBin = "v1" /\ Starts("downloaded")
  /\ iArchive' \in {"v2", "bad"} /\ iTrusted' = FALSE
  /\ UNCHANGED <<programVars, confVars, iSnaps, iPick, iLeft, iHealthy, restoreVars, backupVars, iFaults>>

(* The published checksum, or the end: one that cannot be fetched, is not   *)
(* published or does not match removes the archive.                         *)
verifyChecksum ==
  /\ iPc = "downloaded"
  /\ \/ iArchive = "v2" /\ iTrusted' = TRUE /\ Goto("verified") /\ UNCHANGED <<iArchive, iOutcome>>
     \/ iArchive' = "none" /\ UNCHANGED iTrusted /\ Ends("failed")
  /\ UNCHANGED <<programVars, confVars, iSnaps, iPick, iLeft, iHealthy, restoreVars, iBefore, backupVars,
                 iOps, iFaults>>

(* An archive beside the program: checked against SHA256SUMS when that is   *)
(* there, installed unverified when it is not.                              *)
FindLocalUpdate ==
  /\ iBin = "v1" /\ Starts("verified")
  /\ \/ iArchive' \in {"v2", "bad"} /\ iTrusted' = FALSE
     \/ iArchive' = "v2" /\ iTrusted' = TRUE
  /\ UNCHANGED <<programVars, confVars, iSnaps, iPick, iLeft, iHealthy, restoreVars, backupVars, iFaults>>

-----------------------------------------------------------------------------
(* snapshot.go *)

SetSnap(s) == [iSnaps EXCEPT ![1] = s]

TakeSnapshotBin ==
  /\ iPc = "verified"
  /\ iSnaps' = <<Snap(iBin, Empty, FALSE)>> \o iSnaps
  /\ Goto("snapBin")
  /\ UNCHANGED <<programVars, confVars, iPick, iLeft, iArchive, iTrusted, iHealthy, iBefore, iOutcome,
                 restoreVars, backupVars, iOps, iFaults>>

(* copyTree, which needs the directory to be there.                         *)
TakeSnapshotConf ==
  /\ iPc = "snapBin" /\ iConf # NoDir
  /\ iSnaps' = SetSnap(Snap(iSnaps[1].bin, iConf, FALSE))
  /\ Goto("snapConf")
  /\ UNCHANGED <<programVars, confVars, iPick, iLeft, iArchive, iTrusted, iHealthy, iBefore, iOutcome,
                 restoreVars, backupVars, iOps, iFaults>>

(* Any of its copies and writes can fail: the snapshot is removed and the   *)
(* update ends.                                                             *)
TakeSnapshotFails ==
  /\ iPc \in {"verified", "snapBin", "snapConf"}
  /\ iSnaps' = IF iPc = "verified" THEN iSnaps ELSE Tail(iSnaps)
  /\ IF iPc = "snapBin" /\ iConf = NoDir THEN UNCHANGED iFaults ELSE Fault
  /\ Ends("failed")
  /\ UNCHANGED <<programVars, confVars, iPick, iLeft, iArchive, iTrusted, iHealthy, iBefore, restoreVars,
                 backupVars, iOps>>

(* The newest stay, whether whole or left by a process that died.           *)
pruneSnapshots(s) == SubSeq(s, 1, IF Len(s) > IRetention THEN IRetention ELSE Len(s))

(* meta.json comes last.                                                    *)
TakeSnapshotMeta ==
  /\ iPc = "snapConf"
  /\ iSnaps' = pruneSnapshots(SetSnap(Snap(iSnaps[1].bin, iSnaps[1].conf, TRUE)))
  /\ iPick' = 1 /\ Goto("snapped")
  /\ UNCHANGED <<programVars, confVars, iArchive, iLeft, iTrusted, iHealthy, restoreVars, iBefore,
                 iOutcome, backupVars, iOps, iFaults>>

-----------------------------------------------------------------------------
(* Installing, and the health check. *)

extractInPlaceMutant ==
  /\ iPc = "snapped"
  /\ iBin' = "part" /\ iTmp' = iArchive /\ Goto("extracted")
  /\ UNCHANGED <<iRuns, iOutcome>>
  /\ UNCHANGED <<confVars, updateVars, iHealthy, restoreVars, iBefore, backupVars, iOps, iFaults>>

(* extractBinaryTo a file of its own; an archive that is no archive, or a   *)
(* full disk, ends it.                                                      *)
extractBinary ==
  /\ iPc = "snapped"
  /\ \/ iTmp' = iArchive /\ Goto("extracted") /\ UNCHANGED <<iOutcome, iFaults>>
     \/ iTmp' = "none" /\ iArchive = "bad" /\ Ends("failed") /\ UNCHANGED iFaults
     \/ iTmp' = "none" /\ Fault /\ Ends("failed")
  /\ UNCHANGED <<iBin, iRuns, confVars, updateVars, iHealthy, iBefore, restoreVars, backupVars, iOps>>

(* Its rename.                                                              *)
Replace ==
  /\ iPc = "extracted"
  /\ \/ iBin' = iTmp /\ iTmp' = "none" /\ Goto("installed") /\ UNCHANGED <<iOutcome, iFaults>>
     \/ UNCHANGED <<iBin, iTmp>> /\ Fault /\ Ends("failed")
  /\ UNCHANGED <<iRuns, confVars, updateVars, iHealthy, iBefore, restoreVars, backupVars, iOps>>

RestartAll ==
  /\ iPc = "installed"
  /\ iRuns' = iBin /\ Goto("restarted")
  /\ UNCHANGED <<iBin, iTmp, confVars, updateVars, iHealthy, restoreVars, iBefore, iOutcome, backupVars,
                 iOps, iFaults>>

ComesUp(v) == v = "v1" \/ (v = "v2" /\ iHealthy)

(* A service that is active when it is looked at has passed, and one that   *)
(* exits at once is active for a moment.  A local archive is removed.       *)
unhealthyAfterUpdate ==
  /\ iPc = "restarted"
  /\ \/ iArchive' = "none" /\ Ends("updated")
     \/ ~ComesUp(iBin) /\ Goto("rollback") /\ UNCHANGED <<iArchive, iOutcome>>
  /\ UNCHANGED <<programVars, confVars, iSnaps, iPick, iLeft, iTrusted, iHealthy, restoreVars, iBefore,
                 backupVars, iOps, iFaults>>

-----------------------------------------------------------------------------
(* RestoreSnapshot, of the snapshot just taken or of one that is chosen. *)

(* Restore points: any snapshot, refused without its meta.json.             *)
RollbackUpdate(i) ==
  /\ iSnaps[i].meta
  /\ Starts("rollback") /\ iPick' = i /\ iArchive' = "none"
  /\ UNCHANGED <<programVars, confVars, iSnaps, iLeft, iTrusted, iHealthy, restoreVars, backupVars,
                 iFaults>>

RollbackCopies ==
  /\ iPc = "rollback"
  /\ iTmp' = iSnaps[iPick].bin /\ Goto("rollbackCopied")
  /\ UNCHANGED <<iBin, iRuns, confVars, updateVars, iHealthy, restoreVars, iBefore, iOutcome, backupVars,
                 iOps, iFaults>>

RollbackReplaces ==
  /\ iPc = "rollbackCopied"
  /\ iBin' = iTmp /\ iTmp' = "none" /\ Goto("rollbackConf")
  /\ iLeft' = {f \in IFiles : iSnaps[iPick].conf[f] # "none"}
  /\ UNCHANGED <<iRuns, confVars, iSnaps, iPick, iArchive, iTrusted, iHealthy, iBefore, iOutcome,
                 restoreVars, backupVars, iOps, iFaults>>

(* copyTree, file over file, each opened empty and then written; one that   *)
(* the snapshot does not hold stays.                                        *)
RollbackConfig(f) ==
  /\ iPc = "rollbackConf" /\ f \in iLeft
  /\ IF iConf[f] = "part"
     THEN iConf' = [iConf EXCEPT ![f] = iSnaps[iPick].conf[f]] /\ iLeft' = iLeft \ {f}
     ELSE iConf' = [Made(iConf) EXCEPT ![f] = "part"] /\ UNCHANGED iLeft
  /\ UNCHANGED <<programVars, iAside, iStage, iSnaps, iPick, iArchive, iTrusted, iPc, iHealthy, iBefore,
                 iOutcome, restoreVars, backupVars, iOps, iFaults>>

RollbackRestarts ==
  /\ iPc = "rollbackConf" /\ iLeft = {}
  /\ iConf' = Made(iConf) /\ iRuns' = iBin
  /\ Ends("rolledBack")
  /\ UNCHANGED <<iBin, iTmp, iAside, iStage, updateVars, iHealthy, iBefore, restoreVars, backupVars, iOps,
                 iFaults>>

(* A copy or the rename fails: what was done stays, nothing is restarted,   *)
(* and an update says that its rollback failed too.                         *)
RollbackFails ==
  /\ \/ iPc = "rollback" /\ iTmp' = "part"
     \/ iPc = "rollbackCopied" /\ iTmp' = "none"
     \/ iPc = "rollbackConf" /\ UNCHANGED iTmp
  /\ Fault /\ Ends("rollbackFailed")
  /\ UNCHANGED <<iBin, iRuns, confVars, updateVars, iHealthy, iBefore, restoreVars, backupVars, iOps>>

-----------------------------------------------------------------------------
(* Restore: a copy of the configuration, the archive over it, two renames. *)

Overlay(conf, archive) == [f \in IFiles |-> IF archive[f] = "none" THEN conf[f] ELSE archive[f]]

(* A directory that is not there is made.  The archive is read to its end,  *)
(* or refused: a name used twice or outside the directory, too large,       *)
(* truncated.                                                               *)
stageRestore(archive) ==
  /\ Starts("staged")
  /\ iConf' = Made(iConf) /\ iStage' = Overlay(iConf', archive)
  /\ iBare' = (iBare \/ iConf \in Nothing)
  /\ UNCHANGED <<programVars, iAside, updateVars, iHealthy, iLast, backupVars, iFaults>>

(* stageRestore's refusals, and commitRestore's when the staged directory   *)
(* cannot be given its mode.                                                *)
stageRefused ==
  /\ iPc = "staged"
  /\ Ends("failed") /\ iStage' = NoDir
  /\ UNCHANGED <<programVars, iConf, iAside, updateVars, iHealthy, iBefore, restoreVars, backupVars, iOps,
                 iFaults>>

(* commitRestore: what an earlier one left aside goes ...                   *)
RemovePrevious ==
  /\ iPc = "staged"
  /\ iAside' = NoDir /\ Goto("removed")
  /\ UNCHANGED <<programVars, iConf, iStage, updateVars, iHealthy, iBefore, iOutcome, restoreVars,
                 backupVars, iOps, iFaults>>

(* ... the present one moves aside ...                                      *)
MoveAside ==
  /\ iPc = "removed"
  /\ \/ /\ iAside' = iConf /\ iConf' = NoDir /\ iLast' = iConf /\ Goto("aside")
        /\ UNCHANGED <<iStage, iOutcome, iFaults>>
     \/ /\ iStage' = NoDir /\ Fault /\ Ends("failed")
        /\ UNCHANGED <<iConf, iAside, iLast>>
  /\ UNCHANGED <<programVars, updateVars, iHealthy, iBefore, iBare, backupVars, iOps>>

(* ... the staged one takes its place, or the present one comes back, or    *)
(* that fails too and it stays aside.                                       *)
commitRestore ==
  /\ iPc = "aside"
  /\ \/ iConf' = iStage /\ Goto("placed") /\ UNCHANGED <<iAside, iOutcome, iFaults>>
     \/ iConf' = iAside /\ iAside' = NoDir /\ Fault /\ Ends("failed")
     \/ UNCHANGED <<iConf, iAside>> /\ Fault /\ Ends("stranded")
  /\ iStage' = NoDir
  /\ UNCHANGED <<programVars, updateVars, iHealthy, iBefore, restoreVars, backupVars, iOps>>

RemoveAside ==
  /\ iPc = "placed"
  /\ iAside' = NoDir /\ Goto("committed")
  /\ UNCHANGED <<programVars, iConf, iStage, updateVars, iHealthy, iBefore, iOutcome, restoreVars,
                 backupVars, iOps, iFaults>>

(* The services are restarted when the archive held a tunnel, and a failure *)
(* is only counted.                                                         *)
RestoreRestarts ==
  /\ iPc = "committed"
  /\ iRuns' \in {iRuns, iBin} /\ Ends("restored")
  /\ UNCHANGED <<iBin, iTmp, confVars, updateVars, iHealthy, iBefore, restoreVars, backupVars, iOps,
                 iFaults>>

-----------------------------------------------------------------------------
(* publishBackup, by hand or each week. *)

WriteBackup ==
  /\ iPartial = "none" /\ Len(iBackups) <= IBackupsKept
  /\ iPartial' = "part"
  /\ UNCHANGED <<programVars, confVars, updateVars, iPc, iHealthy, restoreVars, iBefore, iOutcome,
                 iBackups, iOps, iFaults>>

(* Written to its end and synced, or given up: a file went away.            *)
BackupWritten ==
  /\ iPartial = "part"
  /\ iPartial' \in {"whole", "none"}
  /\ UNCHANGED <<programVars, confVars, updateVars, iPc, iHealthy, restoreVars, iBefore, iOutcome,
                 iBackups, iOps, iFaults>>

(* Renamed to a free name; the oldest go.                                   *)
publishBackup ==
  /\ iPartial = "whole"
  /\ iBackups' = SubSeq(<<iPartial>> \o iBackups, 1,
                        IF Len(iBackups) < IBackupsKept THEN Len(iBackups) + 1 ELSE IBackupsKept)
  /\ iPartial' = "none"
  /\ UNCHANGED <<programVars, confVars, updateVars, iPc, iHealthy, restoreVars, iBefore, iOutcome, iOps,
                 iFaults>>

-----------------------------------------------------------------------------
(* The tool dies.  Its temporary files stay, and so does a directory that   *)
(* has been moved aside.                                                    *)
Dies ==
  /\ iPc # "idle" /\ Fault
  /\ Ends("died")
  /\ UNCHANGED <<programVars, confVars, updateVars, iHealthy, restoreVars, iBefore, backupVars, iOps>>

(* Between two tools the operator writes a file.                            *)
ChangeConf(f) ==
  /\ iPc = "idle" /\ iConf[f] # "c2"
  /\ iConf' = [Made(iConf) EXCEPT ![f] = "c2"] /\ iOutcome' = "none"
  /\ UNCHANGED <<programVars, iAside, iStage, updateVars, iPc, iHealthy, iBefore, restoreVars,
                 backupVars, iOps, iFaults>>

update ==
  \/ Download \/ verifyChecksum \/ FindLocalUpdate
  \/ TakeSnapshotBin \/ TakeSnapshotConf \/ TakeSnapshotMeta \/ TakeSnapshotFails
  \/ extractBinary \/ Replace \/ RestartAll \/ unhealthyAfterUpdate

rollback ==
  \/ \E i \in DOMAIN iSnaps : RollbackUpdate(i)
  \/ RollbackCopies \/ RollbackReplaces \/ RollbackRestarts \/ RollbackFails
  \/ \E f \in IFiles : RollbackConfig(f)

Restore ==
  \/ \E archive \in [IFiles -> {"c2", "none"}] : stageRestore(archive)
  \/ stageRefused \/ RemovePrevious \/ MoveAside \/ commitRestore \/ RemoveAside \/ RestoreRestarts

backup == WriteBackup \/ BackupWritten \/ publishBackup

tools == update \/ rollback \/ Restore \/ Dies \/ \E f \in IFiles : ChangeConf(f)

InstallNext == tools \/ backup

InstallSpec == InstallInit /\ [][InstallNext]_installVars

-----------------------------------------------------------------------------
(* Properties. *)

IContents == {"none", "c1", "c2", "part"}
IDirs == [IFiles -> IContents] \cup {NoDir}
IOutcomes == {"none", "updated", "failed", "rolledBack", "rollbackFailed", "restored", "stranded", "died"}
ISnaps == [bin : {"v1", "v2", "bad"}, conf : [IFiles -> IContents], meta : BOOLEAN]

InstallTypeOK ==
  /\ iBin \in {"v1", "v2", "bad", "part"} /\ iTmp \in {"none", "v1", "v2", "bad", "part"}
  /\ iRuns \in {"v1", "v2", "bad", "part"}
  /\ iConf \in IDirs /\ iAside \in IDirs /\ iStage \in IDirs
  /\ iSnaps \in Seq(ISnaps) /\ Len(iSnaps) <= IRetention + 1 + iFaults   \* each death may leave one
  /\ iLeft \subseteq IFiles
  /\ iOutcome \in IOutcomes
  /\ Len(iBackups) <= IBackupsKept

(* Whatever step a tool dies in, the program that the services are started  *)
(* from is a whole one, and one that no checksum vouched for came from an   *)
(* archive the operator put there; no backup under its final name is part   *)
(* of one.                                                                  *)
InstalledWhole ==
  /\ iBin # "part"
  /\ iBin = "bad" => ~iTrusted
  /\ \A i \in DOMAIN iBackups : iBackups[i] = "whole"

(* An update that fails its health check leaves program, services and       *)
(* configuration as it found them, unless its rollback fails and says so;   *)
(* a tool that fails earlier has touched nothing, but for an empty          *)
(* directory a restore makes where there was none.                          *)
RolledBack ==
  /\ iOutcome = "rolledBack" /\ iArchive # "none" =>
       iBin = iBefore.bin /\ iRuns = iBin /\ iConf = iBefore.conf
  /\ iOutcome = "failed" => iBin = iBefore.bin /\ iConf \in {iBefore.conf, Made(iBefore.conf)}

(* A restore is all or nothing: the configuration directory is the one      *)
(* before it or the whole new one, and while there is none, after a death   *)
(* between the renames or when the second and the way back both fail, the   *)
(* one before is aside.  One restore does lose it: the next that is started *)
(* with nothing in place removes the copy aside before it moves the empty   *)
(* directory there (iBare).                                                 *)
ConfigKept ==
  /\ iPc = "staged" => iConf = Made(iBefore.conf)
  /\ iConf \in Nothing /\ ~iBare => iAside = iLast /\ iAside \notin Nothing
  /\ iOutcome = "stranded" => iConf = NoDir /\ iAside = Made(iBefore.conf)
  /\ iOutcome = "restored" => \A f \in IFiles : iConf[f] \in {Made(iBefore.conf)[f], "c2"}
=============================================================================
