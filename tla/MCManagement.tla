---------------------------- MODULE MCManagement ----------------------------
(***************************************************************************)
(* What keeps a tunnel running on a machine, one part per behaviour: the   *)
(* process with its reload, editor and watchdog; update, rollback and      *)
(* restore; the backups; and the traffic totals.  The parts share no state,*)
(* so a behaviour of one says all there is to say of it while the others   *)
(* stand still.                                                            *)
(***************************************************************************)
EXTENDS Engine, Install, TrafficTotals

VARIABLE part

partVars == <<part, engineVars, installVars, trafficVars>>

(* The choices of a part that stands still are of no interest.              *)
PartInit ==
  /\ part \in {"engine", "install", "backup", "traffic"}
  /\ EngineInit /\ InstallInit /\ TrafficInit
  /\ part # "engine" => eFile = (CHOOSE c \in EGood : TRUE) /\ eSight = "engine"
  /\ part # "install" => iHealthy /\ iConf = [f \in IFiles |-> "c1"]
  /\ part # "traffic" => tKind = CHOOSE k \in TKinds : TRUE

PartNext ==
  /\ UNCHANGED part
  /\ \/ part = "engine" /\ EngineNext /\ UNCHANGED <<installVars, trafficVars>>
     \/ part = "install" /\ tools /\ UNCHANGED <<engineVars, trafficVars>>
     \/ part = "backup" /\ backup /\ UNCHANGED <<engineVars, trafficVars>>
     \/ part = "traffic" /\ TrafficNext /\ UNCHANGED <<engineVars, installVars>>

(* The fairness of Engine, in the behaviours that are of it.                *)
PartFairness ==
  /\ WF_engineVars(part = "engine" /\ process)
  /\ WF_engineVars(part = "engine" /\ WritesMetrics)
  /\ WF_engineVars(part = "engine" /\ RunWatchdog)
  /\ WF_engineVars(part = "engine" /\ CooldownOver)
  /\ WF_engineVars(part = "engine" /\ eEd # "idle" /\ editor)

PartSpec == PartInit /\ [][PartNext]_partVars /\ PartFairness

-----------------------------------------------------------------------------

(* The state of every part has its type.                                    *)
PartsTyped == EngineTypeOK /\ InstallTypeOK

(* update.go, snapshot.go, restore.go, backup.go: what is installed or      *)
(* published is whole, an update that fails its health check is undone, and *)
(* a restore that dies or fails leaves a configuration in place or aside.   *)
InstallIsRight == InstalledWhole /\ RolledBack /\ ConfigKept

(* cmd.go, reload.go, edit.go: in the end the process runs what its file    *)
(* says.                                                                    *)
EngineFollows == part = "engine" => FollowsFile
=============================================================================
