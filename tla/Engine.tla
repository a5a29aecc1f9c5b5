------------------------------- MODULE Engine -------------------------------
(***************************************************************************)
(* One tunnel's process and everything that changes it: Run reads the      *)
(* configuration file, runs the engine and polls the file for a change;    *)
(* applySpec and applyRawConfig write the file, restart the service and    *)
(* put the previous file back when it does not come up; the watchdog       *)
(* restarts a service that is running and not connected; an operator edits *)
(* the file by hand.                                                       *)
(*                                                                         *)
(* A configuration is one that comes up, one the engine exits on, or one   *)
(* whose runs fail and are tried again in the process.  A file is          *)
(* truncated before it is written, and an empty file parses: it configures *)
(* nothing, and the engine exits on it.  Half a line does not parse.       *)
(***************************************************************************)
EXTENDS Integers, Sequences

CONSTANTS
  EGood, EFatal, EFailing,   \* configurations, by what becomes of them
  EKeep,                     \* confHistKeep (ten)
  EMaxWrites,                \* bound: edits, by hand or with the tool
  EMaxFaults                 \* bound: hangs, restarts that fail, ports still held

(* confHistKeep is positive: the history holds the newest change at least.   *)
ASSUME EKeepAssumption == EKeep \in Nat \ {0}

EConfigs == EGood \cup EFatal \cup EFailing
EFiles   == EConfigs \cup {"empty", "torn"}
wdThreshold == 2

VARIABLES
  eFile,               \* the file
  eProc,               \* the process: see EProcs
  eCfg, eNext,         \* the configuration it runs, and the one it turns to
  eChanged,            \* the file's size and time are not those of the fingerprint kept
  eUp,                 \* the tunnel carries traffic
  eHung,               \* it has stopped doing so and will not by itself
  eSaid,               \* Connected, in the metrics file
  eEd,                 \* the editor's step
  eOld, eNew, eWas,    \* what it read, what it writes, whether the service ran
  eHist,               \* the tunnel's configuration history, newest first
  eOutcome,            \* of the last edit
  eFails, eSeen, eCool,  \* the watchdog: fails, seenHealthy, the cooldown is over
  eSight,              \* what it judges this tunnel by: "engine" (its own word), "sockets"
  eWrites, eFaults,
  eMissed              \* history: the last write came while nobody compared

fileVars  == <<eFile, eChanged, eWrites, eMissed>>
procVars  == <<eProc, eCfg, eNext, eUp, eHung, eSaid>>
editVars  == <<eEd, eOld, eNew, eWas, eHist, eOutcome>>
watchVars == <<eFails, eSeen, eCool, eSight>>
engineVars == <<fileVars, procVars, editVars, watchVars, eFaults>>

(* "off" is stopped; "dead" waits for the service manager; "boot" is        *)
(* started; "read" has a configuration and not yet a fingerprint; "watch"   *)
(* polls; "stat" has seen the file change; "stop" ends one run for the next.*)
EProcs == {"off", "dead", "boot", "read", "watch", "stat", "stop"}

EngineInit ==
  /\ eFile \in EGood /\ eChanged = FALSE
  /\ eProc = "boot" /\ eCfg = eFile /\ eNext = eFile
  /\ eUp = FALSE /\ eHung = FALSE /\ eSaid = FALSE
  /\ eEd = "idle" /\ eOld = eFile /\ eNew = eFile /\ eWas = TRUE
  /\ eHist = <<>> /\ eOutcome = "none"
  /\ eFails = 0 /\ eSeen = FALSE /\ eCool = TRUE /\ eSight \in {"engine", "sockets"}
  /\ eWrites = 0 /\ eFaults = 0 /\ eMissed = FALSE

EFault == eFaults < EMaxFaults /\ eFaults' = eFaults + 1

-----------------------------------------------------------------------------
(* The service manager: Type=simple, Restart=always. *)

IsActive == eProc \notin {"off", "dead"}

Becomes(st) ==
  /\ eProc' = st /\ eUp' = FALSE /\ eHung' = FALSE
  /\ eNext' = eCfg /\ UNCHANGED <<eCfg, eSaid>>

RestartService == Becomes("boot")

Respawn ==
  /\ eProc = "dead"
  /\ Becomes("boot")
  /\ UNCHANGED <<fileVars, editVars, watchVars, eFaults>>

-----------------------------------------------------------------------------
(* cmd.go and reload.go *)

(* loadConfig, at the start of the process; it exits on one that does not   *)
(* parse.  startMetrics writes its first reading at once.                   *)
Run ==
  /\ eProc = "boot"
  /\ IF eFile = "torn"
     THEN eProc' = "dead" /\ UNCHANGED <<eCfg, eNext, eSaid>>
     ELSE eProc' = "read" /\ eCfg' = eFile /\ eNext' = eFile /\ eSaid' = FALSE
  /\ UNCHANGED <<fileVars, eUp, eHung, editVars, watchVars, eFaults>>

(* runEngine, beside the watching of the file: the tunnel comes up ...      *)
runEngine ==
  /\ eProc \in {"read", "watch", "stat"} /\ eCfg \in EGood /\ ~eUp /\ ~eHung
  /\ eUp' = TRUE
  /\ UNCHANGED <<fileVars, eProc, eCfg, eNext, eHung, eSaid, editVars, watchVars, eFaults>>

(* ... or the process exits on a configuration that cannot be used.  A run  *)
(* of the direct or the layer-3 tunnel that fails is tried again in five    *)
(* seconds: nothing changes.                                                *)
Fatal ==
  /\ eProc \in {"read", "watch", "stat"} /\ eCfg \in EFatal \cup {"empty"}
  /\ Becomes("dead")
  /\ UNCHANGED <<fileVars, editVars, watchVars, eFaults>>

(* It stops carrying traffic and does not recover.                          *)
Hangs ==
  /\ eUp /\ EFault
  /\ eUp' = FALSE /\ eHung' = TRUE
  /\ UNCHANGED <<fileVars, eProc, eCfg, eNext, eSaid, editVars, watchVars>>

WritesMetrics ==
  /\ eProc \in {"read", "watch", "stat"}
  /\ eSaid # eUp /\ eSaid' = eUp
  /\ UNCHANGED <<fileVars, eProc, eCfg, eNext, eUp, eHung, editVars, watchVars, eFaults>>

(* awaitConfigChange takes its first fingerprint: of the file as it is now, *)
(* not as it was read.                                                      *)
FirstFingerprint ==
  /\ eProc = "read"
  /\ eProc' = "watch" /\ eChanged' = FALSE
  /\ UNCHANGED <<eFile, eWrites, eMissed, eCfg, eNext, eUp, eHung, eSaid, editVars, watchVars, eFaults>>

(* A poll that finds another fingerprint remembers it ...                   *)
Poll ==
  /\ eProc = "watch" /\ eChanged
  /\ eProc' = "stat" /\ eChanged' = FALSE
  /\ UNCHANGED <<eFile, eWrites, eMissed, eCfg, eNext, eUp, eHung, eSaid, editVars, watchVars, eFaults>>

blindReloadMutant ==
  /\ eProc = "stat"
  /\ eProc' = "watch" /\ UNCHANGED <<eNext, eUp, eHung>>
  /\ UNCHANGED <<fileVars, eCfg, eSaid, editVars, watchVars, eFaults>>

(* ... and reads the file.  One that does not parse, or that means the      *)
(* same, leaves the tunnel alone; for another one the run is cancelled.     *)
Reload ==
  /\ eProc = "stat"
  /\ \/ /\ eFile \in {"torn", eCfg}
        /\ eProc' = "watch" /\ UNCHANGED <<eNext, eUp, eHung>>
     \/ /\ eFile \notin {"torn", eCfg}
        /\ eProc' = "stop" /\ eNext' = eFile /\ eUp' = FALSE /\ eHung' = FALSE
  /\ UNCHANGED <<fileVars, eCfg, eSaid, editVars, watchVars, eFaults>>

(* The run has ended and its ports are free, or portSettleTimeout is over   *)
(* and the next one starts anyway, into a port that may still be held.      *)
waitForPorts ==
  /\ eProc = "stop"
  /\ \/ eProc' = "read" /\ eCfg' = eNext /\ eSaid' = FALSE /\ UNCHANGED eFaults
     \/ eProc' = "dead" /\ EFault /\ eCfg' = eNext /\ UNCHANGED eSaid
  /\ UNCHANGED <<fileVars, eNext, eUp, eHung, editVars, watchVars>>

-----------------------------------------------------------------------------
(* Writing the file. *)

Write(content) ==
  /\ eFile' = content /\ eChanged' = TRUE
  /\ eMissed' = (eProc \in {"read", "stop"})

(* By hand, whatever an editor or a copy leaves.                            *)
HandEdit(content) ==
  /\ eEd = "idle" /\ eWrites < EMaxWrites /\ eWrites' = eWrites + 1
  /\ Write(content)
  /\ eOutcome' = "none" /\ eOld' = content /\ eNew' = content /\ eWas' = TRUE
  /\ UNCHANGED <<procVars, eEd, eHist, watchVars, eFaults>>

(* An edit with the tool begins: the file is read, and truncated to be      *)
(* written.                                                                 *)
Begin(content) ==
  /\ eEd = "idle" /\ eWrites < EMaxWrites /\ eWrites' = eWrites + 1
  /\ eOld' = eFile /\ eNew' = content /\ eWas' = IsActive /\ eOutcome' = "none"
  /\ Write("empty") /\ eEd' = "truncated"
  /\ UNCHANGED <<procVars, eHist, watchVars, eFaults>>

applySpec(content) == Begin(content)

(* RestoreConfigFrom: an entry of the history.                              *)
applyRawConfig == \E i \in DOMAIN eHist : Begin(eHist[i])

Written ==
  /\ eEd = "truncated"
  /\ Write(eNew) /\ eEd' = "written"
  /\ UNCHANGED <<eWrites, procVars, eOld, eNew, eWas, eHist, eOutcome, watchVars, eFaults>>

(* The rest of Save: the unit is enabled and started.                       *)
Save ==
  /\ eEd = "written"
  /\ eEd' = "saved"
  /\ IF eProc = "off" THEN Becomes("boot") ELSE UNCHANGED procVars
  /\ UNCHANGED <<fileVars, eFaults, eOld, eNew, eWas, eHist, eOutcome, watchVars>>

(* When the write or the rest fails, the previous file is put back and      *)
(* nothing is restarted.                                                    *)
SaveFails ==
  /\ eEd \in {"truncated", "written"} /\ EFault
  /\ Write("empty") /\ eEd' = "putBack"
  /\ UNCHANGED <<eWrites, procVars, eOld, eNew, eWas, eHist, eOutcome, watchVars>>

(* os.WriteFile of the previous file, whose error nobody looks at: on a     *)
(* full disk the file stays as far as it was written.                       *)
WriteOld(spoilt) == \E rest \in (IF spoilt THEN {"empty", "torn"} ELSE {eOld}) : Write(rest)

PutBack ==
  /\ eEd = "putBack"
  /\ \E spoilt \in BOOLEAN : WriteOld(spoilt) /\ eOutcome' = IF spoilt THEN "spoilt" ELSE "refused"
  /\ eEd' = "idle"
  /\ UNCHANGED <<eWrites, procVars, eOld, eNew, eWas, eHist, watchVars, eFaults>>

EditRestarts ==
  /\ eEd = "saved"
  /\ \/ eEd' = "waiting" /\ RestartService /\ UNCHANGED <<fileVars, eFaults>>
     \/ eEd' = "reverting" /\ EFault /\ Write("empty") /\ UNCHANGED <<eWrites, procVars>>
  /\ UNCHANGED <<eOld, eNew, eWas, eHist, eOutcome, watchVars>>

keepsAllMutant == IF eOld = "empty" THEN eHist ELSE <<eOld>> \o eHist

(* An empty file is not remembered; the oldest entries go.                  *)
recordConfigChange ==
  IF eOld = "empty" THEN eHist
  ELSE SubSeq(<<eOld>> \o eHist, 1, IF Len(eHist) < EKeep THEN Len(eHist) + 1 ELSE EKeep)

(* WaitServiceActive: once seen active, it has come up.                     *)
Confirm ==
  /\ eEd = "waiting" /\ IsActive
  /\ eEd' = "idle" /\ eOutcome' = "applied"
  /\ eHist' = recordConfigChange
  /\ UNCHANGED <<fileVars, procVars, eOld, eNew, eWas, watchVars, eFaults>>

TimesOut ==
  /\ eEd = "waiting" /\ ~IsActive
  /\ eEd' = "reverting" /\ Write("empty")
  /\ UNCHANGED <<eWrites, procVars, eOld, eNew, eWas, eHist, eOutcome, watchVars, eFaults>>

leavesNewMutant ==
  /\ eEd = "reverting"
  /\ Write(eNew) /\ eEd' = "reverted"
  /\ UNCHANGED <<eWrites, procVars, eOld, eNew, eWas, eHist, eOutcome, watchVars, eFaults>>

(* revertSpec: the previous file, and the service as it was.                *)
Revert ==
  /\ eEd = "reverting"
  /\ \/ WriteOld(FALSE) /\ eEd' = "reverted" /\ UNCHANGED eFaults
     \/ WriteOld(TRUE) /\ eEd' = "spoilt" /\ EFault
  /\ UNCHANGED <<eWrites, procVars, eOld, eNew, eWas, eHist, eOutcome, watchVars>>

RevertRestarts ==
  /\ eEd \in {"reverted", "spoilt"}
  /\ eEd' = "idle" /\ eOutcome' = IF eEd = "reverted" THEN "refused" ELSE "spoilt"
  /\ IF eWas THEN RestartService ELSE Becomes("off")
  /\ UNCHANGED <<fileVars, eOld, eNew, eWas, eHist, watchVars, eFaults>>

(* The operator stops the service.                                          *)
StopService ==
  /\ eProc # "off" /\ eEd = "idle" /\ EFault
  /\ Becomes("off")
  /\ UNCHANGED <<fileVars, editVars, watchVars>>

editor ==
  \/ \E content \in EConfigs : applySpec(content)
  \/ applyRawConfig
  \/ Written \/ Save \/ SaveFails \/ PutBack \/ EditRestarts \/ Confirm \/ TimesOut \/ Revert \/ RevertRestarts

-----------------------------------------------------------------------------
(* RunWatchdog. *)

(* One look at the tunnel.  It acts on the second unhealthy look in a row   *)
(* at a tunnel it has seen healthy, and not again before the cooldown.      *)
Look(healthy) ==
  \/ /\ ~IsActive
     /\ eFails' = 0 /\ UNCHANGED <<eSeen, eCool, procVars>>
  \/ /\ IsActive /\ healthy
     /\ eFails' = 0 /\ eSeen' = TRUE /\ UNCHANGED <<eCool, procVars>>
  \/ /\ IsActive /\ ~healthy /\ eSeen
     /\ IF eFails + 1 >= wdThreshold /\ eCool
        THEN eFails' = 0 /\ eCool' = FALSE /\ RestartService
        ELSE /\ eFails' = (IF eFails < wdThreshold THEN eFails + 1 ELSE eFails)
             /\ UNCHANGED <<eCool, procVars>>
     /\ UNCHANGED eSeen

(* tunnelHealthy: what the engine says of itself, or, when that is too old, *)
(* what the system's connections show.  A direct tunnel is judged by its    *)
(* sockets alone, which may be there though nothing is carried, and one     *)
(* there is no evidence about counts as healthy.                            *)
RunWatchdog ==
  /\ \E healthy \in (IF eSight = "engine" THEN {eSaid, eUp} ELSE {eUp, TRUE}) : Look(healthy)
  /\ UNCHANGED <<fileVars, editVars, eSight, eFaults>>

(* Three minutes: longer than a process takes to be started and a tunnel    *)
(* that can come up takes to do so and to say it.                           *)
Settled == eProc \in {"off", "watch"} /\ eSaid = eUp /\ (eCfg \in EGood => eUp \/ eHung)

CooldownOver ==
  /\ ~eCool /\ eCool' = TRUE
  /\ Settled \/ eCfg \notin EGood
  /\ UNCHANGED <<fileVars, procVars, editVars, eFails, eSeen, eSight, eFaults>>

-----------------------------------------------------------------------------
process ==
  \/ Respawn \/ Run \/ runEngine \/ Fatal \/ FirstFingerprint \/ Poll \/ Reload \/ waitForPorts

EngineNext ==
  \/ process \/ Hangs \/ WritesMetrics \/ StopService
  \/ \E content \in EConfigs \cup {"torn"} : HandEdit(content)
  \/ editor \/ RunWatchdog \/ CooldownOver

(* The process, the editor once begun, the watchdog's and the metrics'      *)
(* timers.                                                                  *)
EngineFairness ==
  /\ WF_engineVars(process) /\ WF_engineVars(WritesMetrics)
  /\ WF_engineVars(RunWatchdog) /\ WF_engineVars(CooldownOver)
  /\ WF_engineVars(eEd # "idle" /\ editor)

EngineSpec == EngineInit /\ [][EngineNext]_engineVars /\ EngineFairness

-----------------------------------------------------------------------------
(* Properties. *)

EngineTypeOK ==
  /\ eFile \in EFiles /\ eChanged \in BOOLEAN /\ eProc \in EProcs
  /\ eCfg \in EFiles /\ eNext \in EFiles
  /\ eUp \in BOOLEAN /\ eHung \in BOOLEAN /\ eSaid \in BOOLEAN
  /\ eEd \in {"idle", "truncated", "written", "saved", "putBack", "waiting", "reverting", "reverted", "spoilt"}
  /\ eOld \in EFiles /\ eNew \in EFiles /\ eWas \in BOOLEAN
  /\ eHist \in Seq(EFiles) /\ Len(eHist) <= EKeep
  /\ eOutcome \in {"none", "applied", "refused", "spoilt"}
  /\ eFails \in 0 .. wdThreshold /\ eSeen \in BOOLEAN /\ eCool \in BOOLEAN
  /\ eSight \in {"engine", "sockets"}

(* Once an edit is over the file is one of the two it was about: the new    *)
(* one when it was applied, the one before it when it was not, and then     *)
(* what was there before is at hand: in place, or newest in the history.    *)
(* Only when the disk fails while it is put back is the file neither, which *)
(* the code does not notice (the outcome "spoilt").                         *)
EditIsUndoable ==
  /\ eOutcome = "refused" => eFile = eOld
  /\ eOutcome = "applied" => eFile = eNew /\ (eOld # "empty" => eHist # <<>> /\ Head(eHist) = eOld)

(* A configuration that works, in a file nobody touches any more, is what   *)
(* ends up running, through reloads, exits, hangs and reverted edits:       *)
(* unless the write came between the reading of the file and the            *)
(* fingerprint it is compared with, or the tunnel hung before the watchdog  *)
(* had ever seen it healthy, or it is judged by sockets that outlive it.    *)
FollowsFile ==
  \A c \in EGood :
    <>[](eFile = c /\ eEd = "idle" /\ ~eMissed /\ eProc # "off" /\ (eHung => eSeen /\ eSight = "engine"))
      => []<>(eUp /\ eCfg = c)

(* What applySpec says: a bad edit is never left in place.                  *)
BadEditReverted == eOutcome = "applied" => eFile \notin EFatal
=============================================================================
