---------------------------- MODULE TrafficTotals ----------------------------
(***************************************************************************)
(* The traffic totals a tunnel reports: counters of the process, a         *)
(* Collector that adds them to what the metrics file held when it started, *)
(* and the file, written every half minute and at the end of a run.        *)
(*                                                                         *)
(* A new process starts its counters at zero.  A reload inside the process *)
(* starts another collector while the counters go on, and the collector of *)
(* the run before writes once more whenever its goroutine gets to it.      *)
(*                                                                         *)
(* A layer-3 tunnel counts its own traffic: its collector reports what the *)
(* Tunnel of this run has carried, instead of baseline and counters, and   *)
(* every run has a new Tunnel.                                             *)
(***************************************************************************)
EXTENDS Integers

CONSTANTS
  TKinds,         \* who counts: "counted" (metrics.AddBytes), "own" (the layer-3 tunnel)
  TMaxBytes,      \* bound: units of traffic
  TMaxProcesses,  \* bound: processes after the first
  TMaxReloads     \* bound: reloads

VARIABLES
  tKind,          \* who counts this tunnel's traffic
  tCarried,       \* history: what the tunnel has carried
  tForgotten,     \* history: what was carried and is in no total any more
  tBytes,         \* Traffic() of this process, Stats() of this run's layer-3 tunnel
  tBase,          \* baseIn and baseOut of the present collector
  tFile,          \* the total in the metrics file
  tOld,           \* the last run's collector: its base, or what its own tunnel carried; -1 once it has ended
  tProcesses, tReloads

trafficVars == <<tKind, tCarried, tForgotten, tBytes, tBase, tFile, tOld, tProcesses, tReloads>>

TrafficInit ==
  /\ tKind \in TKinds
  /\ tCarried = 0 /\ tForgotten = 0 /\ tBytes = 0 /\ tBase = 0 /\ tFile = 0 /\ tOld = -1
  /\ tProcesses = 0 /\ tReloads = 0

Carry ==
  /\ tCarried < TMaxBytes
  /\ tCarried' = tCarried + 1 /\ tBytes' = tBytes + 1
  /\ UNCHANGED <<tKind, tForgotten, tBase, tFile, tOld, tProcesses, tReloads>>

(* Snapshot: the baseline and what this process has carried, unless the     *)
(* engine gave accessors of its own, which replace the sum.                 *)
Total(base) == IF tKind = "own" THEN tBytes ELSE base + tBytes

OldTotal == IF tKind = "own" THEN tOld ELSE tOld + tBytes

CollectorWrites ==
  /\ tFile' = Total(tBase)
  /\ UNCHANGED <<tKind, tCarried, tForgotten, tBytes, tBase, tOld, tProcesses, tReloads>>

(* The final write of the run before.                                       *)
OldCollectorEnds ==
  /\ tOld >= 0
  /\ tFile' = OldTotal /\ tOld' = -1
  /\ UNCHANGED <<tKind, tCarried, tForgotten, tBytes, tBase, tProcesses, tReloads>>

noBaselineMutant == tBase' = 0

(* Carries on from whatever the file says.                                  *)
NewCollector == tBase' = tFile

(* The process ends, with its last write or without it, and another starts. *)
(* What the next total does not begin with is forgotten: what the file has  *)
(* not, or all of it where the tunnel counts its own.                       *)
ProcessRestarts ==
  /\ tProcesses < TMaxProcesses /\ tProcesses' = tProcesses + 1
  /\ \/ tFile' = Total(tBase) /\ tBase' = Total(tBase)
        /\ tForgotten' = tForgotten + (IF tKind = "own" THEN tBytes ELSE 0)
     \/ NewCollector /\ UNCHANGED tFile
        /\ tForgotten' = tForgotten + (IF tKind = "own" THEN tBytes ELSE Total(tBase) - tFile)
  /\ tBytes' = 0 /\ tOld' = -1
  /\ UNCHANGED <<tKind, tCarried, tReloads>>

(* The configuration changed: the next run's collector, in this process.    *)
ReloadCollector ==
  /\ tReloads < TMaxReloads /\ tReloads' = tReloads + 1
  /\ tOld = -1
  /\ NewCollector
  /\ IF tKind = "own"
     THEN tOld' = tBytes /\ tBytes' = 0 /\ tForgotten' = tForgotten + tBytes
     ELSE tOld' = tBase /\ UNCHANGED <<tBytes, tForgotten>>
  /\ UNCHANGED <<tKind, tCarried, tFile, tProcesses>>

TrafficNext == Carry \/ CollectorWrites \/ OldCollectorEnds \/ ProcessRestarts \/ ReloadCollector

TrafficSpec == TrafficInit /\ [][TrafficNext]_trafficVars

(* Across processes and reloads nothing a counted tunnel has carried leaves *)
(* its total, except what a killed process had not written yet; without a   *)
(* reload the total is exactly that.  A layer-3 tunnel's total is what its  *)
(* present run has carried and no more: it starts at zero with every run.   *)
TotalsGoOn ==
  /\ Total(tBase) >= tCarried - tForgotten
  /\ tReloads = 0 \/ tKind = "own" => Total(tBase) = tCarried - tForgotten

(* What NewCollector says: the live counters only know about this process,  *)
(* so baseline and counters together are what the tunnel has carried.       *)
TotalsTrue == Total(tBase) <= tCarried
=============================================================================
