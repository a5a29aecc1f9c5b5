----------------------------- MODULE Multipath -----------------------------
(***************************************************************************)
(* Several sockets merged into one carrier (multipath.go): writes go to    *)
(* the paths in turn, a pump per path moves what arrives into one queue,   *)
(* a path that fails stops its pump and no other, and Close ends them all. *)
(***************************************************************************)
EXTENDS Integers

CONSTANTS
  MPaths,     \* number of paths
  MCounter,   \* the write counter wraps at this value (2^32 in the code)
  MQueue,     \* pathQueue
  MMaxWrites  \* bound: writes

ASSUME PathsAssumption == /\ MPaths \in Nat \ {0} /\ MCounter \in Nat \ {0}
                          /\ MQueue \in Nat /\ MMaxWrites \in Nat

VARIABLES
  mnext,      \* next
  msent,      \* history: writes each path took
  mwrites,    \* history: writes so far
  marrived,   \* datagrams waiting in each path's socket
  mpump,      \* "running", "failed" or "ended"
  min,        \* datagrams in the shared queue
  mclosed

mpvars == <<mnext, msent, mwrites, marrived, mpump, min, mclosed>>
Paths  == 0..MPaths - 1

MpInit ==
  /\ mnext = 0 /\ mwrites = 0
  /\ msent = [p \in Paths |-> 0] /\ marrived = [p \in Paths |-> FALSE]
  /\ mpump = [p \in Paths |-> "running"]
  /\ min = 0 /\ mclosed = FALSE

Turn(n) == n % MPaths

MpWriteTo ==
  /\ ~mclosed /\ mwrites < MMaxWrites
  /\ mnext' = (mnext + 1) % MCounter
  /\ msent' = [msent EXCEPT ![Turn(mnext)] = @ + 1] /\ mwrites' = mwrites + 1
  /\ UNCHANGED <<marrived, mpump, min, mclosed>>

MpArrives(p) ==
  /\ ~mclosed /\ ~marrived[p] /\ mpump[p] # "failed"
  /\ marrived' = [marrived EXCEPT ![p] = TRUE]
  /\ UNCHANGED <<mnext, msent, mwrites, mpump, min, mclosed>>

(* pump: into the queue, or dropped when the reader is behind.              *)
pump(p) ==
  /\ mpump[p] = "running" /\ marrived[p]
  /\ marrived' = [marrived EXCEPT ![p] = FALSE]
  /\ \/ mclosed /\ mpump' = [mpump EXCEPT ![p] = "ended"] /\ UNCHANGED min
     \/ min < MQueue /\ min' = min + 1 /\ UNCHANGED mpump
     \/ min = MQueue /\ ~mclosed /\ UNCHANGED <<min, mpump>>
  /\ UNCHANGED <<mnext, msent, mwrites, mclosed>>

(* The path's socket fails, or was closed.                                  *)
PumpEnds(p) ==
  /\ mpump[p] = "running"
  /\ mpump' = [mpump EXCEPT ![p] = IF mclosed THEN "ended" ELSE "failed"]
  /\ marrived' = [marrived EXCEPT ![p] = FALSE]
  /\ UNCHANGED <<mnext, msent, mwrites, min, mclosed>>

(* A deadline that passes changes nothing, and a closed carrier reads no    *)
(* more once its queue is empty.                                            *)
MpReadFrom ==
  /\ min > 0
  /\ min' = min - 1 
  /\ UNCHANGED <<mnext, msent, mwrites, marrived, mpump, mclosed>>

MpClose ==
  /\ ~mclosed /\ mclosed' = TRUE
  /\ UNCHANGED <<mnext, msent, mwrites, marrived, mpump, min>>

MpNext ==
  \/ MpWriteTo \/ MpReadFrom \/ MpClose
  \/ \E p \in Paths : MpArrives(p) \/ pump(p) \/ PumpEnds(p)

MpSpec == MpInit /\ [][MpNext]_mpvars

-----------------------------------------------------------------------------
MpTypeOK ==
  /\ mnext \in 0..MCounter - 1 /\ min \in 0..MQueue /\ mclosed \in BOOLEAN
  /\ mpump \in [Paths -> {"running", "failed", "ended"}]

(* Every path carries its share, also when the write counter wraps: two     *)
(* paths differ by one write, and by one more for each wrap.                *)
SharedEvenly ==
  \A p, q \in Paths : msent[p] - msent[q] <= 1 + mwrites \div MCounter
=============================================================================
