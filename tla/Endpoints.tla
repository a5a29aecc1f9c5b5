------------------------------ MODULE Endpoints ------------------------------
(***************************************************************************)
(* The list of server addresses a reverse-tunnel client can dial, with its *)
(* three ways of choosing one: rotation on failure, spreading the pool, and*)
(* steering to the exit that scores best (endpoints.go, healthscore.go).   *)
(* Addresses are their positions; the cursors are kept modulo the length,  *)
(* which is all that is read of them.                                      *)
(***************************************************************************)
EXTENDS Integers, Sequences

CONSTANTS
  NumEndpoints,  \* addresses in the list
  NeedStreak     \* needStreak: checks in a row a challenger must win

ASSUME EndpointAssumption == NumEndpoints \in Nat \ {0} /\ NeedStreak \in Nat \ {0}

VARIABLES
  idx, spreadIdx, preferred,  \* the cursors
  steer, spread,              \* the modes
  candidate, streak,          \* steerLoop's locals
  verdicts                    \* history: what the latest checks said

endpointVars == <<idx, spreadIdx, preferred, steer, spread, candidate, streak, verdicts>>

Positions   == 0 .. NumEndpoints - 1
NoCandidate == -1

(* NewEndpoints, then SetSpread or EnableHealthSteering: not both, and no   *)
(* steering over a single address.                                          *)
EndpointsInit ==
  /\ idx = 0 /\ spreadIdx = 0 /\ preferred = 0
  /\ steer \in {FALSE, NumEndpoints > 1}
  /\ spread \in {FALSE, ~steer}
  /\ candidate = NoCandidate /\ streak = 0
  /\ verdicts = <<>>

Current == IF steer THEN preferred ELSE idx

stuckRotateMutant == UNCHANGED endpointVars

unwrappedRotateMutant ==
  /\ idx' = idx + 1
  /\ UNCHANGED <<preferred, spreadIdx, steer, spread, candidate, streak, verdicts>>

(* The control channel could not be dialled: step off the present address.  *)
Rotate ==
  /\ IF steer THEN preferred' = (preferred + 1) % NumEndpoints /\ UNCHANGED idx
              ELSE idx' = (idx + 1) % NumEndpoints /\ UNCHANGED preferred
  /\ UNCHANGED <<spreadIdx, steer, spread, candidate, streak, verdicts>>

(* The address a new data connection uses, and the cursor it advances.      *)
Next(at) ==
  /\ at = IF spread /\ NumEndpoints > 1 THEN spreadIdx ELSE Current
  /\ spreadIdx' = IF spread /\ NumEndpoints > 1 THEN (spreadIdx + 1) % NumEndpoints ELSE spreadIdx
  /\ UNCHANGED <<idx, preferred, steer, spread, candidate, streak, verdicts>>

-----------------------------------------------------------------------------
(* One check of steerLoop.  The exits in up answer the probe, best scores   *)
(* lowest of them, clear says whether it beats the present one by 15%.      *)

Steady == candidate' = NoCandidate /\ streak' = 0 /\ UNCHANGED preferred

(* How many checks in a row, this one included, best has won.               *)
won(best) == IF candidate = best THEN streak + 1 ELSE 1

Challenge(best, dead) ==
  IF dead \/ won(best) >= NeedStreak
  THEN preferred' = best /\ candidate' = NoCandidate /\ streak' = 0
  ELSE candidate' = best /\ streak' = won(best) /\ UNCHANGED preferred

Noted(best, wins, dead) ==
  verdicts' = SubSeq(<<[best |-> best, wins |-> wins, dead |-> dead]>> \o verdicts, 1,
                     IF Len(verdicts) < NeedStreak THEN Len(verdicts) + 1 ELSE NeedStreak)

steerLoop(up, best, clear) ==
  /\ steer
  /\ \/ up = {} /\ UNCHANGED <<preferred, candidate, streak, verdicts>>
     \/ /\ best \in up
        /\ Noted(best, best # preferred /\ (clear \/ preferred \notin up), preferred \notin up)
        /\ IF best = preferred \/ (preferred \in up /\ ~clear)
           THEN Steady ELSE Challenge(best, preferred \notin up)
  /\ UNCHANGED <<idx, spreadIdx, steer, spread>>

(* steerLoop leaves an exit that answers only for one that was clearly      *)
(* better in NeedStreak checks in a row: one bad sample moves nothing,      *)
(* whatever failed dials do to the preferred exit in between.               *)
SteersWhenEarned ==
  preferred' # preferred =>
    \/ verdicts'[1].dead
    \/ /\ Len(verdicts') = NeedStreak
       /\ \A i \in 1 .. NeedStreak : verdicts'[i].best = preferred' /\ verdicts'[i].wins

Verdict == [best : Positions, wins : BOOLEAN, dead : BOOLEAN]

EndpointsTypeOK ==
  /\ idx \in Positions /\ spreadIdx \in Positions /\ preferred \in Positions
  /\ steer \in BOOLEAN /\ spread \in BOOLEAN
  /\ candidate \in Positions \cup {NoCandidate} /\ streak \in 0 .. NeedStreak - 1
  /\ verdicts \in Seq(Verdict) /\ Len(verdicts) <= NeedStreak
=============================================================================
