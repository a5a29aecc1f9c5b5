----------------------------- MODULE MCSealedMtu -----------------------------
(***************************************************************************)
(* The sealed session and the search for the path MTU, one per behaviour:  *)
(* they share no state, so a behaviour of one says all there is to say of  *)
(* it while the other stands still.                                        *)
(***************************************************************************)
EXTENDS SealedSession, MtuProbe

VARIABLE layer

LayerInit ==
  /\ layer \in {"session", "mtu"}
  /\ Init /\ MtuInit
  /\ layer # "mtu" => session = FALSE /\ path = Max(Sizes)

LayerNext ==
  \/ layer = "session" /\ Next /\ UNCHANGED <<layer, mtuVars>>
  \/ layer = "mtu" /\ MtuNext /\ UNCHANGED <<layer, vars>>

(* The fairness of MtuProbe, in the behaviours that are of it.              *)
LayerFairness ==
  /\ WF_mtuVars(layer = "mtu" /\ sendProbe)
  /\ WF_mtuVars(layer = "mtu" /\ ProbeTimeout)
  /\ WF_mtuVars(layer = "mtu" /\ Interrupted)
  /\ WF_mtuVars(layer = "mtu" /\ Lose)

LayerSpec == LayerInit /\ [][LayerNext]_<<layer, vars, mtuVars>> /\ LayerFairness

-----------------------------------------------------------------------------

(* mtuprobe.go: no round returns more than the path carried while it ran,   *)
(* and on a path that held still it returns exactly the most that fits.     *)
SearchIsRight == MtuTypeOK /\ NeverAbovePath /\ ExactWhenUndisturbed
=============================================================================
