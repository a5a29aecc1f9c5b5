---------------------------- MODULE MCL3Session ----------------------------
(***************************************************************************)
(* What carries the packets of an L3 tunnel, one part per behaviour: the   *)
(* session of the two ends, forward error correction and multipath.  The   *)
(* parts share no state, so a behaviour of one says all there is to say of *)
(* it while the others stand still.                                        *)
(***************************************************************************)
EXTENDS L3Session, Fec, Multipath

VARIABLE part

partVars == <<part, vars, fecvars, mpvars>>

PartInit ==
  /\ part \in {"session", "fec", "multipath"}
  /\ Init /\ FecInit /\ MpInit
  /\ part # "session" => sameEncap

(* The bounds of Fec and Multipath let them stop; a session never does.     *)
Stopped == part # "session" /\ UNCHANGED partVars

PartNext ==
  \/ part = "session" /\ Next /\ UNCHANGED <<part, fecvars, mpvars>>
  \/ part = "fec" /\ FecNext /\ UNCHANGED <<part, vars, mpvars>>
  \/ part = "multipath" /\ MpNext /\ UNCHANGED <<part, vars, fecvars>>
  \/ Stopped

PartSpec == PartInit /\ [][PartNext]_partVars

-----------------------------------------------------------------------------

(* The state of every part has its type.                                    *)
PartsTyped == TypeOK /\ FecTypeOK /\ MpTypeOK

(* fec.go, multipath.go: only packets the sender sent are handed up, each   *)
(* once as long as its group is remembered; a group of which enough shards  *)
(* came is handed up whole; and no path carries more than its share.        *)
DeliveryIsRight == FecSound /\ FecComplete /\ SharedEvenly
=============================================================================
