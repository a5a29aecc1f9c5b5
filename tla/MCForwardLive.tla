---------------------------- MODULE MCForwardLive ----------------------------
(***************************************************************************)
(* What becomes of a forwarded connection, one half per behaviour: the     *)
(* server that queues and pairs it, and the relay that carries it once it  *)
(* is paired.  The halves share no state, so a behaviour of one says all   *)
(* there is to say of it while the other stands still.                     *)
(***************************************************************************)
EXTENDS ReverseForward, Relay

VARIABLE half

HalfInit ==
  /\ half \in {"pairing", "relay"}
  /\ Init /\ RelayInit
  /\ half # "pairing" => transport = "tcp"
  /\ half # "relay" => relayKind = "buffered"

HalfNext ==
  \/ half = "pairing" /\ Next /\ UNCHANGED <<half, relayVars>>
  \/ half = "relay" /\ RelayNext /\ UNCHANGED <<half, vars>>

(* The fairness of each half, in the behaviours that are of it.             *)
HalfFairness ==
  /\ \A h \in Handlers : SF_vars(half = "pairing" /\ handleLoop(h))
  /\ \A t \in Tunnels : SF_vars(half = "pairing" /\ SessionStep(t))
  /\ \A l \in Locals : WF_vars(half = "pairing" /\ Age(l))
  /\ WF_vars(half = "pairing" /\ TakeSession)
  /\ WF_vars(half = "pairing" /\ Restart)
  /\ \A d \in Directions : WF_relayVars(half = "relay" /\ CopyStep(d))
  /\ WF_relayVars(half = "relay" /\ (FirstEnds \/ Returns))

HalfSpec == HalfInit /\ [][HalfNext]_<<half, vars, relayVars>> /\ HalfFairness

-----------------------------------------------------------------------------

(* tcp_handler.go, ws_handler.go, splice_linux.go, client/udpforward.go: a  *)
(* relay hands on what was sent, in order and without a gap, and leaves     *)
(* nothing open when it returns.                                            *)
RelayIsRight == RelayTypeOK /\ RelayFaithful /\ QuietReturn

(* handleLoop, handleSession and the relays: every connection that was let  *)
(* in is carried or closed in the end, and a relay returns when a peer      *)
(* closes or the run ends.                                                  *)
NothingIsStuck == Settles /\ RelayReturns
=============================================================================
