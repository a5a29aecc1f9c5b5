------------------------------ MODULE MCClient ------------------------------
(***************************************************************************)
(* The ends that dial, one part per behaviour: the client of a reverse     *)
(* tunnel with its endpoints, its pool of backends, and the edge of a      *)
(* direct tunnel with the forwarder it shares with the L3 tunnel.  The     *)
(* parts share no state, so a behaviour of one says all there is to say of *)
(* it while the others stand still.                                        *)
(***************************************************************************)
EXTENDS ClientControl, BackendPool, DirectTunnel, PortForward

VARIABLE part

partVars == <<part, vars, backendVars, dvars, pfvars>>

PartInit ==
  /\ part \in {"client", "backends", "direct", "forward"}
  /\ Init /\ BackendInit /\ DirectInit /\ PfInit
  /\ part # "client" => /\ transport = "tcp" /\ serverV2 /\ ~steer /\ ~spread
                        /\ \A e \in Positions : kind[e] = "good"
  /\ part # "direct" => dsame
  /\ part # "forward" => pfkind = "edge" /\ answering = {}

PartNext ==
  /\ UNCHANGED part
  /\ \/ part = "client" /\ Step /\ UNCHANGED <<backendVars, dvars, pfvars>>
     \/ part = "backends" /\ BackendNext /\ UNCHANGED <<vars, dvars, pfvars>>
     \/ part = "direct" /\ DirectNext /\ UNCHANGED <<vars, backendVars, pfvars>>
     \/ part = "forward" /\ PfNext /\ UNCHANGED <<vars, backendVars, dvars>>

(* The fairness of each part, in the behaviours that are of it.             *)
ClientFairness ==
  /\ WF_vars(part = "client" /\ (Claims \/ Retries \/ ((DialFails \/ NotSent) /\ UNCHANGED faults)))
  /\ SF_vars(part = "client" /\ Established)
  /\ WF_vars(part = "client" /\ (NoAnswer(transport \in AckRotates) \/ Refused) /\ UNCHANGED faults)
  /\ WF_vars(part = "client" /\ channelHandler)
  /\ WF_vars(part = "client" /\ Restart)

EdgeFairness ==
  /\ \A k \in DKeepers : WF_dvars(part = "direct" /\ KeeperStep(k))
  /\ \A c \in DConns : WF_dvars(part = "direct" /\ ConnStep(c))
  /\ \A s \in DStreams :
       /\ WF_dvars(part = "direct" /\ StreamStep(s))
       /\ WF_dvars(part = "direct" /\ streams[s].edge = "closed" /\ OriginPipeEnds(s))
       /\ WF_dvars(part = "direct" /\ streams[s].origin = "closed" /\ EdgePipeEnds(s))

ForwarderFairness ==
  /\ \A u \in PfUsers : WF_pfvars(part = "forward" /\ UserStep(u))
  /\ \A f \in PfFlows : WF_pfvars(part = "forward" /\ PumpStep(f))

PartSpec ==
  PartInit /\ [][PartNext]_partVars /\ ClientFairness /\ EdgeFairness /\ ForwarderFairness

-----------------------------------------------------------------------------

(* The state of every part has its type.                                    *)
PartsTyped == TypeOK /\ BackendTypeOK /\ DirectTypeOK /\ PfTypeOK

(* client channelDialer, legacyProbe, Endpoints, backendpool.go: a server   *)
(* that has once answered the current handshake is never sent the older     *)
(* one, the pool dials where the control channel is, and the map of backend *)
(* groups keeps its bound and what is in use.                               *)
ClientIsRight == NeverDowngraded /\ PoolFollowsControl /\ GroupsBounded

(* steerLoop, backendGroup.pick: steering moves only when a challenger has  *)
(* earned it, and picks are healthy and spread.                             *)
ChoicesAreRight == SteeringIsEarned /\ PicksSpread

(* client channelDialer: with one endpoint that works, the client gets its  *)
(* control channel up and keeps it once failures end, unless it comes to an *)
(* endpoint that refuses it, or is mute to a transport that stays with it:  *)
(* there it stays, though endpoints.go says it tries the next.              *)
ClientConnects == part = "client" => Connects

(* direct/edge.go, origin.go: the token is proved both ways before anything *)
(* is served, and a user is joined only to a backend that was reached.      *)
DirectIsRight == SessionsProved /\ JoinedToBackend

(* l3/forward.go, direct/edge.go: slots are counted exactly, the table and  *)
(* the pumps agree, and a connection that was given a session or needs none *)
(* is refused by its backends only if none answers or that session is gone. *)
ForwarderIsRight == SlotsCounted /\ FlowsTracked /\ RefusedForCause

(* direct/edge.go, l3/forward.go: once links stop failing every keeper has  *)
(* a session for good, and an edge or forwarder that is stopped leaves no   *)
(* session, slot or flow behind.                                            *)
ComesAndGoes ==
  /\ part = "direct" => SessionsComeUp
  /\ part = "forward" => AllReturn
=============================================================================
