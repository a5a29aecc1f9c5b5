---------------------------- MODULE MCReverseLive ----------------------------
(***************************************************************************)
(* How the servers of the seven reverse transports come back to a control  *)
(* channel: each behaviour is of ReverseControl (tcp, tcpmux) or of        *)
(* ServerControl (the others), which share no state.                       *)
(***************************************************************************)
EXTENDS ReverseControl, ServerControl

VARIABLE side

serverVars == <<side, vars, ctlVars>>

ServerInit ==
  /\ side \in {"stream", "other"}
  /\ Init /\ CtlInit
  /\ side # "other" => ctlTransport = "udp"

(* Faults and clients are bounded: with none left the server may rest.      *)
Rests == side = "other" /\ UNCHANGED serverVars

ServerNext ==
  \/ side = "stream" /\ Next /\ UNCHANGED <<side, ctlVars>>
  \/ side = "other" /\ CtlNext /\ UNCHANGED <<side, vars>>
  \/ Rests

(* The fairness of each model, in the behaviours that are of it.            *)
StreamFairness ==
  /\ \A c \in Conns : /\ WF_vars(side = "stream" /\ Admission(c))
                      /\ WF_vars(side = "stream" /\ UsePoolConn(c))
                      /\ WF_vars(side = "stream" /\ Collect(c))
  /\ WF_vars(side = "stream" /\ RunStep)
  /\ \A k \in Clients : /\ WF_vars(side = "stream" /\ ClientStep(k))
                        /\ SF_vars(side = "stream" /\ Claim(k))

OtherFairness ==
  /\ \A c \in CtlConns : /\ WF_ctlVars(side = "other" /\ Notices(c))
                         /\ WF_ctlVars(side = "other" /\ CtlAdmission(c))
                         /\ WF_ctlVars(side = "other" /\ UsePool(c))
  /\ \A k \in CtlClients : SF_ctlVars(side = "other" /\ CtlClaim(k))
  /\ WF_ctlVars(side = "other" /\ (KcpStart \/ QuicStart))
  /\ WF_ctlVars(side = "other" /\ channelHandler)
  /\ WF_ctlVars(side = "other" /\ CtlRestart)
  /\ WF_ctlVars(side = "other" /\ OldListenerCloses)

ServerSpec == ServerInit /\ [][ServerNext]_serverVars /\ StreamFairness /\ OtherFairness

-----------------------------------------------------------------------------

(* tcp.go, tcpmux.go: after broken connections, restarts, rival claims and  *)
(* claims left behind in a buffer, the server and a client agree on a       *)
(* control channel again.                                                   *)
StreamReconnects == side = "stream" => Reconnects

(* kcp.go, quic.go, ws.go, wsmux.go, udp.go: so do the others, with claims  *)
(* that are answered and dropped and listeners that outlive their run.      *)
OtherAdopts == side = "other" => Adopts
=============================================================================
