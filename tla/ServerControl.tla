---------------------------- MODULE ServerControl ----------------------------
(***************************************************************************)
(* The control channel of a reverse tunnel's server for the transports     *)
(* that are not TCP (kcp, quic, ws, wsmux, udp): each files connections by *)
(* what they announce, adopts a client that dials again while it still     *)
(* holds the earlier control channel by restarting, and starts the run's   *)
(* handlers when it has one.  tcp and tcpmux are in ReverseControl.        *)
(*                                                                         *)
(* Only the present run is kept; a connection an earlier one accepted is   *)
(* stale.  The two seconds Restart sleeps are enough for a claim half way  *)
(* and for a Restart started with go to get on; that they are not is a     *)
(* fault.  A listener that cannot bind ends the process, which the service *)
(* manager starts again.                                                   *)
(***************************************************************************)
EXTENDS Integers, FiniteSetsExt

CONSTANTS
  CtlTransports,    \* the transports a behaviour may be of
  CtlConns,         \* connections that can exist at once: 1 .. n
  CtlClients,       \* processes that hold the token
  CtlChannelSize,   \* capacity of tunnelChannel
  MaxPending,    \* bound: Restarts that are remembered
  CtlMaxFaults      \* bound: control connections that break, goroutines that are late

ASSUME CtlConnAssumption == CtlConns \subseteq Nat \ {0}
ASSUME CtlSizeAssumption == CtlChannelSize \in Nat /\ MaxPending \in Nat /\ CtlMaxFaults \in Nat

Websocket == {"ws", "wsmux"}
Announced == {"kcp", "quic"}     \* every connection says what it is, with the token

VARIABLES
  ctlTransport,        \* chosen once
  ctlRun,              \* "starting", "waiting", "taken", "up", "stopping"
  ctlChannel,   \* the connection it holds, 0 for nil
  handler,          \* channelHandler and its reader run
  bound,            \* parsePortMappings has bound the forwarded ports
  accepting,        \* udp: channelHandshake's loop runs
  pending,          \* Restarts started with go
  ctlConns,
  oldListener,      \* ws: tunnelListener of an earlier run has yet to return
  ctlFaults

runVars == <<ctlRun, ctlChannel, handler, bound, accepting, oldListener>>
ctlVars    == <<ctlTransport, runVars, pending, ctlConns, ctlFaults>>

CtlFree == [st |-> "free", kind |-> "none", who |-> "nobody", stale |-> FALSE]

FirstRun(t) == IF t \in Announced THEN "starting" ELSE "waiting"

CtlInit ==
  /\ ctlTransport \in CtlTransports
  /\ ctlRun = FirstRun(ctlTransport)
  /\ ctlChannel = 0 /\ handler = FALSE /\ bound = FALSE
  /\ accepting = TRUE /\ oldListener = FALSE
  /\ pending = 0
  /\ ctlConns = [c \in CtlConns |-> CtlFree]
  /\ ctlFaults = 0

Min2(m, n) == IF m < n THEN m ELSE n
AskRestart == pending' = Min2(pending + 1, MaxPending)

IsSet   == ctlChannel # 0
Present == {c \in CtlConns : ctlConns[c].st = "pool"}

(* A closed claim is seen by its client; nobody waits for another one.      *)
Shut(cs, c) == [cs EXCEPT ![c] = IF @.who = "nobody" THEN CtlFree ELSE [@ EXCEPT !.st = "gone"]]
CtlClose(c)    == ctlConns' = Shut(ctlConns, c)
Backlog(cs) == [c \in CtlConns |-> IF ctlTransport = "udp" /\ cs[c].st = "open" THEN Shut(cs, c)[c] ELSE cs[c]]
CtlMove(c, st) == ctlConns' = [ctlConns EXCEPT ![c].st = st]

-----------------------------------------------------------------------------
(* The clients, as the server sees them. *)

Idle(k)   == \A c \in CtlConns : ctlConns[c].who = k => ctlConns[c].kind # "claim"
Listening == ctlRun \in {"starting", "waiting", "taken", "up"} /\ accepting

CtlFreeConns == {c \in CtlConns : ctlConns[c].st = "free"} \ {ctlChannel}
ctlNewConn   == CHOOSE c \in CtlFreeConns : TRUE

(* A client without a control connection dials one.  A websocket is         *)
(* answered by its upgrade.                                                 *)
CtlClaim(k) ==
  /\ Idle(k) /\ Listening /\ CtlFreeConns # {}
  /\ ctlConns' = [ctlConns EXCEPT ![ctlNewConn] =
       [st |-> IF ctlTransport \in Websocket THEN "acked" ELSE "open",
        kind |-> "claim", who |-> k, stale |-> FALSE]]
  /\ UNCHANGED <<ctlTransport, runVars, pending, ctlFaults>>

CtlDialPool ==
  /\ ctlTransport # "udp" /\ Listening /\ CtlFreeConns # {}
  /\ ctlConns' = [ctlConns EXCEPT ![ctlNewConn] =
       [st |-> "open", kind |-> "pool", who |-> "nobody", stale |-> FALSE]]
  /\ UNCHANGED <<ctlTransport, runVars, pending, ctlFaults>>

(* The client reads the end of its connection, or SG_Closed, or hears       *)
(* nothing for controlDeadline.                                             *)
Notices(c) ==
  /\ ctlConns[c].st = "gone"
  /\ ctlConns' = [ctlConns EXCEPT ![c] = CtlFree]
  /\ UNCHANGED <<ctlTransport, runVars, pending, ctlFaults>>

(* The path breaks; the client dials again before the server knows.         *)
CtlBreak(c) ==
  /\ ctlConns[c].kind = "claim" /\ ctlConns[c].who # "nobody" /\ ctlConns[c].st # "gone"
  /\ ctlFaults < CtlMaxFaults /\ ctlFaults' = ctlFaults + 1
  /\ ctlConns' = [ctlConns EXCEPT ![c].who = "nobody"]
  /\ UNCHANGED <<ctlTransport, runVars, pending>>

-----------------------------------------------------------------------------
(* A claim, in its own goroutine. *)

(* The token is answered before anything is looked at.                      *)
AnswerClaim(c) ==
  /\ ctlTransport \in Announced
  /\ ctlConns[c].st = "open" /\ ctlConns[c].kind = "claim"
  /\ CtlMove(c, "acked")
  /\ UNCHANGED <<ctlTransport, runVars, pending, ctlFaults>>

(* A control channel is held: the newcomer is closed and the run replaced.  *)
(* A websocket server closes the earlier connection at once.                *)
SecondClaim(c, closesFirst) ==
  /\ ctlConns[c].st = "acked" /\ IsSet
  /\ ctlConns' = IF closesFirst THEN Shut(Shut(ctlConns, ctlChannel), c) ELSE Shut(ctlConns, c)
  /\ AskRestart
  /\ UNCHANGED <<ctlTransport, runVars, ctlFaults>>

FirstClaim(c) ==
  /\ ctlConns[c].st = "acked" /\ ~IsSet
  /\ CtlMove(c, "checked")
  /\ UNCHANGED <<ctlTransport, runVars, pending, ctlFaults>>

(* The offer to start, which takes it only while it waits in its select.    *)
Offer(c) ==
  /\ ctlTransport \in Announced
  /\ ctlConns[c].st = "checked" /\ ctlConns[c].kind = "claim"
  /\ \/ /\ ctlRun = "waiting" /\ ~ctlConns[c].stale
        /\ CtlMove(c, "taken") /\ ctlRun' = "taken"
     \/ /\ ctlRun # "waiting" \/ ctlConns[c].stale
        /\ CtlClose(c) /\ UNCHANGED ctlRun
  /\ UNCHANGED <<ctlTransport, ctlChannel, handler, bound, accepting, oldListener, pending, ctlFaults>>

KcpAcceptSession(c) == ctlTransport = "kcp"  /\ (AnswerClaim(c) \/ SecondClaim(c, FALSE) \/ FirstClaim(c)
                                              \/ Offer(c))
QuicAcceptStream(c) == ctlTransport = "quic" /\ (AnswerClaim(c) \/ SecondClaim(c, FALSE) \/ FirstClaim(c)
                                              \/ Offer(c))

(* The process ends and is started again: the kernel closes everything.     *)
ProcessRestarts ==
  /\ ctlRun' = FirstRun(ctlTransport)
  /\ ctlChannel' = 0 /\ handler' = FALSE /\ bound' = FALSE
  /\ accepting' = TRUE /\ oldListener' = FALSE
  /\ pending' = 0
  /\ ctlConns' = [c \in CtlConns |-> IF ctlConns[c].who = "nobody" THEN CtlFree ELSE [ctlConns[c] EXCEPT !.st = "gone"]]

(* The websocket server's handler, past its check: whatever the channel     *)
(* holds by now is replaced, and the handlers of the run that accepted the  *)
(* connection start.  Binding ports that are bound ends the process.  The   *)
(* handler of a run that is over tells the client so and returns.           *)
SetControl(c) ==
  /\ ctlTransport \in Websocket
  /\ ctlConns[c].st = "checked" /\ ctlConns[c].kind = "claim"
  /\ \/ /\ bound
        /\ ProcessRestarts
     \/ /\ ~bound
        /\ ctlChannel' = c
        /\ LET held == IF IsSet THEN Shut(ctlConns, ctlChannel) ELSE ctlConns IN
           IF ctlConns[c].stale \/ ctlRun = "stopping"
           THEN /\ ctlConns' = [held EXCEPT ![c].st = IF @ = "checked" THEN "gone" ELSE @]
                /\ UNCHANGED <<ctlRun, handler, bound>>
           ELSE /\ ctlConns' = [held EXCEPT ![c].st = "control"]
                /\ ctlRun' = "up" /\ handler' = TRUE /\ bound' = TRUE
        /\ UNCHANGED <<accepting, oldListener, pending>>
  /\ UNCHANGED <<ctlTransport, ctlFaults>>

WsTunnelListener(c)    == ctlTransport = "ws"    /\ (SecondClaim(c, TRUE) \/ FirstClaim(c) \/ SetControl(c))
WsMuxTunnelListener(c) == ctlTransport = "wsmux" /\ (SecondClaim(c, TRUE) \/ FirstClaim(c) \/ SetControl(c))

(* udp takes one claim at a time: the first of a run becomes its control    *)
(* channel, a second one ends the loop and the run.  Those the loop has yet *)
(* to accept are closed with its listener.                                  *)
UdpHandshake(c) ==
  /\ ctlTransport = "udp"
  /\ ctlConns[c].st = "open" /\ ~ctlConns[c].stale /\ accepting
  /\ \/ /\ ctlRun = "waiting"
        /\ ctlChannel' = c /\ CtlMove(c, "control")
        /\ ctlRun' = "up" /\ handler' = TRUE /\ bound' = TRUE
        /\ UNCHANGED <<accepting, pending>>
     \/ /\ ctlRun = "up"
        /\ AskRestart
        /\ accepting' = FALSE /\ ctlConns' = Backlog(ctlConns)
        /\ UNCHANGED <<ctlChannel, ctlRun, handler, bound>>
  /\ UNCHANGED <<ctlTransport, oldListener, ctlFaults>>

-----------------------------------------------------------------------------
(* A pool connection. *)

(* kcp and quic turn it away while there is no control channel ...          *)
CheckPool(c) ==
  /\ ctlTransport \in Announced
  /\ ctlConns[c].st = "open" /\ ctlConns[c].kind = "pool"
  /\ IF IsSet THEN CtlMove(c, "checked") ELSE CtlClose(c)
  /\ UNCHANGED <<ctlTransport, runVars, pending, ctlFaults>>

anyRunMutant(c) ==
  IF Cardinality(Present) < CtlChannelSize
  THEN ctlConns' = [ctlConns EXCEPT ![c].st = "pool", ![c].stale = FALSE] ELSE CtlClose(c)

(* ... and file it with the run that accepted it, as long as it has room.   *)
Deliver(c) == IF ~ctlConns[c].stale /\ Cardinality(Present) < CtlChannelSize THEN CtlMove(c, "pool") ELSE CtlClose(c)

CtlAdmitPool(c) ==
  /\ ctlConns[c].kind = "pool"
  /\ ctlConns[c].st = IF ctlTransport \in Announced THEN "checked" ELSE "open"
  /\ Deliver(c)
  /\ UNCHANGED <<ctlTransport, runVars, pending, ctlFaults>>

UsePool(c) ==
  /\ ctlRun = "up" /\ ctlConns[c].st = "pool"
  /\ CtlClose(c)
  /\ UNCHANGED <<ctlTransport, runVars, pending, ctlFaults>>

-----------------------------------------------------------------------------
(* start and channelHandler. *)

(* start reaches its select.                                                *)
StartWaits ==
  /\ ctlRun = "starting"
  /\ ctlRun' = "waiting"
  /\ UNCHANGED <<ctlTransport, ctlChannel, handler, bound, accepting, oldListener, pending, ctlConns,
                 ctlFaults>>

CtlTaken == CHOOSE c \in CtlConns : ctlConns[c].st = "taken"

(* It has a control channel: the handlers start.                            *)
Publish ==
  /\ ctlRun = "taken"
  /\ ctlRun' = "up" /\ ctlChannel' = CtlTaken /\ CtlMove(CtlTaken, "control")
  /\ handler' = TRUE /\ bound' = TRUE
  /\ UNCHANGED <<ctlTransport, accepting, oldListener, pending, ctlFaults>>

KcpStart  == ctlTransport = "kcp"  /\ (StartWaits \/ Publish)
QuicStart == ctlTransport = "quic" /\ (StartWaits \/ Publish)

(* The control connection is found broken, by the reader or by a signal     *)
(* that cannot be sent, or the client says it is closing.                   *)
HandlerFails ==
  /\ handler /\ ctlRun = "up"
  /\ ctlConns[ctlChannel].who = "nobody" \/ ctlConns[ctlChannel].st = "gone"
  /\ handler' = FALSE
  /\ AskRestart
  /\ UNCHANGED <<ctlTransport, ctlRun, ctlChannel, bound, accepting, oldListener, ctlConns, ctlFaults>>

KcpChannelHandler   == ctlTransport = "kcp"   /\ HandlerFails
QuicChannelHandler  == ctlTransport = "quic"  /\ HandlerFails
WsChannelHandler    == ctlTransport = "ws"    /\ HandlerFails
WsMuxChannelHandler == ctlTransport = "wsmux" /\ HandlerFails
UdpChannelHandler   == ctlTransport = "udp"   /\ HandlerFails

-----------------------------------------------------------------------------
(* Restart. *)

AlreadyRestarting ==
  /\ pending > 0 /\ ctlRun = "stopping"
  /\ pending' = pending - 1
  /\ UNCHANGED <<ctlTransport, runVars, ctlConns, ctlFaults>>

(* The run is cancelled: its handler and listeners end, and the control     *)
(* connection is closed, if there is one.                                   *)
CtlRestartStops ==
  /\ pending > 0 /\ ctlRun # "stopping"
  /\ pending' = pending - 1
  /\ ctlRun' = "stopping"
  /\ handler' = FALSE /\ bound' = FALSE /\ accepting' = FALSE
  /\ oldListener' = (ctlTransport = "ws")
  /\ ctlConns' = Backlog(IF IsSet THEN Shut(ctlConns, ctlChannel) ELSE ctlConns)
  /\ UNCHANGED <<ctlTransport, ctlChannel, ctlFaults>>

(* What the next run leaves behind: connections in the channels of the last *)
(* one are lost, the ones being admitted go on.                             *)
CtlReplaced(c) ==
  IF ctlConns[c].st \in {"pool", "taken"} THEN Shut(ctlConns, c)[c]
  ELSE IF ctlConns[c].st = "free" THEN CtlFree ELSE [ctlConns[c] EXCEPT !.stale = TRUE]

(* Goroutines of the run that outlast the sleep.                            *)
Late ==
  \/ pending > 0
  \/ \E c \in CtlConns : ctlConns[c].kind = "claim" /\ ctlConns[c].st \in {"open", "acked", "checked"}

Slept == IF Late THEN ctlFaults < CtlMaxFaults /\ ctlFaults' = ctlFaults + 1 ELSE UNCHANGED ctlFaults

keepsControlMutant ==
  /\ ctlRun = "stopping" /\ Slept
  /\ ctlRun' = FirstRun(ctlTransport) /\ accepting' = TRUE
  /\ ctlConns' = [c \in CtlConns |-> CtlReplaced(c)]
  /\ UNCHANGED <<ctlTransport, ctlChannel, handler, bound, oldListener, pending>>

CtlRestartStarts ==
  /\ ctlRun = "stopping" /\ Slept
  /\ ctlRun' = FirstRun(ctlTransport) /\ accepting' = TRUE
  /\ ctlChannel' = 0
  /\ ctlConns' = [c \in CtlConns |-> CtlReplaced(c)]
  /\ UNCHANGED <<ctlTransport, handler, bound, oldListener, pending>>

KcpCtlRestart   == ctlTransport = "kcp"   /\ (AlreadyRestarting \/ CtlRestartStops \/ CtlRestartStarts)
QuicCtlRestart  == ctlTransport = "quic"  /\ (AlreadyRestarting \/ CtlRestartStops \/ CtlRestartStarts)
WsCtlRestart    == ctlTransport = "ws"    /\ (AlreadyRestarting \/ CtlRestartStops \/ CtlRestartStarts)
WsMuxCtlRestart == ctlTransport = "wsmux" /\ (AlreadyRestarting \/ CtlRestartStops \/ CtlRestartStarts)
UdpRestart   == ctlTransport = "udp"   /\ (AlreadyRestarting \/ CtlRestartStops \/ CtlRestartStarts)

(* tunnelListener of ws waits for the requests that are being answered and  *)
(* then closes the control channel, whichever run it belongs to by then.    *)
OldListenerCloses ==
  /\ oldListener /\ oldListener' = FALSE
  /\ ctlConns' = IF IsSet THEN Shut(ctlConns, ctlChannel) ELSE ctlConns
  /\ UNCHANGED <<ctlTransport, ctlRun, ctlChannel, handler, bound, accepting, pending, ctlFaults>>

-----------------------------------------------------------------------------
CtlAdmission(c) ==
  \/ KcpAcceptSession(c) \/ QuicAcceptStream(c) \/ WsTunnelListener(c) \/ WsMuxTunnelListener(c)
  \/ UdpHandshake(c) \/ CheckPool(c) \/ CtlAdmitPool(c)

channelHandler ==
  \/ KcpChannelHandler \/ QuicChannelHandler \/ WsChannelHandler \/ WsMuxChannelHandler
  \/ UdpChannelHandler

CtlRestart == KcpCtlRestart \/ QuicCtlRestart \/ WsCtlRestart \/ WsMuxCtlRestart \/ UdpRestart

CtlNext ==
  \/ \E k \in CtlClients : CtlClaim(k)
  \/ \E c \in CtlConns : Notices(c) \/ CtlBreak(c) \/ CtlAdmission(c) \/ UsePool(c)
  \/ CtlDialPool \/ KcpStart \/ QuicStart \/ channelHandler \/ CtlRestart \/ OldListenerCloses

(* Goroutines run, the peers' timers fire, and a client keeps dialling.     *)
CtlFairness ==
  /\ \A c \in CtlConns : WF_ctlVars(Notices(c)) /\ WF_ctlVars(CtlAdmission(c)) /\ WF_ctlVars(UsePool(c))
  /\ \A k \in CtlClients : SF_ctlVars(CtlClaim(k))
  /\ WF_ctlVars(KcpStart \/ QuicStart) /\ WF_ctlVars(channelHandler) /\ WF_ctlVars(CtlRestart)
  /\ WF_ctlVars(OldListenerCloses)

CtlSpec     == CtlInit /\ [][CtlNext]_ctlVars
CtlFairSpec == CtlSpec /\ CtlFairness

-----------------------------------------------------------------------------
(* Properties. *)

CtlTypeOK ==
  /\ ctlTransport \in CtlTransports
  /\ ctlRun \in {"starting", "waiting", "taken", "up", "stopping"}
  /\ ctlChannel \in CtlConns \cup {0}
  /\ handler \in BOOLEAN /\ bound \in BOOLEAN /\ accepting \in BOOLEAN /\ oldListener \in BOOLEAN
  /\ pending \in 0 .. MaxPending /\ ctlFaults \in 0 .. CtlMaxFaults
  /\ ctlConns \in [CtlConns -> [st : {"free", "open", "acked", "checked", "taken", "control", "pool", "gone"},
                          kind : {"none", "claim", "pool"}, who : CtlClients \cup {"nobody"},
                          stale : BOOLEAN]]

(* A pool connection of kcp and quic is in the pool of a run that has a     *)
(* control channel to drive it, also when it was let in while the last run  *)
(* was torn down; and no pool holds more than it has room for.              *)
PoolHasControl ==
  /\ Cardinality(Present) <= CtlChannelSize
  /\ ctlTransport \in Announced /\ Present # {} => ctlRun \in {"up", "stopping"}

CtlConnected ==
  /\ ctlRun = "up" /\ handler
  /\ ctlConns[ctlChannel].st = "control" /\ ctlConns[ctlChannel].who # "nobody"

(* However connections break, claims race each other, answers are given to  *)
(* claims that are then dropped, and Restarts come late, the server and the *)
(* client that keeps dialling it agree on a control channel again.          *)
Adopts == []<>CtlConnected
=============================================================================
