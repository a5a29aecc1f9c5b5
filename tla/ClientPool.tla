----------------------------- MODULE ClientPool ------------------------------
(***************************************************************************)
(* The pool of a reverse tunnel's client, for the seven transports:        *)
(* poolMaintainer sizes it, a request of the server or the maintainer      *)
(* starts a tunnelDialer, a pool connection waits for work and serves it,  *)
(* and Restart sets the counters to zero while connections of the earlier  *)
(* generation still wait.                                                  *)
(***************************************************************************)
EXTENDS Integers, FiniteSets

CONSTANTS
  PoolTransports,        \* the transports a behaviour may be of
  Conns,             \* pool connections that can exist at once
  ConnPoolSize,      \* the configured size
  AggressivePool,
  Ticks,             \* samples of poolConnections per decision (ten)
  FlowSize,          \* capacity of controlFlow (a hundred)
  MaxLoad,           \* bound: requests counted between two decisions
  MaxSize,           \* bound: how far an unlimited pool is followed
  MaxPoolRestarts        \* bound: restarts

SessionPools       == {"tcpmux", "kcp", "wsmux"}    \* a connection is a session
Unlimited == {"ws", "udp"}                 \* without poolCanGrow
poolScaleMbpsPerConn == 12
poolGrowthLimit      == 4

ASSUME PoolAssumption ==
  /\ IsFiniteSet(Conns)
  /\ ConnPoolSize \in Nat /\ FlowSize \in Nat /\ MaxLoad \in Nat /\ Ticks \in Nat \ {0}
  /\ MaxSize \in Nat /\ MaxPoolRestarts \in Nat

VARIABLES
  poolTransport,                          \* chosen once
  up,                                 \* the control channel is up
  conns,                              \* the pool connections
  poolConnections, loadConnections,   \* the counters
  newPoolSize, poolConnectionsSum, ticks,  \* poolMaintainer's locals
  controlFlow,                        \* tokens in it
  poolRestarts,
  inherited                           \* history: connections waiting at the last Restart

maintainer == <<newPoolSize, poolConnectionsSum, ticks>>
poolCounters   == <<poolConnections, loadConnections>>
poolVars == <<poolTransport, up, conns, poolCounters, maintainer, controlFlow, poolRestarts, inherited>>

PoolInit ==
  /\ poolTransport \in PoolTransports
  /\ up = FALSE
  /\ conns = [c \in Conns |-> "free"]
  /\ poolConnections = 0 /\ loadConnections = 0
  /\ newPoolSize = ConnPoolSize /\ poolConnectionsSum = 0 /\ ticks = 0
  /\ controlFlow = 0
  /\ poolRestarts = 0
  /\ inherited = {}

(* Integer division of the language: towards zero.                          *)
GoDiv(m, n) == IF m >= 0 THEN m \div n ELSE -((-m) \div n)

-----------------------------------------------------------------------------
(* poolload.go *)

poolCanGrow(size) == ConnPoolSize > 0 /\ size < ConnPoolSize * poolGrowthLimit

wantsMore(mbps, live, size) ==
  /\ mbps > 0 /\ live > 0
  /\ poolCanGrow(size)
  /\ mbps \div live >= poolScaleMbpsPerConn

-----------------------------------------------------------------------------
(* poolMaintainer. *)

(* go tunnelDialer(), for each c of a set.                                  *)
Dial(C) == conns' = [c \in Conns |-> IF c \in C THEN "dialing" ELSE conns[c]]
CanDial(C) == \A c \in C : conns[c] = "free"

(* The control channel came up; the pool is filled.                         *)
PoolStarts(C) ==
  /\ ~up
  /\ Cardinality(C) = ConnPoolSize /\ CanDial(C)
  /\ up' = TRUE
  /\ Dial(C)
  /\ newPoolSize' = ConnPoolSize /\ poolConnectionsSum' = 0 /\ ticks' = 0
  /\ UNCHANGED <<poolTransport, poolCounters, controlFlow, poolRestarts, inherited>>

tickerPool ==
  /\ up /\ ticks < Ticks
  /\ ticks' = ticks + 1
  /\ poolConnectionsSum' = poolConnectionsSum + poolConnections
  /\ UNCHANGED <<poolTransport, up, conns, poolCounters, newPoolSize, controlFlow, poolRestarts, inherited>>

a == IF AggressivePool THEN 1 ELSE 4
b == IF AggressivePool THEN 2 ELSE 5
x == IF AggressivePool THEN 0 ELSE 3

(* What the decision works from: the requests of the last ten seconds, and  *)
(* the mean of the samples, both rounded up.                                *)
LoadAvg == GoDiv(loadConnections + 9, 10)
PoolAvg == GoDiv(poolConnectionsSum + Ticks - 1, Ticks)

Busy == LoadAvg + a > PoolAvg * b

(* load + x < avg * y, with y = 4.0 or 0.75.                                *)
Slack == IF AggressivePool THEN 4 * (LoadAvg + x) < 3 * PoolAvg ELSE LoadAvg + x < 4 * PoolAvg

(* One decision: grow by a dial, shrink by a token that will swallow one    *)
(* request, or leave the size.  The push of the token waits for room.       *)
tickerLoad(grows) ==
  /\ up /\ ticks = Ticks
  /\ ticks' = 0 /\ poolConnectionsSum' = 0 /\ loadConnections' = 0
  /\ \/ /\ grows
        /\ newPoolSize' = newPoolSize + 1
        /\ \E c \in Conns : CanDial({c}) /\ Dial({c})
        /\ UNCHANGED controlFlow
     \/ /\ ~grows
        /\ Slack /\ newPoolSize > ConnPoolSize
        /\ newPoolSize' = newPoolSize - 1
        /\ controlFlow < FlowSize /\ controlFlow' = controlFlow + 1
        /\ UNCHANGED conns
     \/ /\ ~grows
        /\ ~(Slack /\ newPoolSize > ConnPoolSize)
        /\ UNCHANGED <<newPoolSize, controlFlow, conns>>
  /\ UNCHANGED <<poolTransport, up, poolConnections, poolRestarts, inherited>>

(* mbps: idle, or enough for any pool.                                      *)
Measured == {0, poolScaleMbpsPerConn * Cardinality(Conns)}

Limited(mbps) == (Busy /\ poolCanGrow(newPoolSize)) \/ wantsMore(mbps, PoolAvg, newPoolSize)

LimitedDecision == \E mbps \in Measured : tickerLoad(Limited(mbps))

TcpPoolMaintainer    == poolTransport = "tcp"    /\ LimitedDecision
TcpMuxPoolMaintainer == poolTransport = "tcpmux" /\ LimitedDecision
KcpPoolMaintainer    == poolTransport = "kcp"    /\ LimitedDecision
QuicPoolMaintainer   == poolTransport = "quic"   /\ LimitedDecision
WsMuxPoolMaintainer  == poolTransport = "wsmux"  /\ LimitedDecision
WsPoolMaintainer     == poolTransport = "ws"     /\ newPoolSize < MaxSize /\ tickerLoad(Busy)
UdpPoolMaintainer    == poolTransport = "udp"    /\ newPoolSize < MaxSize /\ tickerLoad(Busy)

poolMaintainer ==
  \/ tickerPool
  \/ TcpPoolMaintainer \/ TcpMuxPoolMaintainer \/ KcpPoolMaintainer \/ QuicPoolMaintainer
  \/ WsMuxPoolMaintainer \/ WsPoolMaintainer \/ UdpPoolMaintainer

(* SG_Chan: counted, then swallowed by a token or answered with a dial.     *)
PoolRequest ==
  /\ up
  /\ loadConnections' = IF loadConnections < MaxLoad THEN loadConnections + 1 ELSE loadConnections
  /\ \/ /\ controlFlow > 0 /\ controlFlow' = controlFlow - 1
        /\ UNCHANGED conns
     \/ /\ controlFlow = 0 /\ UNCHANGED controlFlow
        /\ \E c \in Conns : CanDial({c}) /\ Dial({c})
  /\ UNCHANGED <<poolTransport, up, poolConnections, maintainer, poolRestarts, inherited>>

-----------------------------------------------------------------------------
(* tunnelDialer. *)

Becomes(c, st) == conns' = [conns EXCEPT ![c] = st]

DialFails(c) ==
  /\ conns[c] = "dialing"
  /\ Becomes(c, "free")
  /\ UNCHANGED <<poolTransport, up, poolCounters, maintainer, controlFlow, poolRestarts, inherited>>

(* Dialled and announced.                                                   *)
Joins(c) ==
  /\ conns[c] = "dialing"
  /\ Becomes(c, "waiting")
  /\ poolConnections' = poolConnections + 1
  /\ UNCHANGED <<poolTransport, up, loadConnections, maintainer, controlFlow, poolRestarts, inherited>>

(* A connection that waits for one target: it comes, or the connection ends.*)
(* Either way it has left the pool.  The target may be refused, be a UDP    *)
(* flow or a local service, and the service may not answer.                 *)
LeavesWith(c, st) ==
  /\ conns[c] = "waiting"
  /\ Becomes(c, st)
  /\ poolConnections' = poolConnections - 1
  /\ UNCHANGED <<poolTransport, up, loadConnections, maintainer, controlFlow, poolRestarts, inherited>>

keepsCountMutant(c) == conns[c] = "waiting" /\ Becomes(c, "serving")
  /\ UNCHANGED <<poolTransport, up, poolCounters, maintainer, controlFlow, poolRestarts, inherited>>

TakesTarget(c) == LeavesWith(c, "serving")

TcpTunnelDialer(c)  == poolTransport = "tcp"  /\ (TakesTarget(c) \/ LeavesWith(c, "free"))
QuicTunnelDialer(c) == poolTransport = "quic" /\ (TakesTarget(c) \/ LeavesWith(c, "free"))
WsTunnelDialer(c)   == poolTransport = "ws"   /\ (TakesTarget(c) \/ LeavesWith(c, "free"))
UdpTunnelDialer(c)  == poolTransport = "udp"  /\ (TakesTarget(c) \/ LeavesWith(c, "free"))

(* handleSession: a session stays in the pool until it ends.                *)
TcpMuxHandleSession(c) == poolTransport = "tcpmux" /\ LeavesWith(c, "free")
KcpHandleSession(c)    == poolTransport = "kcp"    /\ LeavesWith(c, "free")
WsMuxHandleSession(c)  == poolTransport = "wsmux"  /\ LeavesWith(c, "free")

(* localDialer fails, or its relay ends.                                    *)
ServiceEnds(c) ==
  /\ conns[c] = "serving"
  /\ Becomes(c, "free")
  /\ UNCHANGED <<poolTransport, up, poolCounters, maintainer, controlFlow, poolRestarts, inherited>>

tunnelDialer(c) ==
  \/ DialFails(c) \/ Joins(c) \/ ServiceEnds(c)
  \/ TcpTunnelDialer(c) \/ QuicTunnelDialer(c) \/ WsTunnelDialer(c) \/ UdpTunnelDialer(c)
  \/ TcpMuxHandleSession(c) \/ KcpHandleSession(c) \/ WsMuxHandleSession(c)

-----------------------------------------------------------------------------
(* Restart: the counters and the tokens go; of the waiting connections, all *)
(* but the ones that end while it sleeps stay until the server closes them. *)
PoolRestart(ended) ==
  /\ up /\ poolRestarts < MaxPoolRestarts
  /\ poolRestarts' = poolRestarts + 1
  /\ up' = FALSE
  /\ poolConnections' = 0 /\ loadConnections' = 0
  /\ controlFlow' = 0
  /\ conns' = [c \in Conns |-> IF c \in ended THEN "free" ELSE conns[c]]
  /\ inherited' = {c \in Conns : conns[c] = "waiting"} \ ended
  /\ UNCHANGED <<poolTransport, maintainer>>

PoolNext ==
  \/ \E C \in SUBSET Conns : PoolStarts(C)
  \/ poolMaintainer \/ PoolRequest
  \/ \E ended \in SUBSET Conns : PoolRestart(ended)
  \/ \E c \in Conns : tunnelDialer(c)

PoolSpec == PoolInit /\ [][PoolNext]_poolVars

-----------------------------------------------------------------------------
(* Properties. *)

Waiting == {c \in Conns : conns[c] = "waiting"}

PoolTypeOK ==
  /\ poolTransport \in PoolTransports /\ up \in BOOLEAN
  /\ conns \in [Conns -> {"free", "dialing", "waiting", "serving"}]
  /\ poolConnections \in Int /\ loadConnections \in 0 .. MaxLoad
  /\ newPoolSize \in Nat /\ poolConnectionsSum \in Int /\ ticks \in 0 .. Ticks
  /\ controlFlow \in 0 .. FlowSize
  /\ poolRestarts \in 0 .. MaxPoolRestarts /\ inherited \subseteq Conns

(* The counter the sizing works from is the number of connections that wait,*)
(* as long as Restart found none waiting.                                   *)
CounterTrue == inherited = {} => poolConnections = Cardinality(Waiting)

(* It is never below the truth by more than what Restart found waiting, and *)
(* never above it.                                                          *)
CounterDrift ==
  /\ poolConnections <= Cardinality(Waiting)
  /\ poolConnections >= Cardinality(Waiting) - Cardinality(inherited)

(* However load, throughput and the counter's drift combine, the size stays *)
(* between what is configured and four times that.                          *)
SizeBounded ==
  poolTransport \notin Unlimited => newPoolSize \in ConnPoolSize .. ConnPoolSize * poolGrowthLimit
=============================================================================
