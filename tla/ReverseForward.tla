--------------------------- MODULE ReverseForward ---------------------------
(***************************************************************************)
(* The forwarding side of a reverse tunnel's server, for the six           *)
(* transports that carry connections (tcp, tcpmux, kcp, quic, ws, wsmux):  *)
(* local connections and UDP flows take a slot of the connection limit,    *)
(* queue on localChannel, are paired with a pool connection or a stream of *)
(* a multiplexed session, and give the slot back; Restart replaces the     *)
(* channels under them.                                                    *)
(*                                                                         *)
(* The control channel is up whenever run is "up".  The client dials pool  *)
(* connections when it is asked and, to keep its pool, when it is not.     *)
(* A relay left over from an earlier run is stale and still ends later.    *)
(***************************************************************************)
EXTENDS Integers, Sequences, FiniteSets

CONSTANTS
  Transports,      \* the transports a behaviour may be of
  Locals,          \* local connections that can exist at once
  Tunnels,         \* pool connections that can exist at once
  Peers,           \* UDP source addresses
  Handlers,        \* handleLoop goroutines
  ChannelSize,     \* capacity of localChannel, tunnelChannel, reqNewConnChan
  MaxConnections,  \* the connection limit, 0 for none
  MuxCon,          \* streams a session may carry
  MaxRestarts,     \* bound: restarts of the run
  MaxDrift,        \* bound: how far below zero streamCounter is followed
  MaxLost          \* bound: places of a session lost to targets that could not be sent

Mux  == {"tcpmux", "kcp", "wsmux"}
None == "none"

ASSUME TransportAssumption == Transports \subseteq Mux \cup {"tcp", "ws", "quic"}
ASSUME BoundAssumption ==
  /\ ChannelSize \in Nat \ {0} /\ MuxCon \in Nat \ {0}
  /\ MaxConnections \in Nat /\ MaxRestarts \in Nat /\ MaxDrift \in Nat
  /\ MaxLost \in Nat
ASSUME NameAssumption == None \notin Locals \cup Tunnels \cup Peers /\ "tcp" \notin Peers

VARIABLES
  transport,       \* chosen once
  run,             \* "up", or "stopping" while Restart sleeps
  active,          \* limiter.active
  locals,          \* the local connections and UDP flows
  localChannel,
  reqNewConnChan,  \* how many requests wait in it
  tunnelChannel,
  tunnels,         \* pool connections and sessions
  hands,           \* the local connection each handleLoop waits to pair
  streamCounter,
  sessionCounter,
  flows,           \* udpForwarder.flows
  restarts

queues   == <<localChannel, reqNewConnChan, tunnelChannel>>
counters == <<streamCounter, sessionCounter>>
vars     == <<transport, run, active, locals, queues, tunnels, hands, counters, flows, restarts>>

FreeLocal  == [st |-> "free", peer |-> None, open |-> FALSE, old |-> FALSE, via |-> None]
Filed(p)   == [st |-> "queued", peer |-> p, open |-> TRUE, old |-> FALSE, via |-> None]
Abandoned  == [st |-> "left", peer |-> None, open |-> FALSE, old |-> FALSE, via |-> None]
FreeTunnel == [st |-> "free", broken |-> FALSE, count |-> 0, local |-> None]

Init ==
  /\ transport \in Transports
  /\ run = "up"
  /\ active = 0
  /\ locals = [l \in Locals |-> FreeLocal]
  /\ localChannel = <<>> /\ reqNewConnChan = 0 /\ tunnelChannel = <<>>
  /\ tunnels = [t \in Tunnels |-> FreeTunnel]
  /\ hands = [h \in Handlers |-> None]
  /\ streamCounter = 0 /\ sessionCounter = 0
  /\ flows = [p \in Peers |-> None]
  /\ restarts = 0

-----------------------------------------------------------------------------
(* limits.go *)

(* Room for one more.  The counter is raised before it is compared; an      *)
(* acceptor that finds it too high lowers it again in a step of its own.    *)
mayAcquire == MaxConnections = 0 \/ active + 1 <= MaxConnections
acquire    == active' = IF MaxConnections = 0 THEN active ELSE active + 1
release(n) == active' = IF MaxConnections = 0 THEN active ELSE active - n

-----------------------------------------------------------------------------
(* Filing a connection. *)

requestUnboundedMutant == reqNewConnChan' = reqNewConnChan + 1

Request == reqNewConnChan' = IF reqNewConnChan < ChannelSize THEN reqNewConnChan + 1
                                                             ELSE reqNewConnChan

(* A connection from p is accepted, gets a slot and is queued.  With the    *)
(* queue full it would be closed and the slot released at once.             *)
Enqueue(l, p) ==
  /\ run = "up"
  /\ locals[l].st = "free"
  /\ mayAcquire /\ acquire
  /\ Len(localChannel) < ChannelSize
  /\ localChannel' = Append(localChannel, l)
  /\ locals' = [locals EXCEPT ![l] = Filed(p)]
  /\ UNCHANGED <<transport, run, tunnelChannel, tunnels, hands, sessionCounter, restarts>>

(* acceptLocalConn of the transports that ask for a pool connection each    *)
(* time ...                                                                 *)
AcceptAndAsk(l) ==
  /\ Enqueue(l, "tcp")
  /\ Request
  /\ UNCHANGED <<streamCounter, flows>>

(* ... of those that ask for a session when the streams fill the present    *)
(* ones ...                                                                 *)
AcceptAndCount(l) ==
  /\ Enqueue(l, "tcp")
  /\ streamCounter' = streamCounter + 1
  /\ IF streamCounter' >= sessionCounter * MuxCon THEN Request ELSE UNCHANGED reqNewConnChan
  /\ UNCHANGED flows

TcpAcceptLocalConn(l)    == transport = "tcp"    /\ AcceptAndAsk(l)
WsAcceptLocalConn(l)     == transport = "ws"     /\ AcceptAndAsk(l)
TcpMuxAcceptLocalConn(l) == transport = "tcpmux" /\ AcceptAndCount(l)
KcpAcceptLocalConn(l)    == transport = "kcp"    /\ AcceptAndCount(l)
WsMuxAcceptLocalConn(l)  == transport = "wsmux"  /\ AcceptAndCount(l)

(* ... and of quic, which asks when it takes the connection up.             *)
QuicAcceptLocalConn(l) ==
  /\ transport = "quic"
  /\ Enqueue(l, "tcp")
  /\ UNCHANGED <<reqNewConnChan, streamCounter, flows>>

(* acquire past the limit: raised, and not yet lowered again.               *)
RaiseTooFar(l) ==
  /\ run = "up"
  /\ locals[l].st = "free"
  /\ ~mayAcquire /\ acquire
  /\ locals' = [locals EXCEPT ![l].st = "refused"]
  /\ UNCHANGED <<transport, run, queues, tunnels, hands, counters, flows, restarts>>

LowerAgain(l) ==
  /\ locals[l].st = "refused"
  /\ release(1)
  /\ locals' = [locals EXCEPT ![l] = FreeLocal]
  /\ UNCHANGED <<transport, run, queues, tunnels, hands, counters, flows, restarts>>

-----------------------------------------------------------------------------
(* udpforward.go: a flow per source address, a local connection like others.*)

(* run reads a datagram of a peer it does not know ...                      *)
newFlow(p) == flows[p] = None

(* ... and udpAdmitter takes the flow.  When it does not, the flow is       *)
(* closed and forgotten at once.                                            *)
udpAdmitter(l, p) ==
  /\ newFlow(p)
  /\ streamCounter >= -MaxDrift
  /\ Enqueue(l, p)
  /\ flows' = [flows EXCEPT ![p] = l]
  /\ Request
  /\ UNCHANGED streamCounter

forgetAnyMutant(l, fl) == [p \in Peers |-> IF p = locals[l].peer THEN None ELSE fl[p]]

(* forget: only while the table still holds this very flow.                 *)
forget(l, fl) == [p \in Peers |-> IF fl[p] = l THEN None ELSE fl[p]]

(* reap: the flow has been quiet both ways.  What it has become part of     *)
(* learns of it from the connection.                                        *)
reap(l) ==
  /\ run = "up"
  /\ locals[l].peer \in Peers /\ locals[l].open
  /\ locals' = [locals EXCEPT ![l].open = FALSE]
  /\ flows' = forget(l, flows)
  /\ UNCHANGED <<transport, run, active, queues, tunnels, hands, counters, restarts>>

-----------------------------------------------------------------------------
(* The pool, as the client fills it. *)

deliverTunnelConn(t) ==
  /\ run = "up"
  /\ tunnels[t].st = "free"
  /\ Len(tunnelChannel) < ChannelSize
  /\ tunnelChannel' = Append(tunnelChannel, t)
  /\ tunnels' = [tunnels EXCEPT ![t].st = "pooled"]
  /\ UNCHANGED <<transport, run, active, locals, localChannel, reqNewConnChan, hands, counters,
                 flows, restarts>>

(* channelHandler passes a request on to the client. *)
SendRequest ==
  /\ run = "up"
  /\ reqNewConnChan > 0
  /\ reqNewConnChan' = reqNewConnChan - 1
  /\ UNCHANGED <<transport, run, active, locals, localChannel, tunnelChannel, tunnels, hands,
                 counters, flows, restarts>>

(* A pool connection breaks before or after it is taken. *)
BreakTunnel(t) ==
  /\ tunnels[t].st # "free" /\ ~tunnels[t].broken
  /\ tunnels' = [tunnels EXCEPT ![t].broken = TRUE]
  /\ UNCHANGED <<transport, run, active, locals, queues, hands, counters, flows, restarts>>

(* A connection has waited three seconds. *)
Age(l) ==
  /\ locals[l].st \in {"queued", "held"} /\ ~locals[l].old
  /\ locals' = [locals EXCEPT ![l].old = TRUE]
  /\ UNCHANGED <<transport, run, active, queues, tunnels, hands, counters, flows, restarts>>

-----------------------------------------------------------------------------
(* handleLoop of the transports that pair one to one. *)

Gone(l) == [locals EXCEPT ![l] = FreeLocal]

(* Takes the next local connection; one that is too old is closed, and its  *)
(* slot returned where the transport thinks of it.                          *)
TakeLocal(h, timedOutReleases, ask) ==
  /\ run = "up"
  /\ hands[h] = None
  /\ localChannel # <<>>
  /\ localChannel' = Tail(localChannel)
  /\ LET l == Head(localChannel) IN
     \/ /\ locals[l].old
        /\ locals' = Gone(l) /\ flows' = forget(l, flows)
        /\ IF timedOutReleases THEN release(1) ELSE UNCHANGED active
        /\ UNCHANGED <<hands, reqNewConnChan>>
     \/ /\ ~locals[l].old
        /\ locals' = [locals EXCEPT ![l].st = "held"]
        /\ hands' = [hands EXCEPT ![h] = l]
        /\ IF ask THEN Request ELSE UNCHANGED reqNewConnChan
        /\ UNCHANGED <<active, flows>>
  /\ UNCHANGED <<transport, run, tunnelChannel, tunnels, counters, restarts>>

(* The pool connection taken for the one in hand: it carries it, or the     *)
(* target cannot be sent and it is closed; then the age is looked at again, *)
(* in the loops that look.                                                  *)
Pair(h, timedOutReleases, recheck, ask) ==
  /\ run = "up"
  /\ hands[h] # None
  /\ tunnelChannel # <<>>
  /\ tunnelChannel' = Tail(tunnelChannel)
  /\ LET l == hands[h]
         t == Head(tunnelChannel) IN
     \/ /\ ~tunnels[t].broken
        /\ locals' = [locals EXCEPT ![l].st = "carried", ![l].via = t, ![l].old = FALSE]
        /\ tunnels' = [tunnels EXCEPT ![t].st = "serving"]
        /\ hands' = [hands EXCEPT ![h] = None]
        /\ UNCHANGED <<active, reqNewConnChan, flows>>
     \/ /\ tunnels[t].broken
        /\ tunnels' = [tunnels EXCEPT ![t] = FreeTunnel]
        /\ IF ask THEN Request ELSE UNCHANGED reqNewConnChan
        /\ IF recheck /\ locals[l].old
           THEN /\ locals' = Gone(l) /\ flows' = forget(l, flows)
                /\ hands' = [hands EXCEPT ![h] = None]
                /\ IF timedOutReleases THEN release(1) ELSE UNCHANGED active
           ELSE UNCHANGED <<locals, flows, hands, active>>
  /\ UNCHANGED <<transport, run, localChannel, counters, restarts>>

tcpPairUncheckedMutant(h) == transport = "tcp" /\ Pair(h, TRUE, FALSE, FALSE)

TcpTakeLocal(h)  == transport = "tcp"  /\ TakeLocal(h, TRUE, FALSE)
WsTakeLocal(h)   == transport = "ws"   /\ TakeLocal(h, FALSE, FALSE)
QuicTakeLocal(h) == transport = "quic" /\ TakeLocal(h, TRUE, TRUE)
TcpPair(h)       == transport = "tcp"  /\ Pair(h, TRUE, TRUE, FALSE)
WsPair(h)        == transport = "ws"   /\ Pair(h, FALSE, TRUE, FALSE)
QuicPair(h)      == transport = "quic" /\ Pair(h, TRUE, FALSE, TRUE)

(* The run ends with a connection in hand: quic closes it and returns its   *)
(* slot, tcp and ws return without either.                                  *)
LoopEnds(h, closes) ==
  /\ run = "stopping"
  /\ hands[h] # None
  /\ locals' = [locals EXCEPT ![hands[h]] = IF closes THEN FreeLocal ELSE Abandoned]
  /\ hands' = [hands EXCEPT ![h] = None]
  /\ IF closes THEN release(1) ELSE UNCHANGED active
  /\ UNCHANGED <<transport, run, queues, tunnels, counters, flows, restarts>>

-----------------------------------------------------------------------------
(* handleLoop and handleSession of the multiplexed transports. *)

TakeSession ==
  /\ transport \in Mux
  /\ run = "up"
  /\ tunnelChannel # <<>>
  /\ tunnelChannel' = Tail(tunnelChannel)
  /\ sessionCounter' = sessionCounter + 1
  /\ tunnels' = [tunnels EXCEPT ![Head(tunnelChannel)].st = "serving"]
  /\ UNCHANGED <<transport, run, active, locals, localChannel, reqNewConnChan, hands, streamCounter,
                 flows, restarts>>

(* counter has room for one more stream. *)
hasRoom(t) == tunnels[t].count < MuxCon

(* Places taken by no stream: the target of the stream was not sent.        *)
Lost(t) == tunnels[t].count - Cardinality({l \in Locals : locals[l].via = t})

(* A session with room takes the next local connection.  One that is too    *)
(* old is closed; OpenStream fails on a broken session (handleSessionError) *)
(* and the target can fail to be sent; either puts the connection back,     *)
(* which waits for room in the queue.  The slot of one that timed out is    *)
(* not returned, nor is the counter's of one whose target was not sent.     *)
handleSession(t) ==
  /\ run = "up"
  /\ tunnels[t].st = "serving" /\ tunnels[t].local = None
  /\ hasRoom(t)
  /\ localChannel # <<>>
  /\ localChannel' = Tail(localChannel)
  /\ LET l == Head(localChannel) IN
     \/ /\ locals[l].old
        /\ locals' = Gone(l) /\ flows' = forget(l, flows)
        /\ streamCounter' = streamCounter - 1
        /\ UNCHANGED <<tunnels, sessionCounter>>
     \/ /\ ~locals[l].old /\ ~tunnels[t].broken
        /\ locals' = [locals EXCEPT ![l].st = "carried", ![l].via = t]
        /\ tunnels' = [tunnels EXCEPT ![t].count = @ + 1]
        /\ UNCHANGED <<streamCounter, sessionCounter, flows>>
     \/ /\ ~locals[l].old /\ tunnels[t].broken
        /\ locals' = [locals EXCEPT ![l].st = "held"]
        /\ \/ /\ tunnels' = [tunnels EXCEPT ![t].st = "failing", ![t].local = l]
              /\ sessionCounter' = sessionCounter - 1
           \/ /\ Lost(t) < MaxLost
              /\ tunnels' = [tunnels EXCEPT ![t].count = @ + 1, ![t].local = l]
              /\ UNCHANGED sessionCounter
        /\ UNCHANGED <<streamCounter, flows>>
  /\ UNCHANGED <<transport, run, active, reqNewConnChan, tunnelChannel, hands, restarts>>

(* The send to localChannel that both failures wait for.                    *)
PutBack(t) ==
  /\ tunnels[t].local # None
  /\ Len(localChannel) < ChannelSize
  /\ localChannel' = Append(localChannel, tunnels[t].local)
  /\ UNCHANGED <<transport, run, active, tunnelChannel, hands, counters, flows, restarts>>

SendFailed(t) ==
  /\ tunnels[t].st = "serving"
  /\ PutBack(t)
  /\ locals' = [locals EXCEPT ![tunnels[t].local].st = "queued"]
  /\ tunnels' = [tunnels EXCEPT ![t].local = None]
  /\ UNCHANGED reqNewConnChan

(* A session that returns is closed, and with it every stream of it.        *)
Orphan(t) == [l \in Locals |-> IF locals[l].via = t THEN [locals[l] EXCEPT !.via = None]
                                                    ELSE locals[l]]

handleSessionError(t) ==
  /\ tunnels[t].st = "failing"
  /\ PutBack(t)
  /\ locals' = [Orphan(t) EXCEPT ![tunnels[t].local].st = "queued"]
  /\ tunnels' = [tunnels EXCEPT ![t] = FreeTunnel]
  /\ Request

TcpMuxSession(t)   == transport = "tcpmux" /\ handleSession(t)
KcpSession(t)      == transport = "kcp"    /\ handleSession(t)
WsMuxSession(t)    == transport = "wsmux"  /\ handleSession(t)
TcpMuxSessionError(t) == transport = "tcpmux" /\ handleSessionError(t)
KcpSessionError(t)    == transport = "kcp"    /\ handleSessionError(t)
WsMuxSessionError(t)  == transport = "wsmux"  /\ handleSessionError(t)

(* A session that waits for a connection sees the end of the run.           *)
SessionEnds(t) ==
  /\ run = "stopping" /\ transport \in Mux
  /\ tunnels[t].st = "serving" /\ tunnels[t].local = None /\ hasRoom(t)
  /\ tunnels' = [tunnels EXCEPT ![t] = FreeTunnel]
  /\ locals' = Orphan(t)
  /\ UNCHANGED <<transport, run, active, queues, hands, counters, flows, restarts>>

-----------------------------------------------------------------------------
(* The relay ends: either end closed, or the run over.  The slot comes back *)
(* and, with sessions, the stream and its place in the session.             *)
RelayEnds(l) ==
  /\ locals[l].st = "carried"
  /\ release(1)
  /\ locals' = Gone(l) /\ flows' = forget(l, flows)
  /\ IF transport \in Mux
     THEN /\ streamCounter' = streamCounter - 1
          /\ tunnels' = [t \in Tunnels |-> IF t = locals[l].via
                                           THEN [tunnels[t] EXCEPT !.count = @ - 1] ELSE tunnels[t]]
     ELSE /\ tunnels' = [t \in Tunnels |-> IF t = locals[l].via THEN FreeTunnel ELSE tunnels[t]]
          /\ UNCHANGED streamCounter
  /\ UNCHANGED <<transport, run, queues, hands, sessionCounter, restarts>>

(* Restart cancels the run: the listeners and every UDP flow close.         *)
RestartStops ==
  /\ run = "up"
  /\ restarts < MaxRestarts
  /\ restarts' = restarts + 1
  /\ run' = "stopping"
  /\ flows' = [p \in Peers |-> None]
  /\ locals' = [l \in Locals |-> IF locals[l].peer \in Peers THEN [locals[l] EXCEPT !.open = FALSE]
                                                             ELSE locals[l]]
  /\ UNCHANGED <<transport, active, queues, tunnels, hands, counters>>

(* What a run leaves in its channels, or in the hands of a session that     *)
(* waits to put it back, stays open and keeps its slot: nobody reads those  *)
(* channels again.  (So do the pool connections in tunnelChannel, which     *)
(* count against nothing and are not followed further.)                     *)
Replaced(l) == IF locals[l].st \in {"queued", "held"} THEN Abandoned
               ELSE IF locals[l].st = "carried" THEN [locals[l] EXCEPT !.old = FALSE, !.via = None]
               ELSE locals[l]

(* After the sleep, which the loops that watch the context have left by     *)
(* then: fresh channels and counters.                                       *)
RestartStarts(counted) ==
  /\ run = "stopping"
  /\ \A h \in Handlers : hands[h] = None
  /\ run' = "up"
  /\ localChannel' = <<>> /\ reqNewConnChan' = 0 /\ tunnelChannel' = <<>>
  /\ locals' = [l \in Locals |-> Replaced(l)]
  /\ tunnels' = [t \in Tunnels |-> FreeTunnel]
  /\ IF counted THEN streamCounter' = 0 /\ sessionCounter' = 0 ELSE UNCHANGED counters
  /\ UNCHANGED <<transport, active, hands, flows, restarts>>

(* The runtime closes a connection that nothing refers to any more.  Its    *)
(* slot does not come back.                                                 *)
Collected(l) ==
  /\ locals[l].st = "left"
  /\ locals' = Gone(l)
  /\ UNCHANGED <<transport, run, active, queues, tunnels, hands, counters, flows, restarts>>

TcpRestart    == transport = "tcp"    /\ RestartStarts(FALSE)
WsRestart     == transport = "ws"     /\ RestartStarts(FALSE)
QuicRestart   == transport = "quic"   /\ RestartStarts(FALSE)
TcpMuxRestart == transport = "tcpmux" /\ RestartStarts(TRUE)
KcpRestart    == transport = "kcp"    /\ RestartStarts(TRUE)
WsMuxRestart  == transport = "wsmux"  /\ RestartStarts(TRUE)

-----------------------------------------------------------------------------
acceptLocalConn(l) ==
  \/ TcpAcceptLocalConn(l) \/ WsAcceptLocalConn(l) \/ QuicAcceptLocalConn(l)
  \/ TcpMuxAcceptLocalConn(l) \/ KcpAcceptLocalConn(l) \/ WsMuxAcceptLocalConn(l)

handleLoop(h) ==
  \/ TcpTakeLocal(h) \/ WsTakeLocal(h) \/ QuicTakeLocal(h)
  \/ TcpPair(h) \/ WsPair(h) \/ QuicPair(h)
  \/ LoopEnds(h, transport = "quic")

SessionStep(t) ==
  \/ TcpMuxSession(t) \/ KcpSession(t) \/ WsMuxSession(t)
  \/ TcpMuxSessionError(t) \/ KcpSessionError(t) \/ WsMuxSessionError(t)
  \/ SendFailed(t) \/ SessionEnds(t)

Restart == TcpRestart \/ WsRestart \/ QuicRestart \/ TcpMuxRestart \/ KcpRestart \/ WsMuxRestart

Next ==
  \/ \E l \in Locals : \/ acceptLocalConn(l) \/ RaiseTooFar(l) \/ LowerAgain(l) \/ reap(l) \/ Age(l)
                       \/ RelayEnds(l) \/ Collected(l) \/ \E p \in Peers : udpAdmitter(l, p)
  \/ \E h \in Handlers : handleLoop(h)
  \/ \E t \in Tunnels : SessionStep(t) \/ deliverTunnelConn(t) \/ BreakTunnel(t)
  \/ SendRequest \/ TakeSession \/ RestartStops \/ Restart

Spec == Init /\ [][Next]_vars

(* The loops and sessions run and time passes.  That the client sends pool  *)
(* connections, or that a relay ends, is not assumed.                       *)
Fairness ==
  /\ \A h \in Handlers : SF_vars(handleLoop(h))
  /\ \A t \in Tunnels : SF_vars(SessionStep(t))
  /\ \A l \in Locals : WF_vars(Age(l))
  /\ WF_vars(TakeSession) /\ WF_vars(Restart)

FairSpec == Spec /\ Fairness

-----------------------------------------------------------------------------
(* Properties. *)

LocalType  == [st : {"free", "refused", "queued", "held", "carried", "left"}, peer : Peers \cup {"tcp", None},
               open : BOOLEAN, old : BOOLEAN, via : Tunnels \cup {None}]
TunnelType == [st : {"free", "pooled", "serving", "failing"}, broken : BOOLEAN, count : 0 .. MuxCon,
               local : Locals \cup {None}]

Holders == {l \in Locals : locals[l].st \in {"queued", "held", "carried", "left"}}

TypeOK ==
  /\ transport \in Transports
  /\ run \in {"up", "stopping"}
  /\ active \in Int
  /\ locals \in [Locals -> LocalType]
  /\ localChannel \in Seq(Locals) /\ Len(localChannel) <= ChannelSize
  /\ tunnelChannel \in Seq(Tunnels) /\ Len(tunnelChannel) <= ChannelSize
  /\ reqNewConnChan \in 0 .. ChannelSize
  /\ tunnels \in [Tunnels -> TunnelType]
  /\ hands \in [Handlers -> Locals \cup {None}]
  /\ streamCounter \in Int /\ sessionCounter \in Int
  /\ flows \in [Peers -> Locals \cup {None}]
  /\ restarts \in 0 .. MaxRestarts

(* The connection limit holds for everything that is open at once, relays   *)
(* of an earlier run and what it left behind included, however acceptors    *)
(* and releases interleave.                                                 *)
CapHolds == MaxConnections > 0 => Cardinality(Holders) <= MaxConnections

(* A peer's datagrams are always filed with the one open flow of that peer, *)
(* and that flow is where something reads it: queued, in hand or carried.   *)
FlowIsRead ==
  \A p \in Peers :
    /\ flows[p] # None => locals[flows[p]].st \in {"queued", "held", "carried"}
    /\ \A l \in Locals : (locals[l].peer = p /\ locals[l].open) <=> flows[p] = l

(* A session never carries more streams than MuxCon, and a pool connection  *)
(* that is not multiplexed carries one at most.                             *)
StreamsWithinLimit ==
  \A t \in Tunnels : Cardinality({l \in Locals : locals[l].via = t})
                       <= IF transport \in Mux THEN MuxCon ELSE 1

(* Somebody is there to take the next local connection: a pool connection   *)
(* that nobody has taken yet, or a session with room.                       *)
Offered ==
  \/ tunnelChannel # <<>>
  \/ transport \in Mux /\ \E t \in Tunnels : tunnels[t].st = "serving" /\ tunnels[t].local = None /\ hasRoom(t)

(* As long as connections are offered again and again, every connection     *)
(* that was let in is carried, closed or abandoned by a Restart: even if    *)
(* each pool connection breaks as it is taken, none stays in a queue, in a  *)
(* handler's hand or in the hands of a failed session.  With none offered   *)
(* it may wait for ever: handleLoop looks at the age only when it takes one *)
(* up, and a failed session that cannot put its connection back has not     *)
(* asked for another yet.  (quic's pairLocalConn looks at the age once and  *)
(* then tries pool connections without end.)                                *)
Settles ==
  []<>Offered =>
    \A l \in Locals : transport # "quic" /\ locals[l].st \in {"queued", "held"}
                       ~> locals[l].st \in {"free", "carried", "left"}

(* What handleLoop of tcp says it returns a slot for: within a run, no      *)
(* connection that is timed out, or carried and closed, keeps its slot.     *)
NoSlotLost ==
  MaxConnections > 0 /\ restarts = 0 =>
    active = Cardinality(Holders) + Cardinality({l \in Locals : locals[l].st = "refused"})
=============================================================================
