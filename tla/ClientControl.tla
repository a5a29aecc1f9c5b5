---------------------------- MODULE ClientControl ----------------------------
(***************************************************************************)
(* The control side of a reverse tunnel's client, for the seven transports *)
(* (tcp, tcpmux, kcp, quic, ws, wsmux, udp): channelDialer walks the       *)
(* endpoints until a server answers, channelHandler and its reader serve   *)
(* the control channel, Restart replaces the generation.                   *)
(*                                                                         *)
(* An endpoint is good, dead (it cannot be dialled), mute (it takes the    *)
(* connection and never answers) or refusing (it takes it and says no, by  *)
(* a refusal, another token or a failed handshake below the tunnel's); the *)
(* server at the good ones speaks the current handshake or only the old    *)
(* one.  The model assumes that a goroutine that can run does so within    *)
(* the two seconds Restart sleeps.                                         *)
(***************************************************************************)
EXTENDS Endpoints

CONSTANTS
  Transports,     \* the transports a behaviour may be of
  MaxFaults       \* bound: failures at a good endpoint

ASSUME FaultAssumption == MaxFaults \in Nat

Probing    == {"tcp", "tcpmux"}          \* the transports with a legacyProbe
AckRotates == {"kcp", "quic"}            \* those that rotate when nothing answers
Websocket  == {"ws", "wsmux"}            \* those whose dial is the handshake
Measured   == {"tcp", "udp"}             \* those whose server measures the round trip
Kinds      == {"good", "dead", "mute", "refusing"}
legacyMissThreshold == 2

VARIABLES
  transport, kind, serverV2,       \* chosen once
  dialer,                          \* channelDialer: "off", "dialing", "awaiting", "waiting"
  sent,                            \* the signal of the attempt under way: "v2", "v1"
  legacy, answered, misses,        \* legacyProbe
  conn, on,                        \* the control connection, and the endpoint it is with
  reader, handler, msgChan,        \* channelHandler and the goroutine that feeds it
  restarting, pending,             \* restartMutex, and Restarts that were started with go
  status,
  faults

probeVars   == <<legacy, answered, misses>>
channelVars == <<reader, handler, msgChan>>
rigidVars   == <<transport, kind, serverV2>>
vars == <<rigidVars, dialer, sent, probeVars, conn, on, channelVars, restarting, pending, status,
          faults, endpointVars>>

Init ==
  /\ transport \in Transports
  /\ kind \in [Positions -> Kinds]
  /\ \E e \in Positions : kind[e] = "good"
  /\ serverV2 \in BOOLEAN
  /\ dialer = "dialing" /\ sent = "v2"
  /\ legacy = FALSE /\ answered = FALSE /\ misses = 0
  /\ conn = "none" /\ on = 0
  /\ reader = FALSE /\ handler = FALSE /\ msgChan = <<>>
  /\ restarting = FALSE /\ pending = 0
  /\ status = "Disconnected"
  /\ faults = 0
  /\ EndpointsInit

Fault == faults < MaxFaults /\ faults' = faults + 1

-----------------------------------------------------------------------------
(* legacyProbe. *)

signal == IF transport \in Probing /\ ~legacy THEN "v2" ELSE "v1"

ack(v) ==
  /\ misses' = 0
  /\ IF v = "v2" THEN answered' = TRUE /\ legacy' = FALSE ELSE UNCHANGED <<answered, legacy>>

forgetfulMissMutant(v) ==
  IF v # "v2" THEN UNCHANGED probeVars
  ELSE misses' = misses + 1 /\ legacy' = (misses + 1 >= legacyMissThreshold) /\ UNCHANGED answered

miss(v) ==
  IF v # "v2" \/ answered THEN UNCHANGED probeVars
  ELSE /\ misses' = misses + 1
       /\ legacy' = (legacy \/ misses + 1 >= legacyMissThreshold)
       /\ UNCHANGED answered

-----------------------------------------------------------------------------
(* channelDialer. *)

(* The dial itself fails; every transport turns to the next endpoint.       *)
DialFails ==
  /\ dialer = "dialing"
  /\ \/ kind[Current] = "dead" /\ UNCHANGED faults
     \/ kind[Current] = "good" /\ Fault
     \/ kind[Current] \in {"mute", "refusing"} /\ transport \in Websocket /\ UNCHANGED faults
  /\ dialer' = "waiting"
  /\ Rotate
  /\ UNCHANGED <<rigidVars, sent, probeVars, conn, on, channelVars, restarting, pending, status>>

(* The stealth handshake or the control stream fails, or the token cannot   *)
(* be sent: the dialer tries again where it is.                             *)
NotSent ==
  /\ dialer = "dialing" /\ transport \notin Websocket
  /\ \/ kind[Current] = "refusing" /\ UNCHANGED faults
     \/ kind[Current] = "good" /\ Fault
  /\ dialer' = "waiting"
  /\ UNCHANGED <<rigidVars, sent, probeVars, conn, on, channelVars, restarting, pending, status,
                 endpointVars>>

(* Dialled, and the token sent; on is where.                                *)
Claims ==
  /\ dialer = "dialing" /\ transport \notin Websocket
  /\ kind[Current] # "dead"
  /\ dialer' = "awaiting" /\ sent' = signal /\ on' = Current
  /\ UNCHANGED <<rigidVars, probeVars, conn, channelVars, restarting, pending, status, faults,
                 endpointVars>>

(* No answer in time, or the connection closed without one.  An old server  *)
(* closes a claim it does not know.                                         *)
NoAnswer(rotates) ==
  /\ dialer = "awaiting"
  /\ \E timedOut \in BOOLEAN :
       /\ \/ kind[on] = "mute" /\ UNCHANGED faults
          \/ kind[on] = "good" /\ Fault
          \/ kind[on] = "good" /\ sent = "v2" /\ ~serverV2 /\ ~timedOut /\ UNCHANGED faults
       /\ IF transport \in Probing /\ ~timedOut THEN miss(sent) ELSE UNCHANGED probeVars
  /\ dialer' = "waiting"
  /\ IF rotates THEN Rotate ELSE UNCHANGED endpointVars
  /\ UNCHANGED <<rigidVars, sent, conn, on, channelVars, restarting, pending, status>>

(* The server says why it will not (the token, or another client), which    *)
(* the probes take for an answer, or gives a token that is not this one.    *)
(* No transport leaves the endpoint for it.                                 *)
Refused ==
  /\ dialer = "awaiting"
  /\ \E told \in BOOLEAN :
       /\ told => transport \in Probing
       /\ \/ kind[on] = "refusing" /\ UNCHANGED faults
          \/ kind[on] = "good" /\ Fault /\ (told => serverV2 /\ sent = "v2")
       /\ IF told THEN ack("refused") ELSE UNCHANGED probeVars
  /\ dialer' = "waiting"
  /\ UNCHANGED <<rigidVars, sent, conn, on, channelVars, restarting, pending, status, endpointVars>>

(* The answer leaves the endpoint as it is.                                 *)
StaysThere == on' = Current /\ UNCHANGED endpointVars

(* The server answers with the token; the control channel is up.            *)
Established ==
  /\ IF transport \in Websocket
     THEN /\ dialer = "dialing" /\ kind[Current] = "good" /\ UNCHANGED probeVars
          /\ StaysThere
     ELSE /\ dialer = "awaiting" /\ kind[on] = "good"
          /\ sent = "v1" \/ serverV2
          /\ IF transport \in Probing THEN ack(sent) ELSE UNCHANGED probeVars
          /\ UNCHANGED <<on, endpointVars>>
  /\ dialer' = "off"
  /\ conn' = "up" /\ status' = "Connected"
  /\ reader' = TRUE /\ handler' = TRUE /\ msgChan' = <<>>
  /\ UNCHANGED <<rigidVars, sent, restarting, pending, faults>>

(* backoff.Wait is over.                                                    *)
Retries ==
  /\ dialer = "waiting"
  /\ dialer' = "dialing"
  /\ UNCHANGED <<rigidVars, sent, probeVars, conn, on, channelVars, restarting, pending, status,
                 faults, endpointVars>>

TcpChannelDialer    == transport = "tcp"    /\ (NoAnswer(FALSE) \/ Refused \/ Established)
TcpMuxChannelDialer == transport = "tcpmux" /\ (NoAnswer(FALSE) \/ Refused \/ Established)
UdpChannelDialer    == transport = "udp"    /\ (NoAnswer(FALSE) \/ Refused \/ Established)
KcpChannelDialer    == transport = "kcp"    /\ (NoAnswer(TRUE) \/ Refused \/ Established)
QuicChannelDialer   == transport = "quic"   /\ (NoAnswer(TRUE) \/ Refused \/ Established)
WsChannelDialer     == transport = "ws"     /\ Established
WsMuxChannelDialer  == transport = "wsmux"  /\ Established

channelDialer ==
  \/ DialFails \/ NotSent \/ Claims \/ Retries
  \/ TcpChannelDialer \/ TcpMuxChannelDialer \/ UdpChannelDialer \/ KcpChannelDialer
  \/ QuicChannelDialer \/ WsChannelDialer \/ WsMuxChannelDialer

-----------------------------------------------------------------------------
(* channelHandler, and what the server says. *)

Messages == {"chan", "hb", "rtt", "closed", "junk"}

(* Messages that end the channel cost a fault, the others do not.           *)
Receive(m) ==
  /\ reader /\ conn = "up" /\ ~restarting
  /\ msgChan = <<>> /\ (m = "rtt" => transport \in Measured)
  /\ msgChan' = <<m>>
  /\ IF m \in {"closed", "junk"} THEN Fault ELSE UNCHANGED faults
  /\ UNCHANGED <<rigidVars, dialer, sent, probeVars, conn, on, reader, handler, restarting, pending,
                 status, endpointVars>>

(* The connection breaks, or controlDeadline passes with nothing read.      *)
Breaks ==
  /\ conn = "up" /\ Fault
  /\ conn' = "closed"
  /\ UNCHANGED <<rigidVars, dialer, sent, probeVars, on, channelVars, restarting, pending, status,
                 endpointVars>>

(* The reader fails on a closed connection and asks for a Restart.          *)
ReadFails ==
  /\ reader /\ conn = "closed"
  /\ reader' = FALSE
  /\ pending' = pending + 1
  /\ UNCHANGED <<rigidVars, dialer, sent, probeVars, conn, on, handler, msgChan, restarting, status,
                 faults, endpointVars>>

(* One message.  A request dials a pool connection; a heartbeat is answered *)
(* by ws and wsmux, a measurement by tcp and udp, and an answer that cannot *)
(* be written ends the channel as "closed" and an unexpected byte do.       *)
HandleMessage(answers) ==
  /\ handler /\ ~restarting /\ msgChan # <<>>
  /\ msgChan' = <<>>
  /\ LET m == Head(msgChan) IN
     IF m \in {"closed", "junk"} \/ (m \in answers /\ conn = "closed")
     THEN handler' = FALSE /\ pending' = pending + 1
     ELSE UNCHANGED <<handler, pending>>
  /\ UNCHANGED <<rigidVars, dialer, sent, probeVars, conn, on, reader, restarting, status, faults,
                 endpointVars>>

TcpChannelHandler    == transport = "tcp"    /\ HandleMessage({"rtt"})
TcpMuxChannelHandler == transport = "tcpmux" /\ HandleMessage({})
KcpChannelHandler    == transport = "kcp"    /\ HandleMessage({})
QuicChannelHandler   == transport = "quic"   /\ HandleMessage({})
UdpChannelHandler    == transport = "udp"    /\ HandleMessage({"rtt"})
WsChannelHandler     == transport = "ws"     /\ HandleMessage({"hb"})
WsMuxChannelHandler  == transport = "wsmux"  /\ HandleMessage({"hb"})

(* The handler sees the end of its generation.                              *)
HandlerEnds ==
  /\ handler /\ restarting
  /\ handler' = FALSE
  /\ UNCHANGED <<rigidVars, dialer, sent, probeVars, conn, on, reader, msgChan, restarting, pending,
                 status, faults, endpointVars>>

channelHandler ==
  \/ ReadFails \/ HandlerEnds
  \/ TcpChannelHandler \/ TcpMuxChannelHandler \/ KcpChannelHandler \/ QuicChannelHandler
  \/ UdpChannelHandler \/ WsChannelHandler \/ WsMuxChannelHandler

-----------------------------------------------------------------------------
(* Restart. *)

(* A Restart that finds another one under way gives up.                     *)
AlreadyRestarting ==
  /\ pending > 0 /\ restarting
  /\ pending' = pending - 1
  /\ UNCHANGED <<rigidVars, dialer, sent, probeVars, conn, on, channelVars, restarting, status,
                 faults, endpointVars>>

(* The others cancel the generation and close the control channel ...       *)
RestartStops ==
  /\ pending > 0 /\ ~restarting
  /\ pending' = pending - 1
  /\ restarting' = TRUE
  /\ conn' = IF conn = "up" THEN "closed" ELSE conn
  /\ UNCHANGED <<rigidVars, dialer, sent, probeVars, on, channelVars, status, faults, endpointVars>>

(* ... and start the next one once everything of the last has ended.        *)
RestartStarts(probes) ==
  /\ restarting
  /\ pending = 0 /\ ~reader /\ ~handler
  /\ restarting' = FALSE
  /\ conn' = "none" /\ msgChan' = <<>>
  /\ IF probes THEN legacy' = FALSE /\ misses' = 0 /\ UNCHANGED answered ELSE UNCHANGED probeVars
  /\ dialer' = "dialing" /\ status' = "Disconnected"
  /\ UNCHANGED <<rigidVars, sent, on, reader, handler, pending, faults, endpointVars>>

TcpRestart    == transport = "tcp"    /\ RestartStarts(TRUE)
TcpMuxRestart == transport = "tcpmux" /\ RestartStarts(TRUE)
KcpRestart    == transport = "kcp"    /\ RestartStarts(FALSE)
QuicRestart   == transport = "quic"   /\ RestartStarts(FALSE)
UdpRestart    == transport = "udp"    /\ RestartStarts(FALSE)
WsRestart     == transport = "ws"     /\ RestartStarts(FALSE)
WsMuxRestart  == transport = "wsmux"  /\ RestartStarts(FALSE)

Restart ==
  \/ AlreadyRestarting \/ RestartStops
  \/ TcpRestart \/ TcpMuxRestart \/ KcpRestart \/ QuicRestart \/ UdpRestart \/ WsRestart
  \/ WsMuxRestart

-----------------------------------------------------------------------------
(* A pool connection is dialled while the control channel is up.            *)
DialsPool(at) ==
  /\ conn = "up" /\ ~restarting
  /\ Next(at)
  /\ UNCHANGED <<rigidVars, dialer, sent, probeVars, conn, on, channelVars, restarting, pending,
                 status, faults>>

Steers ==
  /\ \E up \in SUBSET Positions, best \in Positions, clear \in BOOLEAN : steerLoop(up, best, clear)
  /\ UNCHANGED <<rigidVars, dialer, sent, probeVars, conn, on, channelVars, restarting, pending,
                 status, faults>>

Step ==
  \/ channelDialer \/ channelHandler \/ Restart \/ Breaks
  \/ \E m \in Messages : Receive(m)
  \/ \E at \in Positions : DialsPool(at)
  \/ Steers

Spec == Init /\ [][Step]_vars

(* Goroutines run and timers fire; the failures of a good endpoint, the     *)
(* server's messages and the scores are the environment's.                  *)
Fairness ==
  /\ WF_vars(Claims \/ Retries \/ ((DialFails \/ NotSent) /\ UNCHANGED faults))
  /\ SF_vars(Established)
  /\ WF_vars((NoAnswer(transport \in AckRotates) \/ Refused) /\ UNCHANGED faults)
  /\ WF_vars(channelHandler) /\ WF_vars(Restart)

FairSpec == Spec /\ Fairness

-----------------------------------------------------------------------------
(* Properties. *)

TypeOK ==
  /\ EndpointsTypeOK
  /\ dialer \in {"off", "dialing", "awaiting", "waiting"} /\ sent \in {"v1", "v2"}
  /\ legacy \in BOOLEAN /\ answered \in BOOLEAN /\ misses \in 0 .. legacyMissThreshold
  /\ conn \in {"none", "up", "closed"} /\ on \in Positions
  /\ reader \in BOOLEAN /\ handler \in BOOLEAN /\ msgChan \in Seq(Messages) /\ Len(msgChan) <= 1
  /\ restarting \in BOOLEAN /\ pending \in 0 .. 2
  /\ status \in {"Disconnected", "Connected"} /\ faults \in 0 .. MaxFaults

(* A server that has answered the current handshake is never dialled with   *)
(* the old one again: closed connections and restarts after that do not     *)
(* make the client forget which server it talks to.                         *)
NeverDowngraded == answered /\ dialer = "awaiting" /\ transport \in Probing => sent = "v2"

(* Every data connection uses the endpoint the control channel is with,     *)
(* unless the pool is spread or steered on purpose.                         *)
PoolFollowsControl == conn = "up" /\ ~spread /\ ~steer => Current = on

(* steerLoop changes exits only when it is earned.                          *)
SteeringIsEarned == [][dialer' = dialer => SteersWhenEarned]_vars

(* An endpoint that is dialled and that its failures do not make the        *)
(* client leave: no transport but the websocket ones leaves one that        *)
(* refuses, and only those and kcp and quic leave one that is mute.         *)
NeverLeft(e) ==
  \/ kind[e] = "refusing" /\ transport \notin Websocket
  \/ kind[e] = "mute" /\ transport \notin Websocket \cup AckRotates

(* With one endpoint that works, the client gets its control channel up and *)
(* keeps it once failures end, or it stays for good with an endpoint before *)
(* that one in its walk that it never leaves, however well the others work. *)
(* Not promised by steering, whose probe is not the tunnel.                 *)
Connects ==
  ~steer => <>[](conn = "up") \/ <>[](conn # "up" /\ NeverLeft(Current))
=============================================================================
