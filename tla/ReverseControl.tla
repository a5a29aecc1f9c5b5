--------------------------- MODULE ReverseControl ---------------------------
(***************************************************************************)
(* The control channel and the pool of a reverse tunnel over TCP, plain or *)
(* multiplexed, across the runs of the server: how a connection is         *)
(* admitted while the run it was accepted in is set up, torn down and      *)
(* replaced (tcp.go and tcpmux.go of the server, with announce.go,         *)
(* control.go and poolnonce.go), and the clients that claim the control    *)
(* channel and fill the pool (tcp.go of the client).  With tcpmux a pool   *)
(* connection is a session of the mux version the handshake settled; the   *)
(* configuration leaves the version to it.                                 *)
(*                                                                         *)
(* A run has its own channels and listener; controlChannel and poolNonce   *)
(* belong to the transport and outlive it.  Only the present run is kept:  *)
(* a connection of an earlier one is marked stale.  The two seconds that   *)
(* Restart sleeps are taken to be longer than the goroutines of the run it *)
(* stopped need to notice, admissions excepted, which wait for the peer.   *)
(***************************************************************************)
EXTENDS Integers, Sequences, FiniteSetsExt

CONSTANTS
  Transports,   \* the transports a behaviour may be of, among "tcp" and "tcpmux"
  Conns,        \* connections that can exist at once: 1 .. n
  Clients,      \* processes that hold the token
  Hosts,        \* source addresses they dial from
  Signals,      \* the handshakes clients speak, among "v2" and "legacy"
  Nonces,       \* pool nonces that can be told apart: 1 .. n
  ChannelSize,  \* capacity of tunnelChannel
  MaxFaults     \* bound: broken connections, client and server restarts

ASSUME ConnAssumption   == Conns \subseteq Nat \ {0} /\ Nonces \subseteq Nat \ {0}
ASSUME SignalAssumption == Signals \subseteq {"v2", "legacy"}
ASSUME SizeAssumption   == ChannelSize \in Nat /\ MaxFaults \in Nat

VARIABLES
  transport,         \* chosen once
  muxVersion,        \* 0 while none is settled
  run,               \* where start, channelHandshake and Restart stand
  controlChannel,    \* the connection it holds, 0 for nil
  poolNonce,         \* 0 for ""
  handshakeChannel,  \* of the present run
  tunnelChannel,     \* of the present run
  conns,
  clients,
  faults

mux    == <<transport, muxVersion>>
server == <<mux, run, controlChannel, poolNonce, handshakeChannel, tunnelChannel>>
vars   == <<server, conns, clients, faults>>

(* A connection: where its admission stands, whose it is, what it is for,   *)
(* whether the run that accepted it is over, whether its announcement and   *)
(* the answer to it are on their way, the nonce it presents or was given,   *)
(* whether the client's end is closed, and the version of its mux session.  *)
Free == [st |-> "free", who |-> "nobody", host |-> "nowhere", kind |-> "none",
         stale |-> FALSE, sent |-> FALSE, acked |-> FALSE, nonce |-> 0, cut |-> FALSE, mux |-> 0]

Down == [st |-> "down", conn |-> 0, nonce |-> 0]

Init ==
  /\ transport \in Transports /\ muxVersion = 0
  /\ run = "waiting"
  /\ controlChannel = 0 /\ poolNonce = 0
  /\ handshakeChannel = <<>> /\ tunnelChannel = {}
  /\ conns = [c \in Conns |-> Free]
  /\ clients = [k \in Clients |-> Down]
  /\ faults = 0

FreeConns   == {c \in Conns : conns[c].st = "free"}
FreshNonces == Nonces \ ({conns[c].nonce : c \in Conns} \cup {clients[k].nonce : k \in Clients}
                         \cup {poolNonce})
newConn  == CHOOSE c \in FreeConns : TRUE
newNonce == CHOOSE n \in FreshNonces : TRUE

Move(c, st) == conns' = [conns EXCEPT ![c].st = st]

(* The server closes c: its client has yet to see it, if it still looks.    *)
Closed(c) == IF clients[conns[c].who].conn = c THEN [conns[c] EXCEPT !.st = "gone"] ELSE Free
Close(c)  == conns' = [conns EXCEPT ![c] = Closed(c)]

-----------------------------------------------------------------------------
(* Admission: one goroutine per accepted connection. *)

(* admitTunnelConn looks at the control channel ...                         *)
CheckControl(c) ==
  /\ conns[c].st = "accepted"
  /\ Move(c, IF controlChannel # 0 THEN "controlled" ELSE "announcing")
  /\ UNCHANGED <<server, clients, faults>>

(* ... and then at the nonce: a control channel without one is a legacy     *)
(* client's.                                                                *)
CheckNonce(c) ==
  /\ conns[c].st = "controlled"
  /\ Move(c, IF poolNonce = 0 THEN "legacy" ELSE "announcing")
  /\ UNCHANGED <<server, clients, faults>>

(* The version smux.Client is given; plain tcp makes no session.            *)
smuxCfg == IF muxVersion = 2 THEN 2 ELSE 1
Pool(c) == conns' = [conns EXCEPT ![c].st = "pool",
                                  ![c].mux = IF transport = "tcpmux" THEN smuxCfg ELSE 0]

deliverIntoAnyRunMutant(c) ==
  /\ Cardinality(tunnelChannel) <= ChannelSize
  /\ Pool(c)
  /\ tunnelChannel' = tunnelChannel \cup {c}

(* deliverTunnelConn: into the pool of the run that accepted c, unless it   *)
(* is full.  A pool of a run that is over is never read again.              *)
deliverTunnelConn(c) ==
  \/ /\ ~conns[c].stale
     /\ Cardinality(tunnelChannel) < ChannelSize
     /\ Pool(c)
     /\ tunnelChannel' = tunnelChannel \cup {c}
  \/ /\ ~conns[c].stale
     /\ Cardinality(tunnelChannel) >= ChannelSize
     /\ Close(c)
     /\ UNCHANGED tunnelChannel
  \/ /\ conns[c].stale
     /\ \/ Move(c, "lost")
        \/ Close(c)
     /\ UNCHANGED tunnelChannel

(* The branch for legacy clients: the source address decides, as long as    *)
(* there is a control channel to compare it with.                           *)
FromPeer(c) == controlChannel # 0 => conns[controlChannel].host = conns[c].host

AdmitLegacy(c) ==
  /\ conns[c].st = "legacy"
  /\ \/ /\ ~FromPeer(c)
        /\ Close(c)
        /\ UNCHANGED tunnelChannel
     \/ /\ FromPeer(c)
        /\ deliverTunnelConn(c)
  /\ UNCHANGED <<mux, run, controlChannel, poolNonce, handshakeChannel, clients, faults>>

(* readAnnouncement fails: nothing came in time, or the peer went away.     *)
AnnounceFails(c) ==
  /\ conns[c].st = "announcing"
  /\ ~conns[c].sent \/ conns[c].cut
  /\ Close(c)
  /\ UNCHANGED <<server, clients, faults>>

(* PoolNonce.Verify *)
Verify(n) == poolNonce # 0 /\ n = poolNonce

(* SG_Pool *)
AdmitPool(c) ==
  /\ conns[c].st = "announcing" /\ conns[c].sent
  /\ conns[c].kind = "pool"
  /\ \/ /\ Verify(conns[c].nonce)
        /\ deliverTunnelConn(c)
     \/ /\ ~Verify(conns[c].nonce)
        /\ Close(c)
        /\ UNCHANGED tunnelChannel
  /\ UNCHANGED <<mux, run, controlChannel, poolNonce, handshakeChannel, clients, faults>>

(* admitControlChannel, first the refusal: a control channel is in use.     *)
AdmitClaim(c) ==
  /\ conns[c].st = "announcing" /\ conns[c].sent
  /\ conns[c].kind \in Signals
  /\ \/ /\ controlChannel # 0
        /\ Close(c)
     \/ /\ controlChannel = 0
        /\ Move(c, "claimed")
  /\ UNCHANGED <<server, clients, faults>>

(* Then controlAck and the answer, with a fresh nonce for a v2 client ...   *)
AckClaim(c) ==
  /\ conns[c].st = "claimed"
  /\ \/ /\ conns[c].kind = "v2"
        /\ FreshNonces # {}
        /\ conns' = [conns EXCEPT ![c].st = "answered", ![c].acked = TRUE,
                                  ![c].nonce = newNonce]
     \/ /\ conns[c].kind = "legacy"
        /\ conns' = [conns EXCEPT ![c].st = "answered", ![c].acked = TRUE]
  /\ UNCHANGED <<server, clients, faults>>

(* ... and last the offer to channelHandshake, which holds one candidate.   *)
OfferCandidate(c) ==
  /\ conns[c].st = "answered"
  /\ \/ /\ ~conns[c].stale
        /\ handshakeChannel = <<>>
        /\ handshakeChannel' = <<c>>
        /\ Move(c, "candidate")
     \/ /\ ~conns[c].stale
        /\ handshakeChannel # <<>>
        /\ Close(c)
        /\ UNCHANGED handshakeChannel
     \/ /\ conns[c].stale
        /\ Move(c, "lost") \/ Close(c)
        /\ UNCHANGED handshakeChannel
  /\ UNCHANGED <<mux, run, controlChannel, poolNonce, tunnelChannel, clients, faults>>

-----------------------------------------------------------------------------
(* The run: channelHandshake, channelHandler, Restart. *)

TakeCandidate ==
  /\ run = "waiting"
  /\ handshakeChannel # <<>>
  /\ run' = "taken"
  /\ Move(Head(handshakeChannel), "taken")
  /\ handshakeChannel' = <<>>
  /\ UNCHANGED <<mux, controlChannel, poolNonce, tunnelChannel, clients, faults>>

Taken == CHOOSE c \in Conns : conns[c].st = "taken"

(* poolNonce.Set comes before controlChannel.Set ...                        *)
PublishNonce ==
  /\ run = "taken"
  /\ run' = "noncePublished"
  /\ poolNonce' = conns[Taken].nonce
  /\ UNCHANGED <<mux, controlChannel, handshakeChannel, tunnelChannel, conns, clients, faults>>

(* ... and so does the mux version, which a legacy client was told nothing  *)
(* about.                                                                   *)
setMuxVersion ==
  /\ run = "noncePublished" /\ transport = "tcpmux"
  /\ run' = "muxPublished"
  /\ muxVersion' = IF conns[Taken].kind = "v2" THEN 2 ELSE 1
  /\ UNCHANGED <<transport, controlChannel, poolNonce, handshakeChannel, tunnelChannel, conns,
                 clients, faults>>

(* With the control channel the run is up. *)
PublishControl ==
  /\ run = IF transport = "tcpmux" THEN "muxPublished" ELSE "noncePublished"
  /\ run' = "up"
  /\ controlChannel' = Taken
  /\ Move(Taken, "control")
  /\ UNCHANGED <<mux, poolNonce, handshakeChannel, tunnelChannel, clients, faults>>

(* channelHandler finds the control channel broken and Restart stops the    *)
(* run.  Other calls of Restart find restartMutex taken.                    *)
RestartStops ==
  /\ run = "up"
  /\ conns[controlChannel].cut
  /\ run' = "stopping"
  /\ UNCHANGED <<mux, controlChannel, poolNonce, handshakeChannel, tunnelChannel, conns, clients, faults>>

RestartKeepsControlMutant ==
  /\ run = "stopping"
  /\ run' = "clearing"
  /\ Close(controlChannel)
  /\ UNCHANGED <<mux, controlChannel, poolNonce, handshakeChannel, tunnelChannel, clients, faults>>

(* After the sleep: controlChannel.Clear ...                                *)
RestartClears ==
  /\ run = "stopping"
  /\ run' = "clearing"
  /\ controlChannel' = 0
  /\ Close(controlChannel)
  /\ UNCHANGED <<mux, poolNonce, handshakeChannel, tunnelChannel, clients, faults>>

(* What becomes of the connections of a run when it is replaced: those in   *)
(* its channels are forgotten there, those being admitted go on.            *)
Replaced(c) ==
  CASE conns[c].st = "free"                -> Free
    [] conns[c].st \in {"pool", "candidate"} -> [conns[c] EXCEPT !.st = "lost", !.stale = TRUE]
    [] OTHER                               -> [conns[c] EXCEPT !.stale = TRUE]

RestartKeepsNonceMutant ==
  /\ run = "clearing"
  /\ run' = "waiting"
  /\ handshakeChannel' = <<>> /\ tunnelChannel' = {}
  /\ conns' = [c \in Conns |-> Replaced(c)]
  /\ UNCHANGED <<mux, controlChannel, poolNonce, clients, faults>>

(* ... the nonce and the version, and the next run with its own channels.   *)
RestartStarts ==
  /\ run = "clearing"
  /\ run' = "waiting"
  /\ poolNonce' = 0 /\ muxVersion' = 0
  /\ handshakeChannel' = <<>> /\ tunnelChannel' = {}
  /\ conns' = [c \in Conns |-> Replaced(c)]
  /\ UNCHANGED <<transport, controlChannel, clients, faults>>

(* handleLoop pairs a pool connection with a local one and it is used up.   *)
UsePoolConn(c) ==
  /\ run = "up"
  /\ c \in tunnelChannel
  /\ tunnelChannel' = tunnelChannel \ {c}
  /\ Close(c)
  /\ UNCHANGED <<mux, run, controlChannel, poolNonce, handshakeChannel, clients, faults>>

(* The Go runtime closes a connection that nothing refers to any more.      *)
Collect(c) ==
  /\ conns[c].st = "lost"
  /\ Close(c)
  /\ UNCHANGED <<server, clients, faults>>

-----------------------------------------------------------------------------
(* The clients. *)

listening == run \in {"waiting", "taken", "noncePublished", "muxPublished", "up"}

(* The client lets go of its control connection. *)
Released(c) == IF conns[c].st = "gone" THEN Free ELSE [conns[c] EXCEPT !.cut = TRUE]
LetGo(k) ==
  /\ clients' = [clients EXCEPT ![k] = Down]
  /\ conns' = [conns EXCEPT ![clients[k].conn] = Released(clients[k].conn)]

(* A connection as the server accepts it. *)
Accepted(k, h, kind, sent) ==
  [st |-> "accepted", who |-> k, host |-> h, kind |-> kind, stale |-> FALSE, sent |-> sent,
   acked |-> FALSE, nonce |-> 0, cut |-> FALSE, mux |-> 0]

(* channelDialer: connect and claim. *)
Dial(k, h, s) ==
  /\ clients[k].st = "down"
  /\ listening
  /\ FreeConns # {}
  /\ conns' = [conns EXCEPT ![newConn] = Accepted(k, h, s, TRUE)]
  /\ clients' = [clients EXCEPT ![k] = [st |-> "claiming", conn |-> newConn, nonce |-> 0]]
  /\ UNCHANGED <<server, faults>>

(* The answer arrives: the client is up. *)
TakeAck(k) ==
  /\ clients[k].st = "claiming"
  /\ conns[clients[k].conn].acked
  /\ clients' = [clients EXCEPT ![k].st = "up", ![k].nonce = conns[clients[k].conn].nonce]
  /\ UNCHANGED <<server, conns, faults>>

(* No answer: the connection was closed or refused, or it went where no     *)
(* answer comes from, and controlAckTimeout passes.                         *)
ClaimFails(k) ==
  /\ clients[k].st = "claiming"
  /\ ~conns[clients[k].conn].acked
  /\ conns[clients[k].conn].st \in {"gone", "pool", "lost"}
  /\ LetGo(k)
  /\ UNCHANGED <<server, faults>>

(* The client's channelHandler reads the end of the connection, or hears no *)
(* heartbeat for controlDeadline because no run holds its connection.       *)
ControlLost(k) ==
  /\ clients[k].st = "up"
  /\ \/ conns[clients[k].conn].st \in {"gone", "lost"}
     \/ conns[clients[k].conn].st = "candidate" /\ run \notin {"waiting", "taken"}
     \/ conns[clients[k].conn].cut
  /\ LetGo(k)
  /\ UNCHANGED <<server, faults>>

(* tunnelDialer, in two steps: it connects, and announces what the client's *)
(* poolNonce holds by then.                                                 *)
DialPool(k, h) ==
  /\ clients[k].st = "up"
  /\ listening
  /\ FreeConns # {}
  /\ conns' = [conns EXCEPT ![newConn] = Accepted(k, h, "pool", FALSE)]
  /\ UNCHANGED <<server, clients, faults>>

announcePoolConn(c) ==
  /\ conns[c].kind = "pool" /\ ~conns[c].sent
  /\ clients[conns[c].who].nonce # 0
  /\ conns' = [conns EXCEPT ![c].sent = TRUE, ![c].nonce = clients[conns[c].who].nonce]
  /\ UNCHANGED <<server, clients, faults>>

-----------------------------------------------------------------------------
(* Faults. *)

(* A connection breaks on the way, or its client's process is restarted.    *)
Break(k) ==
  /\ faults < MaxFaults
  /\ faults' = faults + 1
  /\ clients[k].st # "down"
  /\ \/ LetGo(k)
     \/ /\ ~conns[clients[k].conn].cut
        /\ conns' = [conns EXCEPT ![clients[k].conn].cut = TRUE]
        /\ UNCHANGED clients
  /\ UNCHANGED server

(* The server's process is restarted: the kernel closes every connection.   *)
ServerRestarts ==
  /\ faults < MaxFaults
  /\ faults' = faults + 1
  /\ run' = "waiting"
  /\ controlChannel' = 0 /\ poolNonce' = 0 /\ muxVersion' = 0
  /\ handshakeChannel' = <<>> /\ tunnelChannel' = {}
  /\ conns' = [c \in Conns |-> IF conns[c].st = "free" THEN Free ELSE Closed(c)]
  /\ UNCHANGED <<transport, clients>>

AdmissionStep(c) ==
  \/ CheckControl(c) \/ CheckNonce(c) \/ AdmitLegacy(c) \/ AnnounceFails(c)
  \/ AdmitPool(c) \/ AdmitClaim(c) \/ AckClaim(c) \/ OfferCandidate(c)

(* channelHandshake, and Restart with channelHandler that calls it.         *)
HandshakeStep == TakeCandidate \/ PublishNonce \/ setMuxVersion \/ PublishControl
RestartStep   == RestartStops \/ RestartClears \/ RestartStarts

TcpAdmission(c)    == transport = "tcp"    /\ AdmissionStep(c)
TcpMuxAdmission(c) == transport = "tcpmux" /\ AdmissionStep(c)
TcpHandshake       == transport = "tcp"    /\ HandshakeStep
TcpMuxHandshake    == transport = "tcpmux" /\ HandshakeStep
TcpRestart         == transport = "tcp"    /\ RestartStep
TcpMuxRestart      == transport = "tcpmux" /\ RestartStep

Admission(c) == TcpAdmission(c) \/ TcpMuxAdmission(c)
RunStep      == TcpHandshake \/ TcpMuxHandshake \/ TcpRestart \/ TcpMuxRestart

ClientStep(k) == TakeAck(k) \/ ClaimFails(k) \/ ControlLost(k)
Claim(k)      == \E h \in Hosts, s \in Signals : Dial(k, h, s)

Next ==
  \/ \E c \in Conns : Admission(c) \/ UsePoolConn(c) \/ Collect(c) \/ announcePoolConn(c)
  \/ RunStep
  \/ \E k \in Clients : Claim(k) \/ ClientStep(k) \/ Break(k) \/ \E h \in Hosts : DialPool(k, h)
  \/ ServerRestarts

Spec == Init /\ [][Next]_vars

(* Goroutines get to run, the peers' timers fire, clients keep dialling and *)
(* the path carries what it is given unless a fault says otherwise.         *)
Fairness ==
  /\ \A c \in Conns : WF_vars(Admission(c)) /\ WF_vars(UsePoolConn(c)) /\ WF_vars(Collect(c))
  /\ WF_vars(RunStep)
  /\ \A k \in Clients : WF_vars(ClientStep(k)) /\ SF_vars(Claim(k))

FairSpec == Spec /\ Fairness

-----------------------------------------------------------------------------
(* Properties. *)

States == {"free", "accepted", "controlled", "legacy", "announcing", "claimed", "answered",
           "candidate", "taken", "control", "pool", "lost", "gone"}

(* Every field holds what it can hold, the channels are within capacity and *)
(* hold connections that are filed there, and a client that is not down has *)
(* a connection of its own.                                                 *)
TypeOK ==
  /\ transport \in Transports /\ muxVersion \in 0 .. 2
  /\ run \in {"waiting", "taken", "noncePublished", "muxPublished", "up", "stopping", "clearing"}
  /\ controlChannel \in Conns \cup {0}
  /\ poolNonce \in Nonces \cup {0}
  /\ Len(handshakeChannel) <= 1
  /\ \A n \in DOMAIN handshakeChannel : conns[handshakeChannel[n]].st = "candidate"
  /\ tunnelChannel = {c \in Conns : conns[c].st = "pool"}
  /\ Cardinality(tunnelChannel) <= ChannelSize
  /\ conns \in [Conns -> {Free} \cup
                 [st : States \ {"free"}, who : Clients, host : Hosts, kind : Signals \cup {"pool"},
                  stale : BOOLEAN, sent : BOOLEAN, acked : BOOLEAN, nonce : Nonces \cup {0},
                  cut : BOOLEAN, mux : 0 .. 2]]
  /\ clients \in [Clients -> {Down} \cup
                   [st : {"claiming", "up"}, conn : Conns, nonce : Nonces \cup {0}]]
  /\ \A k \in Clients : clients[k] # Down => conns[clients[k].conn].who = k
  /\ faults \in 0 .. MaxFaults

(* Every connection in the pool of the run that pairs them is there on that *)
(* run's authority: it presented the nonce of the client the run was handed *)
(* to, or the run is a legacy client's and it came from that client's host. *)
(* A nonce of an earlier run, or an admission that read half of its checks  *)
(* before a restart and half after, never gets a connection in.             *)
PoolIsAuthorised ==
  listening => \A c \in tunnelChannel :
    IF poolNonce # 0 THEN conns[c].nonce = poolNonce
                     ELSE controlChannel # 0 /\ conns[c].host = conns[controlChannel].host

(* The server holds the connection some client takes for its control channel.*)
Connected ==
  /\ run = "up"
  /\ \E k \in Clients : clients[k].st = "up" /\ clients[k].conn = controlChannel

(* After broken connections, restarts of either process, rival claims and   *)
(* claims that were answered and then left in a buffer, the server and a    *)
(* client agree on a control channel again.                                 *)
Reconnects == []<>Connected
=============================================================================
