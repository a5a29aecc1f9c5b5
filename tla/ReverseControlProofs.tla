------------------------ MODULE ReverseControlProofs ------------------------
(***************************************************************************)
(* What ReverseControl keeps, for any number of connections, clients,      *)
(* hosts and nonces, any capacity of the pool and any number of faults: its*)
(* types, and that every connection in the pool of a run is there on that  *)
(* run's authority.                                                        *)
(***************************************************************************)
EXTENDS ReverseControl, FiniteSetTheorems, TLAPS

Conn == [st : States \ {"free"}, who : Clients, host : Hosts, kind : Signals \cup {"pool"},
         stale : BOOLEAN, sent : BOOLEAN, acked : BOOLEAN, nonce : Nonces \cup {0},
         cut : BOOLEAN, mux : 0 .. 2]
Runs == {"waiting", "taken", "noncePublished", "muxPublished", "up", "stopping", "clearing"}

(* The inductive invariant, in parts: the server's own variables, ...       *)
ServerOK ==
  /\ transport \in Transports /\ muxVersion \in 0 .. 2
  /\ run \in Runs
  /\ controlChannel \in Conns \cup {0}
  /\ poolNonce \in Nonces \cup {0}
  /\ faults \in 0 .. MaxFaults

(* ... connections, where only a claim or a pool connection that announced  *)
(* itself has a nonce, and only the present run has a pool, ...             *)
ConnOK(d) ==
  /\ d \in {Free} \cup Conn
  /\ d.sent \/ d.nonce = 0
  /\ d.kind \in Signals => d.sent
  /\ d.st = "pool" => ~d.stale
ConnsOK == conns \in [Conns -> {Free} \cup Conn] /\ \A c \in Conns : ConnOK(conns[c])

(* ... clients, each with a connection of its own unless it is down, ...    *)
ClientsOK ==
  /\ clients \in [Clients -> {Down} \cup [st : {"claiming", "up"}, conn : Conns, nonce : Nonces \cup {0}]]
  /\ \A k \in Clients : clients[k] # Down =>
       conns[clients[k].conn].who = k /\ conns[clients[k].conn].st # "free"

(* ... the channels of the present run, ...                                 *)
ChannelsOK ==
  /\ handshakeChannel \in Seq(Conns) /\ Len(handshakeChannel) <= 1
  /\ \A n \in DOMAIN handshakeChannel : conns[handshakeChannel[n]].st = "candidate"
  /\ tunnelChannel = {c \in Conns : conns[c].st = "pool"}
  /\ IsFiniteSet(tunnelChannel) /\ Cardinality(tunnelChannel) <= ChannelSize

(* ... what is published at each point of a run, ...                        *)
RunOK ==
  /\ run \in {"waiting", "taken"} => poolNonce = 0 /\ tunnelChannel = {}
  /\ run \in {"up", "stopping"} => controlChannel # 0 /\ conns[controlChannel].st = "control"
  /\ run \notin {"up", "stopping"} => controlChannel = 0
  /\ run \in {"taken", "noncePublished", "muxPublished"} => \E c \in Conns : conns[c].st = "taken"

(* ... and how far a connection of the present run can have come by then:   *)
(* its checks saw this run's control channel and nonce.                     *)
ChecksOK ==
  \A c \in Conns : ~conns[c].stale =>
    /\ conns[c].st \in {"controlled", "legacy"} => run \in {"up", "stopping", "clearing"}
    /\ conns[c].st = "legacy" => poolNonce = 0

IInv == ServerOK /\ ConnsOK /\ ClientsOK /\ ChannelsOK /\ RunOK /\ ChecksOK /\ PoolIsAuthorised

USE ConnAssumption, SignalAssumption, SizeAssumption

-----------------------------------------------------------------------------
(* The parts the actions are made of. *)

(* A connection that is in use has every field of one.                      *)
LEMMA InUse ==
  ASSUME NEW d \in {Free} \cup Conn, d.st # "free"
  PROVE  d \in Conn
  BY DEF Free

(* Filing a connection elsewhere changes nothing else of it.                *)
LEMMA MovedOK ==
  ASSUME NEW d \in Conn, ConnOK(d), NEW st \in States \ {"free"}, st = "pool" => ~d.stale
  PROVE  LET e == [d EXCEPT !.st = st] IN
         /\ ConnOK(e) /\ e \in Conn /\ e.st = st
         /\ e.who = d.who /\ e.host = d.host /\ e.stale = d.stale
  BY DEF ConnOK, Conn

(* A closed connection is its client's to notice, or free.                  *)
LEMMA ClosedOK ==
  ASSUME ConnsOK, ClientsOK, NEW c \in Conns, conns[c] \in Conn
  PROVE  /\ ConnOK(Closed(c))
         /\ \/ Closed(c) = Free /\ \A k \in Clients : clients[k] # Down => clients[k].conn # c
            \/ Closed(c).st = "gone" /\ Closed(c).who = conns[c].who
  <1>1. ConnOK(Free)
    BY DEF ConnOK, Free
  <1>2. ConnOK([conns[c] EXCEPT !.st = "gone"])
    BY DEF ConnsOK, ConnOK, Conn, States
  <1>3. conns[c].who \in Clients /\ [conns[c] EXCEPT !.st = "gone"].who = conns[c].who
                                 /\ [conns[c] EXCEPT !.st = "gone"].st = "gone"
    BY DEF Conn
  <1> QED
    BY <1>1, <1>2, <1>3 DEF Closed, ClientsOK, ConnsOK

(* When one connection changes, every client that has one still has it,    *)
(* unless it was freed and nobody's.                                        *)
LEMMA ClientsKept ==
  ASSUME ClientsOK, NEW c \in Conns, UNCHANGED clients,
         \A x \in Conns : x # c => conns'[x] = conns[x],
         \/ \A k \in Clients : clients[k] # Down => clients[k].conn # c
         \/ conns'[c].st # "free" /\ conns'[c].who = conns[c].who
  PROVE  ClientsOK'
  BY DEF ClientsOK

(* What waits in handshakeChannel is still a candidate there.               *)
LEMMA CandidatesKept ==
  ASSUME ChannelsOK, NEW c \in Conns, UNCHANGED handshakeChannel,
         \A x \in Conns : x # c => conns'[x] = conns[x], conns[c].st # "candidate"
  PROVE  /\ handshakeChannel' \in Seq(Conns) /\ Len(handshakeChannel') <= 1
         /\ \A n \in DOMAIN handshakeChannel' : conns'[handshakeChannel'[n]].st = "candidate"
  <1>1. \A n \in DOMAIN handshakeChannel : handshakeChannel[n] \in Conns
    BY DEF ChannelsOK
  <1>2. \A n \in DOMAIN handshakeChannel : handshakeChannel[n] # c
    BY DEF ChannelsOK
  <1> QED
    BY <1>1, <1>2 DEF ChannelsOK

(* One connection changes that is in none of the places the run looks at,   *)
(* and comes to none.                                                       *)
Aside(d) == d.st \notin {"pool", "candidate", "control", "taken"}
LEMMA AsideKeeps ==
  ASSUME IInv, NEW c \in Conns, NEW d,
         conns' = [conns EXCEPT ![c] = d], UNCHANGED <<server, clients, faults>>,
         Aside(conns[c]), Aside(d), ConnOK(d),
         \/ d = Free /\ \A k \in Clients : clients[k] # Down => clients[k].conn # c
         \/ d.st # "free" /\ d.who = conns[c].who,
         ~d.stale => /\ d.st \in {"controlled", "legacy"} => run \in {"up", "stopping", "clearing"}
                     /\ d.st = "legacy" => poolNonce = 0
  PROVE  IInv'
  <1>1. conns'[c] = d /\ \A x \in Conns : x # c => conns'[x] = conns[x]
    BY DEF IInv, ConnsOK
  <1>2. ConnsOK'
    BY <1>1 DEF IInv, ConnsOK, ConnOK
  <1>3. ClientsOK'
    BY <1>1, ClientsKept DEF IInv
  <1>4. tunnelChannel' = {x \in Conns : conns'[x].st = "pool"}
    BY <1>1 DEF IInv, ChannelsOK, server, Aside
  <1>5. ChannelsOK'
    BY <1>1, <1>4 DEF IInv, ChannelsOK, server, Aside
  <1>6. RunOK'
    BY <1>1 DEF IInv, RunOK, server, Aside, ServerOK
  <1>7. ChecksOK'
    BY <1>1 DEF IInv, ChecksOK, server
  <1>8. PoolIsAuthorised'
    BY <1>1 DEF IInv, PoolIsAuthorised, server, listening, Aside, ChannelsOK, RunOK, ServerOK
  <1> QED
    BY <1>2, <1>3, <1>5, <1>6, <1>7, <1>8 DEF IInv, ServerOK, server, mux

(* Two ways of that: filing it elsewhere, and closing it.                   *)
LEMMA MoveKeeps ==
  ASSUME IInv, NEW c \in Conns, NEW st \in States \ {"free", "pool", "candidate", "control", "taken"},
         Move(c, st), UNCHANGED <<server, clients, faults>>,
         Aside(conns[c]), conns[c].st # "free",
         ~conns[c].stale => /\ st \in {"controlled", "legacy"} => run \in {"up", "stopping", "clearing"}
                            /\ st = "legacy" => poolNonce = 0
  PROVE  IInv'
  <1> DEFINE d == [conns[c] EXCEPT !.st = st]
  <1>1. conns[c] \in Conn /\ ConnOK(conns[c])
    BY InUse DEF IInv, ConnsOK
  <1>2. conns' = [conns EXCEPT ![c] = d]
    BY DEF Move
  <1>3. ConnOK(d) /\ d.st = st /\ d.who = conns[c].who /\ d.stale = conns[c].stale
    BY <1>1, MovedOK
  <1> QED
    BY <1>2, <1>3, AsideKeeps DEF Aside

LEMMA CloseKeeps ==
  ASSUME IInv, NEW c \in Conns, Close(c), UNCHANGED <<server, clients, faults>>,
         Aside(conns[c]), conns[c].st # "free"
  PROVE  IInv'
  <1>1. conns[c] \in Conn
    BY InUse DEF IInv, ConnsOK
  <1>2. /\ ConnOK(Closed(c))
        /\ \/ Closed(c) = Free /\ \A k \in Clients : clients[k] # Down => clients[k].conn # c
           \/ Closed(c).st = "gone" /\ Closed(c).who = conns[c].who
    BY <1>1, ClosedOK DEF IInv
  <1>3. Aside(Closed(c)) /\ Closed(c).st \notin {"controlled", "legacy"}
    BY <1>2 DEF Aside, Free
  <1>4. conns' = [conns EXCEPT ![c] = Closed(c)]
    BY DEF Close
  <1> QED
    BY <1>2, <1>3, <1>4, AsideKeeps

(* Into the pool: what authorises the connection has to hold by then.       *)
LEMMA DeliverKeeps ==
  ASSUME IInv, NEW c \in Conns, conns[c].st \in {"legacy", "announcing"}, deliverTunnelConn(c),
         UNCHANGED <<mux, run, controlChannel, poolNonce, handshakeChannel, clients, faults>>,
         ~conns[c].stale =>
           /\ run \notin {"waiting", "taken"}
           /\ listening => IF poolNonce # 0 THEN conns[c].nonce = poolNonce /\ conns[c].sent
                           ELSE controlChannel # 0 /\ conns[c].host = conns[controlChannel].host
  PROVE  IInv'
  <1>1. Aside(conns[c]) /\ conns[c].st # "free" /\ conns[c] \in Conn /\ ConnOK(conns[c])
    BY InUse DEF Aside, IInv, ConnsOK
  <1>2. CASE UNCHANGED tunnelChannel /\ Close(c)
    BY <1>1, <1>2, CloseKeeps DEF server
  <1>3. CASE UNCHANGED tunnelChannel /\ Move(c, "lost")
    BY <1>1, <1>3, MoveKeeps DEF server, States
  <1>4. CASE /\ ~conns[c].stale /\ Cardinality(tunnelChannel) < ChannelSize
             /\ Pool(c) /\ tunnelChannel' = tunnelChannel \cup {c}
    <2> DEFINE m == IF transport = "tcpmux" THEN smuxCfg ELSE 0
               d == [conns[c] EXCEPT !.st = "pool", !.mux = m]
    <2>1. conns' = [conns EXCEPT ![c] = d]
      BY <1>4, <1>1 DEF Pool, IInv, ConnsOK
    <2>2. ConnOK(d) /\ d.st = "pool" /\ d.who = conns[c].who /\ d.stale = conns[c].stale
            /\ d.host = conns[c].host /\ d.nonce = conns[c].nonce
      <3>1. m \in 0 .. 2
        BY DEF smuxCfg
      <3> QED
        BY <1>1, <1>4, <3>1 DEF ConnOK, Conn, States
    <2> HIDE DEF d
    <2>3. conns'[c] = d /\ \A x \in Conns : x # c => conns'[x] = conns[x]
      BY <2>1 DEF IInv, ConnsOK
    <2>4. ConnsOK'
      BY <2>1, <2>2, <2>3 DEF IInv, ConnsOK, ConnOK
    <2>5. ClientsOK'
      BY <2>2, <2>3, ClientsKept DEF IInv
    <2>6. ChannelsOK'
      <3>1. tunnelChannel' = {x \in Conns : conns'[x].st = "pool"}
        BY <1>4, <2>2, <2>3 DEF IInv, ChannelsOK
      <3>2. IsFiniteSet(tunnelChannel') /\ Cardinality(tunnelChannel') <= ChannelSize
        <4>1. c \notin tunnelChannel /\ IsFiniteSet(tunnelChannel)
          BY <1>1 DEF IInv, ChannelsOK, Aside
        <4>2. Cardinality(tunnelChannel) \in Nat
          BY <4>1, FS_CardinalityType
        <4>3. IsFiniteSet(tunnelChannel') /\ Cardinality(tunnelChannel') = Cardinality(tunnelChannel) + 1
          BY <4>1, <1>4, FS_AddElement
        <4> QED
          BY <4>2, <4>3, <1>4
      <3> QED
        BY <1>1, <2>3, <3>1, <3>2, CandidatesKept DEF IInv, ChannelsOK, Aside
    <2>7. RunOK'
      BY <1>1, <1>4, <2>3 DEF IInv, RunOK, Aside, ServerOK
    <2>8. ChecksOK'
      BY <2>2, <2>3 DEF IInv, ChecksOK
    <2>9. PoolIsAuthorised'
      BY <1>1, <1>4, <2>2, <2>3 DEF IInv, PoolIsAuthorised, listening, Aside, ChannelsOK, RunOK, ServerOK
    <2> QED
      BY <2>4, <2>5, <2>6, <2>7, <2>8, <2>9 DEF IInv, ServerOK, mux
  <1> QED
    BY <1>2, <1>3, <1>4 DEF deliverTunnelConn

-----------------------------------------------------------------------------
(* Admission, one lemma per action. *)

LEMMA CheckControlKeeps == ASSUME IInv, NEW c \in Conns, CheckControl(c) PROVE IInv'
  <1>1. Aside(conns[c]) /\ conns[c].st # "free"
    BY DEF CheckControl, Aside
  <1>2. controlChannel # 0 => run \in {"up", "stopping", "clearing"}
    BY DEF IInv, RunOK
  <1> QED
    BY <1>1, <1>2, MoveKeeps DEF CheckControl, States

LEMMA CheckNonceKeeps == ASSUME IInv, NEW c \in Conns, CheckNonce(c) PROVE IInv'
  <1>1. Aside(conns[c]) /\ conns[c].st # "free"
    BY DEF CheckNonce, Aside
  <1>2. ~conns[c].stale => run \in {"up", "stopping", "clearing"}
    BY DEF IInv, ChecksOK, CheckNonce
  <1> QED
    BY <1>1, <1>2, MoveKeeps DEF CheckNonce, States

LEMMA AdmitLegacyKeeps == ASSUME IInv, NEW c \in Conns, AdmitLegacy(c) PROVE IInv'
  <1>1. Aside(conns[c]) /\ conns[c].st # "free" /\ conns[c].st = "legacy"
    BY DEF AdmitLegacy, Aside
  <1>2. CASE Close(c) /\ UNCHANGED tunnelChannel
    BY <1>1, <1>2, CloseKeeps DEF AdmitLegacy, server
  <1>3. CASE FromPeer(c) /\ deliverTunnelConn(c)
    <2>1. ~conns[c].stale => run \in {"up", "stopping", "clearing"} /\ poolNonce = 0
      BY <1>1 DEF IInv, ChecksOK
    <2>2. listening /\ ~conns[c].stale =>
            controlChannel # 0 /\ conns[c].host = conns[controlChannel].host
      BY <1>3, <2>1 DEF listening, IInv, RunOK, FromPeer
    <2> QED
      BY <1>1, <1>3, <2>1, <2>2, DeliverKeeps DEF AdmitLegacy
  <1> QED
    BY <1>2, <1>3 DEF AdmitLegacy

LEMMA AnnounceFailsKeeps == ASSUME IInv, NEW c \in Conns, AnnounceFails(c) PROVE IInv'
  BY CloseKeeps DEF AnnounceFails, Aside

LEMMA AdmitPoolKeeps == ASSUME IInv, NEW c \in Conns, AdmitPool(c) PROVE IInv'
  <1>1. Aside(conns[c]) /\ conns[c].st # "free" /\ conns[c].st = "announcing" /\ conns[c].sent
    BY DEF AdmitPool, Aside
  <1>2. CASE Close(c) /\ UNCHANGED tunnelChannel
    BY <1>1, <1>2, CloseKeeps DEF AdmitPool, server
  <1>3. CASE Verify(conns[c].nonce) /\ deliverTunnelConn(c)
    <2>1. poolNonce # 0 /\ conns[c].nonce = poolNonce
      BY <1>3 DEF Verify
    <2>2. run \notin {"waiting", "taken"}
      BY <2>1 DEF IInv, RunOK
    <2> QED
      BY <1>1, <1>3, <2>1, <2>2, DeliverKeeps DEF AdmitPool
  <1> QED
    BY <1>2, <1>3 DEF AdmitPool

LEMMA AdmitClaimKeeps == ASSUME IInv, NEW c \in Conns, AdmitClaim(c) PROVE IInv'
  <1>1. Aside(conns[c]) /\ conns[c].st # "free"
    BY DEF AdmitClaim, Aside
  <1> QED
    BY <1>1, CloseKeeps, MoveKeeps DEF AdmitClaim, States

LEMMA AckClaimKeeps == ASSUME IInv, NEW c \in Conns, AckClaim(c) PROVE IInv'
  <1> DEFINE n == IF conns[c].kind = "v2" THEN newNonce ELSE conns[c].nonce
             d == [conns[c] EXCEPT !.st = "answered", !.acked = TRUE, !.nonce = n]
  <1>1. Aside(conns[c]) /\ conns[c].st # "free" /\ conns[c] \in Conn /\ ConnOK(conns[c])
    BY InUse DEF AckClaim, Aside, IInv, ConnsOK
  <1>2. conns[c].kind = "v2" => newNonce \in Nonces
    BY DEF AckClaim, newNonce, FreshNonces
  <1>3. conns[c].kind \in Signals
    BY <1>1 DEF AckClaim, Conn
  <1>4. conns' = [conns EXCEPT ![c] = d]
    BY <1>1 DEF AckClaim, IInv, ConnsOK, Conn
  <1>5. ConnOK(d) /\ d.st = "answered" /\ d.who = conns[c].who
    BY <1>1, <1>2, <1>3 DEF ConnOK, Conn, States
  <1> HIDE DEF d
  <1> QED
    BY <1>1, <1>4, <1>5, AsideKeeps DEF AckClaim, Aside

LEMMA OfferCandidateKeeps == ASSUME IInv, NEW c \in Conns, OfferCandidate(c) PROVE IInv'
  <1>1. Aside(conns[c]) /\ conns[c].st # "free" /\ conns[c] \in Conn /\ ConnOK(conns[c])
    BY InUse DEF OfferCandidate, Aside, IInv, ConnsOK
  <1>2. CASE UNCHANGED handshakeChannel /\ (Close(c) \/ Move(c, "lost"))
    BY <1>1, <1>2, CloseKeeps, MoveKeeps DEF OfferCandidate, States, server
  <1>3. CASE handshakeChannel = <<>> /\ handshakeChannel' = <<c>> /\ Move(c, "candidate")
    <2> DEFINE d == [conns[c] EXCEPT !.st = "candidate"]
    <2>1. conns' = [conns EXCEPT ![c] = d]
      BY <1>3 DEF Move
    <2>2. ConnOK(d) /\ d.st = "candidate" /\ d.who = conns[c].who
      BY <1>1, MovedOK DEF States
    <2> HIDE DEF d
    <2>3. conns'[c] = d /\ \A x \in Conns : x # c => conns'[x] = conns[x]
      BY <2>1 DEF IInv, ConnsOK
    <2>4. ConnsOK'
      BY <2>1, <2>2, <2>3 DEF IInv, ConnsOK, ConnOK
    <2>5. ClientsOK'
      BY <2>2, <2>3, ClientsKept DEF IInv, OfferCandidate
    <2>6. tunnelChannel' = {x \in Conns : conns'[x].st = "pool"}
      BY <1>1, <2>2, <2>3 DEF IInv, ChannelsOK, OfferCandidate, Aside
    <2>7. ChannelsOK'
      BY <1>3, <2>2, <2>3, <2>6 DEF IInv, ChannelsOK, OfferCandidate
    <2>8. RunOK' /\ ChecksOK'
      BY <1>1, <2>2, <2>3 DEF IInv, RunOK, ChecksOK, OfferCandidate, Aside, ServerOK
    <2>9. PoolIsAuthorised'
      BY <1>1, <2>3 DEF IInv, PoolIsAuthorised, listening, Aside, ChannelsOK, RunOK, ServerOK, OfferCandidate
    <2> QED
      BY <2>4, <2>5, <2>7, <2>8, <2>9 DEF IInv, ServerOK, mux, OfferCandidate
  <1> QED
    BY <1>2, <1>3 DEF OfferCandidate

(* What the actions of the run do to the one connection they move or close. *)
LEMMA Moved ==
  ASSUME IInv, NEW c \in Conns, conns[c].st # "free", NEW st \in States \ {"free", "pool"}, Move(c, st)
  PROVE  /\ ConnsOK' /\ (UNCHANGED clients => ClientsOK')
         /\ \A x \in Conns : x # c => conns'[x] = conns[x]
         /\ conns'[c].st = st /\ conns'[c].host = conns[c].host
         /\ conns'[c].stale = conns[c].stale
  <1> DEFINE d == [conns[c] EXCEPT !.st = st]
  <1>1. conns[c] \in Conn /\ ConnOK(conns[c])
    BY InUse DEF IInv, ConnsOK
  <1>2. conns' = [conns EXCEPT ![c] = d]
    BY DEF Move
  <1>3. /\ ConnOK(d) /\ d.st = st
        /\ d.who = conns[c].who /\ d.stale = conns[c].stale /\ d.host = conns[c].host
    BY <1>1, MovedOK
  <1> HIDE DEF d
  <1>4. conns'[c] = d /\ \A x \in Conns : x # c => conns'[x] = conns[x]
    BY <1>2 DEF IInv, ConnsOK
  <1>5. ConnsOK'
    BY <1>2, <1>3, <1>4 DEF IInv, ConnsOK, ConnOK
  <1>6. UNCHANGED clients => ClientsOK'
    BY <1>3, <1>4, ClientsKept DEF IInv
  <1> QED
    BY <1>3, <1>4, <1>5, <1>6

LEMMA ClosedConn ==
  ASSUME IInv, NEW c \in Conns, conns[c].st # "free", Close(c)
  PROVE  /\ ConnsOK' /\ (UNCHANGED clients => ClientsOK')
         /\ \A x \in Conns : x # c => conns'[x] = conns[x]
         /\ conns'[c].st \in {"free", "gone"}
  <1>1. conns[c] \in Conn
    BY InUse DEF IInv, ConnsOK
  <1>2. /\ ConnOK(Closed(c))
        /\ \/ Closed(c) = Free /\ \A k \in Clients : clients[k] # Down => clients[k].conn # c
           \/ Closed(c).st = "gone" /\ Closed(c).who = conns[c].who
    BY <1>1, ClosedOK DEF IInv
  <1>3. conns'[c] = Closed(c) /\ \A x \in Conns : x # c => conns'[x] = conns[x]
    BY DEF Close, IInv, ConnsOK
  <1>4. ConnsOK'
    BY <1>2, <1>3 DEF Close, IInv, ConnsOK, ConnOK
  <1>5. UNCHANGED clients => ClientsOK'
    BY <1>2, <1>3, ClientsKept DEF IInv
  <1> QED
    BY <1>2, <1>3, <1>4, <1>5 DEF Free

-----------------------------------------------------------------------------
(* The run, one lemma per action. *)

LEMMA TakeCandidateKeeps == ASSUME IInv, TakeCandidate PROVE IInv'
  <1> DEFINE c == Head(handshakeChannel)
  <1>1. c \in Conns /\ conns[c].st = "candidate"
    BY DEF IInv, ChannelsOK, TakeCandidate
  <1> HIDE DEF c
  <1>2. Move(c, "taken")
    BY DEF TakeCandidate, c
  <1>3. /\ ConnsOK' /\ ClientsOK'
        /\ \A x \in Conns : x # c => conns'[x] = conns[x]
        /\ conns'[c].st = "taken"
    BY <1>1, <1>2, Moved DEF TakeCandidate, States
  <1>4. tunnelChannel' = {x \in Conns : conns'[x].st = "pool"}
    BY <1>1, <1>3 DEF IInv, ChannelsOK, TakeCandidate
  <1>5. ChannelsOK'
    BY <1>4 DEF IInv, ChannelsOK, TakeCandidate
  <1>6. RunOK' /\ PoolIsAuthorised'
    BY <1>1, <1>3 DEF IInv, RunOK, PoolIsAuthorised, TakeCandidate
  <1>7. ChecksOK'
    BY <1>3 DEF IInv, ChecksOK, TakeCandidate
  <1> QED
    BY <1>3, <1>5, <1>6, <1>7 DEF IInv, ServerOK, Runs, TakeCandidate, mux

(* The connection channelHandshake holds between its steps.                 *)
LEMMA TakenIs ==
  ASSUME IInv, run \in {"taken", "noncePublished", "muxPublished"}
  PROVE  Taken \in Conns /\ conns[Taken].st = "taken" /\ conns[Taken] \in Conn
  <1>1. Taken \in Conns /\ conns[Taken].st = "taken"
    BY DEF IInv, RunOK, Taken
  <1> QED
    BY <1>1, InUse DEF IInv, ConnsOK

LEMMA PublishNonceKeeps == ASSUME IInv, PublishNonce PROVE IInv'
  <1>1. conns[Taken].nonce \in Nonces \cup {0}
    BY TakenIs DEF PublishNonce, Conn
  <1>2. ServerOK'
    BY <1>1 DEF IInv, ServerOK, Runs, PublishNonce, mux
  <1>3. ConnsOK' /\ ClientsOK' /\ ChannelsOK'
    BY DEF IInv, ConnsOK, ClientsOK, ChannelsOK, PublishNonce
  <1>4. RunOK' /\ ChecksOK' /\ PoolIsAuthorised'
    BY DEF IInv, RunOK, ChecksOK, PoolIsAuthorised, PublishNonce
  <1> QED
    BY <1>2, <1>3, <1>4 DEF IInv

LEMMA setMuxVersionKeeps == ASSUME IInv, setMuxVersion PROVE IInv'
  <1>1. ServerOK'
    BY DEF IInv, ServerOK, Runs, setMuxVersion
  <1>2. ConnsOK' /\ ClientsOK' /\ ChannelsOK'
    BY DEF IInv, ConnsOK, ClientsOK, ChannelsOK, setMuxVersion
  <1>3. RunOK' /\ ChecksOK' /\ PoolIsAuthorised'
    BY DEF IInv, RunOK, ChecksOK, PoolIsAuthorised, setMuxVersion, listening
  <1> QED
    BY <1>1, <1>2, <1>3 DEF IInv

LEMMA PublishControlKeeps == ASSUME IInv, PublishControl PROVE IInv'
  <1> DEFINE c == Taken
  <1>1. c \in Conns /\ conns[c].st = "taken"
    BY TakenIs DEF PublishControl
  <1> HIDE DEF c
  <1>2. Move(c, "control") /\ controlChannel' = c
    BY DEF PublishControl, c
  <1>3. /\ ConnsOK' /\ ClientsOK'
        /\ \A x \in Conns : x # c => conns'[x] = conns[x]
        /\ conns'[c].st = "control"
    BY <1>1, <1>2, Moved DEF PublishControl, States
  <1>4. tunnelChannel' = {x \in Conns : conns'[x].st = "pool"}
    BY <1>1, <1>3 DEF IInv, ChannelsOK, PublishControl
  <1>5. ChannelsOK'
    BY <1>1, <1>3, <1>4, CandidatesKept DEF IInv, ChannelsOK, PublishControl
  <1>6. RunOK' /\ ChecksOK'
    BY <1>1, <1>2, <1>3 DEF IInv, RunOK, ChecksOK, PublishControl
  <1>7. PoolIsAuthorised'
    <2>1. controlChannel = 0 /\ listening
      BY DEF IInv, RunOK, PublishControl, listening
    <2>2. \A x \in tunnelChannel : poolNonce # 0 /\ conns[x].nonce = poolNonce
      BY <2>1 DEF IInv, PoolIsAuthorised
    <2>3. \A x \in tunnelChannel : x \in Conns /\ conns'[x] = conns[x]
      BY <1>1, <1>3 DEF IInv, ChannelsOK
    <2> QED
      BY <2>2, <2>3 DEF PoolIsAuthorised, PublishControl
  <1> QED
    BY <1>1, <1>2, <1>3, <1>5, <1>6, <1>7 DEF IInv, ServerOK, Runs, PublishControl, mux

LEMMA RestartStopsKeeps == ASSUME IInv, RestartStops PROVE IInv'
  <1>1. ServerOK' /\ ConnsOK' /\ ClientsOK' /\ ChannelsOK'
    BY DEF IInv, ServerOK, Runs, ConnsOK, ClientsOK, ChannelsOK, RestartStops, mux
  <1>2. RunOK' /\ ChecksOK' /\ PoolIsAuthorised'
    BY DEF IInv, RunOK, ChecksOK, PoolIsAuthorised, RestartStops, listening
  <1> QED
    BY <1>1, <1>2 DEF IInv

LEMMA RestartClearsKeeps == ASSUME IInv, RestartClears PROVE IInv'
  <1> DEFINE c == controlChannel
  <1>1. c \in Conns /\ conns[c].st = "control"
    BY DEF IInv, RunOK, ServerOK, RestartClears
  <1> HIDE DEF c
  <1>2. Close(c)
    BY DEF RestartClears, c
  <1>3. /\ ConnsOK' /\ ClientsOK'
        /\ \A x \in Conns : x # c => conns'[x] = conns[x]
        /\ conns'[c].st \in {"free", "gone"}
    BY <1>1, <1>2, ClosedConn DEF RestartClears
  <1>4. tunnelChannel' = {x \in Conns : conns'[x].st = "pool"}
    BY <1>1, <1>3 DEF IInv, ChannelsOK, RestartClears
  <1>5. ChannelsOK'
    BY <1>1, <1>3, <1>4, CandidatesKept DEF IInv, ChannelsOK, RestartClears
  <1>6. RunOK' /\ PoolIsAuthorised'
    BY DEF RunOK, PoolIsAuthorised, listening, RestartClears
  <1>7. ChecksOK'
    BY <1>1, <1>3 DEF IInv, ChecksOK, RestartClears
  <1> QED
    BY <1>3, <1>5, <1>6, <1>7 DEF IInv, ServerOK, Runs, RestartClears, mux

(* The channels a run starts with. *)
LEMMA EmptyChannels ==
  ASSUME handshakeChannel' = <<>>, tunnelChannel' = {}, \A x \in Conns : conns'[x].st # "pool"
  PROVE  ChannelsOK'
  <1>1. IsFiniteSet(tunnelChannel') /\ Cardinality(tunnelChannel') <= ChannelSize
    BY FS_EmptySet
  <1>2. tunnelChannel' = {x \in Conns : conns'[x].st = "pool"}
    OBVIOUS
  <1>3. /\ handshakeChannel' \in Seq(Conns) /\ Len(handshakeChannel') <= 1
        /\ \A n \in DOMAIN handshakeChannel' : conns'[handshakeChannel'[n]].st = "candidate"
    OBVIOUS
  <1> QED
    BY <1>1, <1>2, <1>3 DEF ChannelsOK

(* The next run starts with empty channels and nothing but stale            *)
(* connections.                                                             *)
LEMMA RestartStartsKeeps == ASSUME IInv, RestartStarts PROVE IInv'
  <1>1. ASSUME NEW c \in Conns
        PROVE  /\ ConnOK(conns'[c]) /\ conns'[c].who = conns[c].who
               /\ conns'[c].st # "pool" /\ (conns'[c].st = "free" <=> conns[c].st = "free")
               /\ conns[c].st = "free" \/ conns'[c].stale
    <2>1. conns'[c] = Replaced(c) /\ conns[c] \in {Free} \cup Conn /\ ConnOK(conns[c])
      BY DEF RestartStarts, IInv, ConnsOK
    <2>2. CASE conns[c].st = "free"
      BY <2>1, <2>2 DEF Replaced, ConnOK, Conn, Free
    <2>3. CASE conns[c].st \in {"pool", "candidate"}
      <3>1. conns[c] \in Conn
        BY <2>1, <2>3, InUse
      <3>2. conns'[c] = [conns[c] EXCEPT !.st = "lost", !.stale = TRUE]
        BY <2>1, <2>3 DEF Replaced
      <3> QED
        BY <2>1, <2>3, <3>1, <3>2 DEF ConnOK, Conn, States
    <2>4. CASE conns[c].st \notin {"free", "pool", "candidate"}
      <3>1. conns[c] \in Conn
        BY <2>1, <2>4, InUse
      <3>2. conns'[c] = [conns[c] EXCEPT !.stale = TRUE]
        BY <2>1, <2>4 DEF Replaced
      <3> QED
        BY <2>1, <2>4, <3>1, <3>2 DEF ConnOK, Conn, States
    <2> QED
      BY <2>2, <2>3, <2>4
  <1>2. ConnsOK'
    BY <1>1 DEF RestartStarts, ConnsOK, ConnOK
  <1>3. ClientsOK'
    BY <1>1 DEF RestartStarts, IInv, ClientsOK
  <1>4. ChannelsOK'
    BY <1>1, EmptyChannels DEF RestartStarts
  <1>5. RunOK' /\ PoolIsAuthorised'
    BY DEF IInv, RunOK, PoolIsAuthorised, RestartStarts
  <1>6. ChecksOK'
    BY <1>1 DEF ChecksOK, RestartStarts
  <1> QED
    BY <1>2, <1>3, <1>4, <1>5, <1>6 DEF IInv, ServerOK, Runs, RestartStarts

LEMMA UsePoolConnKeeps == ASSUME IInv, NEW c \in Conns, UsePoolConn(c) PROVE IInv'
  <1>1. conns[c].st = "pool"
    BY DEF IInv, ChannelsOK, UsePoolConn
  <1>2. /\ ConnsOK' /\ ClientsOK'
        /\ \A x \in Conns : x # c => conns'[x] = conns[x]
        /\ conns'[c].st \in {"free", "gone"}
    BY <1>1, ClosedConn DEF UsePoolConn
  <1>3. tunnelChannel' = {x \in Conns : conns'[x].st = "pool"}
    BY <1>1, <1>2 DEF IInv, ChannelsOK, UsePoolConn
  <1>4. IsFiniteSet(tunnelChannel') /\ Cardinality(tunnelChannel') <= ChannelSize
    <2>1. IsFiniteSet(tunnelChannel) /\ c \in tunnelChannel
      BY DEF IInv, ChannelsOK, UsePoolConn
    <2>2. Cardinality(tunnelChannel) \in Nat
      BY <2>1, FS_CardinalityType
    <2>3. IsFiniteSet(tunnelChannel') /\ Cardinality(tunnelChannel') = Cardinality(tunnelChannel) - 1
      BY <2>1, FS_RemoveElement DEF UsePoolConn
    <2> QED
      BY <2>2, <2>3 DEF IInv, ChannelsOK
  <1>5. ChannelsOK'
    BY <1>1, <1>2, <1>3, <1>4, CandidatesKept DEF IInv, ChannelsOK, UsePoolConn
  <1>6. RunOK' /\ ChecksOK'
    BY <1>1, <1>2 DEF IInv, RunOK, ChecksOK, UsePoolConn, ServerOK
  <1>7. PoolIsAuthorised'
    BY <1>1, <1>2 DEF IInv, PoolIsAuthorised, listening, ChannelsOK, RunOK, ServerOK, UsePoolConn
  <1> QED
    BY <1>2, <1>5, <1>6, <1>7 DEF IInv, ServerOK, UsePoolConn, mux

LEMMA CollectKeeps == ASSUME IInv, NEW c \in Conns, Collect(c) PROVE IInv'
  BY CloseKeeps DEF Collect, Aside

-----------------------------------------------------------------------------
(* The clients, one lemma per action. *)

(* A change of one connection that the run cannot tell: it stays where it   *)
(* is filed and, once in the pool on its nonce, keeps the nonce.            *)
LEMMA FieldsKeep ==
  ASSUME IInv, NEW c \in Conns, NEW d, ConnOK(d), UNCHANGED server,
         conns' = [conns EXCEPT ![c] = d],
         d.st = conns[c].st, d.host = conns[c].host, d.stale = conns[c].stale,
         conns[c].st = "pool" /\ poolNonce # 0 /\ conns[c].nonce = poolNonce => d.nonce = poolNonce
  PROVE  /\ ConnsOK' /\ ChannelsOK' /\ RunOK' /\ ChecksOK' /\ PoolIsAuthorised'
         /\ conns'[c] = d /\ \A x \in Conns : x # c => conns'[x] = conns[x]
  <1>1. conns'[c] = d /\ \A x \in Conns : x # c => conns'[x] = conns[x]
    BY DEF IInv, ConnsOK
  <1>2. \A x \in Conns : conns'[x].st = conns[x].st /\ conns'[x].host = conns[x].host
                         /\ conns'[x].stale = conns[x].stale
    BY <1>1
  <1>3. ConnsOK'
    BY <1>1 DEF IInv, ConnsOK, ConnOK
  <1>4. ChannelsOK'
    <2>1. tunnelChannel' = {x \in Conns : conns'[x].st = "pool"}
      BY <1>2 DEF IInv, ChannelsOK, server
    <2>2. \A n \in DOMAIN handshakeChannel : handshakeChannel[n] \in Conns
      BY DEF IInv, ChannelsOK
    <2> QED
      BY <1>2, <2>1, <2>2 DEF IInv, ChannelsOK, server
  <1>5. RunOK' /\ ChecksOK'
    BY <1>2 DEF IInv, RunOK, ChecksOK, server, ServerOK
  <1>6. PoolIsAuthorised'
    <2>1. ASSUME NEW x \in tunnelChannel, listening
          PROVE  IF poolNonce # 0 THEN conns'[x].nonce = poolNonce
                 ELSE controlChannel # 0 /\ conns'[x].host = conns'[controlChannel].host
      <3>1. x \in Conns /\ conns[x].st = "pool"
        BY DEF IInv, ChannelsOK
      <3> QED
        BY <1>1, <1>2, <2>1, <3>1 DEF IInv, PoolIsAuthorised, ServerOK
    <2> QED
      BY <2>1 DEF PoolIsAuthorised, server, listening
  <1> QED
    BY <1>1, <1>3, <1>4, <1>5, <1>6

(* A connection that is cut is otherwise what it was.                       *)
LEMMA CutOK ==
  ASSUME NEW d \in Conn, ConnOK(d)
  PROVE  LET e == [d EXCEPT !.cut = TRUE] IN
         /\ ConnOK(e) /\ e.st = d.st /\ e.who = d.who /\ e.host = d.host
         /\ e.stale = d.stale /\ e.nonce = d.nonce
  BY DEF ConnOK, Conn

LEMMA ClientConn ==
  ASSUME IInv, NEW k \in Clients, clients[k].st # "down"
  PROVE  /\ clients[k] # Down /\ clients[k].conn \in Conns
         /\ conns[clients[k].conn] \in Conn /\ ConnOK(conns[clients[k].conn])
  <1>1. clients[k] # Down /\ clients[k].conn \in Conns /\ conns[clients[k].conn].st # "free"
    BY DEF IInv, ClientsOK, Down
  <1> QED
    BY <1>1, InUse DEF IInv, ConnsOK

LEMMA LetGoKeeps ==
  ASSUME IInv, NEW k \in Clients, clients[k].st # "down", LetGo(k), UNCHANGED server,
         faults' \in 0 .. MaxFaults
  PROVE  IInv'
  <1> DEFINE c == clients[k].conn
  <1>1. c \in Conns /\ conns[c] \in Conn /\ ConnOK(conns[c]) /\ clients[k] # Down
    BY ClientConn
  <1>2. \A j \in Clients : j # k /\ clients[j] # Down => clients[j].conn # c
    BY <1>1 DEF IInv, ClientsOK
  <1>3. /\ clients' \in [Clients -> {Down} \cup [st : {"claiming", "up"}, conn : Conns, nonce : Nonces \cup {0}]]
        /\ clients'[k] = Down /\ \A j \in Clients : j # k => clients'[j] = clients[j]
    BY DEF LetGo, IInv, ClientsOK
  <1>4. conns' = [conns EXCEPT ![c] = Released(c)]
    BY DEF LetGo
  <1> HIDE DEF c
  <1>5. conns'[c] = Released(c) /\ \A x \in Conns : x # c => conns'[x] = conns[x]
    BY <1>1, <1>4 DEF IInv, ConnsOK
  <1>6. ClientsOK'
    <2> SUFFICES ASSUME NEW j \in Clients, clients'[j] # Down
                 PROVE  conns'[clients'[j].conn].who = j /\ conns'[clients'[j].conn].st # "free"
      BY <1>3 DEF ClientsOK
    <2>1. j # k /\ clients'[j] = clients[j] /\ clients[j].conn # c /\ clients[j].conn \in Conns
      BY <1>2, <1>3 DEF Down
    <2>2. conns[clients[j].conn].who = j /\ conns[clients[j].conn].st # "free"
      BY <2>1 DEF IInv, ClientsOK
    <2> QED
      BY <2>1, <2>2, <1>5
  <1>7. CASE conns[c].st = "gone"
    <2>1. Released(c) = Free /\ Aside(conns[c])
      BY <1>7 DEF Released, Aside
    <2>2. ConnOK(Free) /\ Aside(Free)
      BY DEF ConnOK, Free, Aside
    <2>3. ConnsOK'
      BY <1>1, <1>4, <1>5, <2>1, <2>2 DEF IInv, ConnsOK, ConnOK
    <2>4. tunnelChannel' = {x \in Conns : conns'[x].st = "pool"}
      BY <1>1, <1>5, <2>1, <2>2 DEF IInv, ChannelsOK, server, Aside
    <2>5. ChannelsOK'
      BY <1>1, <1>5, <1>7, <2>4, CandidatesKept DEF IInv, ChannelsOK, server
    <2>6. RunOK'
      BY <1>1, <1>5, <1>7 DEF IInv, RunOK, ServerOK, server
    <2>7. ChecksOK'
      BY <1>1, <1>5, <2>1 DEF IInv, ChecksOK, server, Free
    <2>8. PoolIsAuthorised'
      BY <1>1, <1>5, <1>7 DEF IInv, PoolIsAuthorised, server, listening, ChannelsOK, RunOK, ServerOK
    <2> QED
      BY <1>6, <2>3, <2>5, <2>6, <2>7, <2>8 DEF IInv, ServerOK, server, mux
  <1>8. CASE conns[c].st # "gone"
    <2> DEFINE d == [conns[c] EXCEPT !.cut = TRUE]
    <2>1. Released(c) = d
      BY <1>8 DEF Released
    <2>2. ConnOK(d) /\ d.st = conns[c].st /\ d.host = conns[c].host
            /\ d.stale = conns[c].stale /\ d.nonce = conns[c].nonce
      BY <1>1, CutOK
    <2> HIDE DEF d
    <2>3. ConnsOK' /\ ChannelsOK' /\ RunOK' /\ ChecksOK' /\ PoolIsAuthorised'
      BY <1>1, <1>4, <2>1, <2>2, FieldsKeep
    <2> QED
      BY <1>6, <2>3 DEF IInv, ServerOK, server, mux
  <1> QED
    BY <1>7, <1>8

(* A new connection takes a free place and disturbs nobody.                 *)
LEMMA NewConn ==
  ASSUME IInv, NEW d \in Conn, ConnOK(d), d.st = "accepted", FreeConns # {}, UNCHANGED server,
         conns' = [conns EXCEPT ![newConn] = d]
  PROVE  /\ newConn \in Conns /\ conns[newConn].st = "free" /\ conns'[newConn] = d
         /\ \A x \in Conns : x # newConn => conns'[x] = conns[x]
         /\ ConnsOK' /\ ChannelsOK' /\ RunOK' /\ ChecksOK' /\ PoolIsAuthorised'
  <1> DEFINE c == newConn
  <1>1. c \in Conns /\ conns[c].st = "free"
    BY DEF newConn, FreeConns
  <1> HIDE DEF c
  <1>2. conns' = [conns EXCEPT ![c] = d]
    BY DEF c
  <1>3. conns'[c] = d /\ \A x \in Conns : x # c => conns'[x] = conns[x]
    BY <1>1, <1>2 DEF IInv, ConnsOK
  <1>4. ConnsOK'
    BY <1>1, <1>2, <1>3 DEF IInv, ConnsOK, ConnOK
  <1>5. tunnelChannel' = {x \in Conns : conns'[x].st = "pool"}
    BY <1>1, <1>3 DEF IInv, ChannelsOK, server
  <1>6. ChannelsOK'
    BY <1>1, <1>3, <1>5, CandidatesKept DEF IInv, ChannelsOK, server
  <1>7. RunOK' /\ ChecksOK'
    BY <1>1, <1>3 DEF IInv, RunOK, ChecksOK, ServerOK, server
  <1>8. PoolIsAuthorised'
    BY <1>1, <1>3 DEF IInv, PoolIsAuthorised, server, listening, ChannelsOK, RunOK, ServerOK
  <1> QED
    BY <1>1, <1>3, <1>4, <1>6, <1>7, <1>8 DEF c

LEMMA AcceptedOK ==
  ASSUME NEW k \in Clients, NEW h \in Hosts, NEW s \in Signals \cup {"pool"}, NEW b \in BOOLEAN,
         s \in Signals => b
  PROVE  LET d == Accepted(k, h, s, b) IN
         d \in Conn /\ ConnOK(d) /\ d.st = "accepted" /\ d.who = k
  BY DEF Accepted, Conn, ConnOK, States

LEMMA DialKeeps ==
  ASSUME IInv, NEW k \in Clients, NEW h \in Hosts, NEW s \in Signals, Dial(k, h, s)
  PROVE  IInv'
  <1> DEFINE c == newConn
             d == Accepted(k, h, s, TRUE)
  <1>1. d \in Conn /\ ConnOK(d) /\ d.st = "accepted" /\ d.who = k
    BY AcceptedOK
  <1>2. conns' = [conns EXCEPT ![newConn] = d] /\ FreeConns # {} /\ UNCHANGED server
    BY DEF Dial
  <1> HIDE DEF d
  <1>3. /\ c \in Conns /\ conns[c].st = "free" /\ conns'[c] = d
        /\ \A x \in Conns : x # c => conns'[x] = conns[x]
        /\ ConnsOK' /\ ChannelsOK' /\ RunOK' /\ ChecksOK' /\ PoolIsAuthorised'
    BY <1>1, <1>2, NewConn
  <1>4. clients' = [clients EXCEPT ![k] = [st |-> "claiming", conn |-> c, nonce |-> 0]]
    BY DEF Dial
  <1> HIDE DEF c
  <1>5. /\ clients'[k] = [st |-> "claiming", conn |-> c, nonce |-> 0]
        /\ \A j \in Clients : j # k => clients'[j] = clients[j]
        /\ clients' \in [Clients -> {Down} \cup [st : {"claiming", "up"}, conn : Conns, nonce : Nonces \cup {0}]]
    BY <1>3, <1>4 DEF IInv, ClientsOK
  <1>6. ClientsOK'
    <2> SUFFICES ASSUME NEW j \in Clients, clients'[j] # Down
                 PROVE  conns'[clients'[j].conn].who = j /\ conns'[clients'[j].conn].st # "free"
      BY <1>5 DEF ClientsOK
    <2>1. CASE j = k
      BY <2>1, <1>1, <1>3, <1>5
    <2>2. CASE j # k
      <3>1. clients'[j] = clients[j] /\ clients[j].conn \in Conns
        BY <2>2, <1>5 DEF Down
      <3>2. conns[clients[j].conn].who = j /\ conns[clients[j].conn].st # "free"
        BY <3>1 DEF IInv, ClientsOK
      <3> QED
        BY <3>1, <3>2, <1>3
    <2> QED
      BY <2>1, <2>2
  <1> QED
    BY <1>3, <1>6 DEF IInv, ServerOK, server, mux, Dial

LEMMA DialPoolKeeps ==
  ASSUME IInv, NEW k \in Clients, NEW h \in Hosts, DialPool(k, h)
  PROVE  IInv'
  <1> DEFINE c == newConn
             d == Accepted(k, h, "pool", FALSE)
  <1>1. d \in Conn /\ ConnOK(d) /\ d.st = "accepted"
    <2>1. "pool" \in Signals \cup {"pool"} /\ FALSE \in BOOLEAN /\ ("pool" \in Signals => FALSE)
      OBVIOUS
    <2> QED
      BY <2>1, AcceptedOK, Zenon
  <1>2. conns' = [conns EXCEPT ![newConn] = d] /\ FreeConns # {} /\ UNCHANGED server
    BY DEF DialPool
  <1> HIDE DEF d
  <1>3. /\ c \in Conns /\ conns[c].st = "free" /\ conns'[c] = d
        /\ \A x \in Conns : x # c => conns'[x] = conns[x]
        /\ ConnsOK' /\ ChannelsOK' /\ RunOK' /\ ChecksOK' /\ PoolIsAuthorised'
    BY <1>1, <1>2, NewConn
  <1> HIDE DEF c
  <1>4. \A j \in Clients : clients[j] # Down => clients[j].conn # c
    BY <1>3 DEF IInv, ClientsOK
  <1>5. ClientsOK'
    BY <1>3, <1>4, ClientsKept DEF IInv, DialPool
  <1> QED
    BY <1>3, <1>5 DEF IInv, ServerOK, server, mux, DialPool

LEMMA TakeAckKeeps == ASSUME IInv, NEW k \in Clients, TakeAck(k) PROVE IInv'
  <1>1. /\ clients[k].conn \in Conns /\ conns[clients[k].conn] \in Conn /\ clients[k] # Down
    BY ClientConn DEF TakeAck
  <1>2. conns[clients[k].conn].nonce \in Nonces \cup {0}
    BY <1>1 DEF Conn
  <1>3. /\ clients' \in [Clients -> {Down} \cup [st : {"claiming", "up"}, conn : Conns, nonce : Nonces \cup {0}]]
        /\ clients'[k].conn = clients[k].conn /\ \A j \in Clients : j # k => clients'[j] = clients[j]
    <2> DEFINE r == [clients[k] EXCEPT !.st = "up", !.nonce = conns[clients[k].conn].nonce]
    <2>1. clients[k] \in [st : {"claiming", "up"}, conn : Conns, nonce : Nonces \cup {0}]
      BY <1>1 DEF IInv, ClientsOK
    <2>2. /\ r \in [st : {"claiming", "up"}, conn : Conns, nonce : Nonces \cup {0}]
          /\ r.conn = clients[k].conn
      BY <1>2, <2>1
    <2>3. clients' = [clients EXCEPT ![k] = r]
      BY <2>1 DEF TakeAck, IInv, ClientsOK
    <2> HIDE DEF r
    <2> QED
      BY <2>2, <2>3 DEF IInv, ClientsOK
  <1>4. ClientsOK'
    BY <1>1, <1>3 DEF ClientsOK, IInv, TakeAck
  <1>5. ServerOK' /\ ConnsOK' /\ ChannelsOK' /\ RunOK'
    BY DEF IInv, ServerOK, ConnsOK, ChannelsOK, RunOK, TakeAck, server, mux
  <1>6. ChecksOK' /\ PoolIsAuthorised'
    BY DEF IInv, ChecksOK, PoolIsAuthorised, listening, TakeAck, server
  <1> QED
    BY <1>4, <1>5, <1>6 DEF IInv

LEMMA ClaimFailsKeeps == ASSUME IInv, NEW k \in Clients, ClaimFails(k) PROVE IInv'
  BY LetGoKeeps DEF ClaimFails, IInv, ServerOK

LEMMA ControlLostKeeps == ASSUME IInv, NEW k \in Clients, ControlLost(k) PROVE IInv'
  BY LetGoKeeps DEF ControlLost, IInv, ServerOK

LEMMA announcePoolConnKeeps == ASSUME IInv, NEW c \in Conns, announcePoolConn(c) PROVE IInv'
  <1> DEFINE n == clients[conns[c].who].nonce
             d == [conns[c] EXCEPT !.sent = TRUE, !.nonce = n]
  <1>1. conns[c] \in Conn /\ ConnOK(conns[c]) /\ ~conns[c].sent
    BY DEF announcePoolConn, IInv, ConnsOK, Free
  <1>2. conns[c].who \in Clients
    BY <1>1 DEF Conn
  <1>3. n \in Nonces \cup {0}
    BY <1>2 DEF IInv, ClientsOK, Down
  <1>4. conns' = [conns EXCEPT ![c] = d]
    BY <1>1 DEF announcePoolConn, IInv, ConnsOK
  <1>5. conns[c].nonce = 0
    BY <1>1 DEF ConnOK
  <1>6. /\ ConnOK(d) /\ d.st = conns[c].st /\ d.who = conns[c].who /\ d.host = conns[c].host
        /\ d.stale = conns[c].stale
    BY <1>1, <1>3 DEF ConnOK, Conn
  <1> HIDE DEF d, n
  <1>7. /\ ConnsOK' /\ ChannelsOK' /\ RunOK' /\ ChecksOK' /\ PoolIsAuthorised'
        /\ conns'[c] = d /\ \A x \in Conns : x # c => conns'[x] = conns[x]
    BY <1>4, <1>5, <1>6, FieldsKeep DEF announcePoolConn
  <1>8. conns[c].st # "free"
    BY <1>1 DEF Conn
  <1>9. ClientsOK'
    BY <1>6, <1>7, <1>8, ClientsKept DEF IInv, announcePoolConn
  <1> QED
    BY <1>7, <1>9 DEF IInv, ServerOK, server, mux, announcePoolConn

-----------------------------------------------------------------------------
(* Faults. *)

LEMMA BreakKeeps == ASSUME IInv, NEW k \in Clients, Break(k) PROVE IInv'
  <1> DEFINE c == clients[k].conn
             d == [conns[c] EXCEPT !.cut = TRUE]
  <1>1. c \in Conns /\ conns[c] \in Conn /\ ConnOK(conns[c])
    BY ClientConn DEF Break
  <1>2. faults' \in 0 .. MaxFaults
    BY DEF Break, IInv, ServerOK
  <1>3. CASE LetGo(k)
    BY <1>2, <1>3, LetGoKeeps DEF Break
  <1>4. CASE UNCHANGED clients /\ conns' = [conns EXCEPT ![c].cut = TRUE]
    <2>1. conns' = [conns EXCEPT ![c] = d]
      BY <1>4
    <2>2. ConnOK(d) /\ d.st = conns[c].st /\ d.who = conns[c].who /\ d.host = conns[c].host
            /\ d.stale = conns[c].stale /\ d.nonce = conns[c].nonce
      BY <1>1, CutOK
    <2>3. conns[c].st # "free"
      BY <1>1 DEF Conn
    <2> HIDE DEF c, d
    <2>4. /\ ConnsOK' /\ ChannelsOK' /\ RunOK' /\ ChecksOK' /\ PoolIsAuthorised'
          /\ conns'[c] = d /\ \A x \in Conns : x # c => conns'[x] = conns[x]
      BY <1>1, <2>1, <2>2, FieldsKeep DEF Break
    <2>5. ClientsOK'
      BY <1>1, <1>4, <2>2, <2>3, <2>4, ClientsKept DEF IInv
    <2> QED
      BY <1>2, <2>4, <2>5 DEF IInv, ServerOK, server, mux, Break
  <1> QED
    BY <1>3, <1>4 DEF Break

LEMMA ServerRestartsKeeps == ASSUME IInv, ServerRestarts PROVE IInv'
  <1>1. ASSUME NEW c \in Conns
        PROVE  /\ ConnOK(conns'[c]) /\ conns'[c].st \in {"free", "gone"}
               /\ \/ conns'[c].st = "gone" /\ conns'[c].who = conns[c].who
                  \/ \A k \in Clients : clients[k] # Down => clients[k].conn # c
    <2>1. conns'[c] = IF conns[c].st = "free" THEN Free ELSE Closed(c)
      BY DEF ServerRestarts
    <2>2. CASE conns[c].st = "free"
      <3>1. \A k \in Clients : clients[k] # Down => clients[k].conn # c
        BY <2>2 DEF IInv, ClientsOK
      <3> QED
        BY <2>1, <2>2, <3>1 DEF ConnOK, Free
    <2>3. CASE conns[c].st # "free"
      <3>1. conns[c] \in Conn
        BY <2>3, InUse DEF IInv, ConnsOK
      <3>2. /\ ConnOK(Closed(c))
            /\ \/ Closed(c) = Free /\ \A k \in Clients : clients[k] # Down => clients[k].conn # c
               \/ Closed(c).st = "gone" /\ Closed(c).who = conns[c].who
        BY <3>1, ClosedOK DEF IInv
      <3> QED
        BY <2>1, <2>3, <3>2 DEF Free
    <2> QED
      BY <2>2, <2>3
  <1>2. ConnsOK'
    BY <1>1 DEF ServerRestarts, ConnsOK, ConnOK
  <1>3. ClientsOK'
    <2> SUFFICES ASSUME NEW j \in Clients, clients[j] # Down
                 PROVE  conns'[clients[j].conn].who = j /\ conns'[clients[j].conn].st # "free"
      BY DEF ServerRestarts, IInv, ClientsOK
    <2>1. clients[j].conn \in Conns
      BY DEF IInv, ClientsOK
    <2> QED
      BY <1>1, <2>1 DEF IInv, ClientsOK
  <1>4. ChannelsOK'
    BY <1>1, EmptyChannels DEF ServerRestarts
  <1>5. RunOK' /\ PoolIsAuthorised' /\ ChecksOK'
    BY <1>1 DEF IInv, RunOK, PoolIsAuthorised, ChecksOK, ServerRestarts
  <1> QED
    BY <1>2, <1>3, <1>4, <1>5 DEF IInv, ServerOK, Runs, ServerRestarts

-----------------------------------------------------------------------------
(* The theorems. *)

LEMMA InitHolds == Init => IInv
  <1> SUFFICES ASSUME Init PROVE IInv
    OBVIOUS
  <1>1. ConnsOK
    BY DEF Init, ConnsOK, ConnOK, Free
  <1>2. ServerOK /\ ClientsOK
    BY DEF Init, ServerOK, Runs, ClientsOK
  <1>3. ChannelsOK
    <2>1. IsFiniteSet(tunnelChannel) /\ Cardinality(tunnelChannel) <= ChannelSize
      BY FS_EmptySet DEF Init
    <2>2. tunnelChannel = {x \in Conns : conns[x].st = "pool"}
      BY DEF Init, Free
    <2>3. /\ handshakeChannel \in Seq(Conns) /\ Len(handshakeChannel) <= 1
          /\ \A n \in DOMAIN handshakeChannel : conns[handshakeChannel[n]].st = "candidate"
      BY DEF Init
    <2> QED
      BY <2>1, <2>2, <2>3 DEF ChannelsOK
  <1>4. RunOK /\ ChecksOK /\ PoolIsAuthorised
    BY DEF Init, RunOK, ChecksOK, PoolIsAuthorised, Free
  <1> QED
    BY <1>1, <1>2, <1>3, <1>4 DEF IInv

LEMMA StutterHolds == ASSUME IInv, UNCHANGED vars PROVE IInv'
  <1>1. ServerOK' /\ ConnsOK' /\ ClientsOK' /\ ChannelsOK'
    BY DEF IInv, ServerOK, ConnsOK, ClientsOK, ChannelsOK, vars, server, mux
  <1>2. RunOK' /\ ChecksOK' /\ PoolIsAuthorised'
    BY DEF IInv, RunOK, ChecksOK, PoolIsAuthorised, listening, vars, server
  <1> QED
    BY <1>1, <1>2 DEF IInv

LEMMA NextHolds == IInv /\ [Next]_vars => IInv'
  <1> SUFFICES ASSUME IInv, [Next]_vars PROVE IInv'
    OBVIOUS
  <1>1. ASSUME NEW c \in Conns, Admission(c) PROVE IInv'
    BY <1>1, CheckControlKeeps, CheckNonceKeeps, AdmitLegacyKeeps, AnnounceFailsKeeps, AdmitPoolKeeps,
       AdmitClaimKeeps, AckClaimKeeps, OfferCandidateKeeps
    DEF Admission, TcpAdmission, TcpMuxAdmission, AdmissionStep
  <1>2. ASSUME NEW c \in Conns, UsePoolConn(c) \/ Collect(c) \/ announcePoolConn(c) PROVE IInv'
    BY <1>2, UsePoolConnKeeps, CollectKeeps, announcePoolConnKeeps
  <1>3. ASSUME RunStep PROVE IInv'
    BY <1>3, TakeCandidateKeeps, PublishNonceKeeps, setMuxVersionKeeps, PublishControlKeeps,
       RestartStopsKeeps, RestartClearsKeeps, RestartStartsKeeps
    DEF RunStep, TcpHandshake, TcpMuxHandshake, TcpRestart, TcpMuxRestart, HandshakeStep, RestartStep
  <1>4. ASSUME NEW k \in Clients, Claim(k) \/ ClientStep(k) \/ Break(k) \/ \E h \in Hosts : DialPool(k, h)
        PROVE  IInv'
    BY <1>4, DialKeeps, TakeAckKeeps, ClaimFailsKeeps, ControlLostKeeps, BreakKeeps, DialPoolKeeps
    DEF Claim, ClientStep
  <1>5. ASSUME ServerRestarts PROVE IInv'
    BY <1>5, ServerRestartsKeeps
  <1>6. ASSUME UNCHANGED vars PROVE IInv'
    BY <1>6, StutterHolds
  <1> QED
    BY <1>1, <1>2, <1>3, <1>4, <1>5, <1>6 DEF Next

LEMMA InvariantHolds == Spec => []IInv
  BY InitHolds, NextHolds, PTL DEF Spec

(* tcp.go, tcpmux.go: the channels never hold more than they have room for  *)
(* nor a connection that is filed elsewhere, and a client that is not down  *)
(* has a connection of its own.                                             *)
THEOREM ControlTypeCorrect == Spec => []TypeOK
  <1>1. IInv => TypeOK
    BY DEF IInv, TypeOK, ServerOK, Runs, ConnsOK, ClientsOK, ChannelsOK, Conn
  <1> QED
    BY <1>1, InvariantHolds, PTL

(* admitTunnelConn, PoolNonce, Restart: whatever restarts, breaks and rival *)
(* claims fall between the steps of an admission, every connection in the   *)
(* pool presented the nonce of the client its run was handed to, or came    *)
(* from the host of the legacy client that holds the control channel.       *)
THEOREM PoolAuthorised == Spec => []PoolIsAuthorised
  <1>1. IInv => PoolIsAuthorised
    BY DEF IInv
  <1> QED
    BY <1>1, InvariantHolds, PTL
=============================================================================
