-------------------------- MODULE ForwardingProofs --------------------------
(***************************************************************************)
(* The parts of the Forwarding run beside ReverseForward: the pool of the  *)
(* client, the forwarded ports and the udp transport, for any number of    *)
(* connections, addresses, flows and entries, and any bound.               *)
(***************************************************************************)
EXTENDS MCForwarding, ReverseForwardProofs

-----------------------------------------------------------------------------
(* ClientPool. *)

(* The counter is short of the truth by exactly what Restart found waiting. *)
PoolCount == poolConnections = Cardinality(Waiting) - Cardinality(inherited)
PoolInv   == PoolTypeOK /\ PoolCount /\ SizeBounded

LEMMA PoolSets ==
  ASSUME NEW S \in SUBSET Conns
  PROVE  IsFiniteSet(S) /\ Cardinality(S) \in Nat
BY PoolAssumption, FS_Subset, FS_CardinalityType

LEMMA PoolStartsRight == ASSUME PoolInit PROVE PoolInv
<1>1. Waiting = {} /\ inherited = {}
  BY DEF PoolInit, Waiting
<1>2. Cardinality({}) = 0
  BY FS_EmptySet
<1>3. PoolTypeOK
  <2>1. conns \in [Conns -> {"free", "dialing", "waiting", "serving"}]
    BY DEF PoolInit
  <2>2. up \in BOOLEAN
    BY Zenon DEF PoolInit
  <2> QED
    BY <2>1, <2>2, PoolAssumption DEF PoolInit, PoolTypeOK
<1>4. PoolCount
  BY <1>1, <1>2 DEF PoolInit, PoolCount
<1>5. SizeBounded
  BY PoolAssumption DEF PoolInit, SizeBounded, poolGrowthLimit
<1> QED
  BY <1>3, <1>4, <1>5 DEF PoolInv

(* Dialling takes no connection that waits.                                 *)
LEMMA DialKeeps ==
  ASSUME PoolInv, NEW C \in SUBSET Conns, CanDial(C), Dial(C)
  PROVE  Waiting' = Waiting /\ conns' \in [Conns -> {"free", "dialing", "waiting", "serving"}]
<1>1. \A d \in Conns : conns'[d] = IF d \in C THEN "dialing" ELSE conns[d]
  BY DEF Dial
<1>2. conns' \in [Conns -> {"free", "dialing", "waiting", "serving"}]
  BY DEF Dial, PoolInv, PoolTypeOK
<1>3. \A d \in C : conns[d] = "free"
  BY DEF CanDial
<1> QED
  BY <1>1, <1>2, <1>3 DEF Waiting

LEMMA PoolStartsKeeps == ASSUME PoolInv, NEW C \in SUBSET Conns, PoolStarts(C) PROVE PoolInv'
<1>1. /\ CanDial(C) /\ Dial(C) /\ up' = TRUE
      /\ newPoolSize' = ConnPoolSize /\ poolConnectionsSum' = 0 /\ ticks' = 0
      /\ UNCHANGED <<poolTransport, poolCounters, controlFlow, poolRestarts, inherited>>
  BY DEF PoolStarts
<1>2. Waiting' = Waiting /\ conns' \in [Conns -> {"free", "dialing", "waiting", "serving"}]
  BY <1>1, DialKeeps
<1>3. PoolTypeOK'
  BY <1>1, <1>2, PoolAssumption DEF PoolInv, PoolTypeOK, poolCounters
<1>4. PoolCount'
  BY <1>1, <1>2 DEF PoolInv, PoolCount, poolCounters
<1>5. SizeBounded'
  BY <1>1, PoolAssumption DEF SizeBounded, poolGrowthLimit
<1> QED
  BY <1>3, <1>4, <1>5 DEF PoolInv

LEMMA tickerPoolKeeps == ASSUME PoolInv, tickerPool PROVE PoolInv'
<1>1. Waiting' = Waiting
  BY DEF tickerPool, Waiting
<1>2. PoolTypeOK'
  BY PoolAssumption DEF PoolInv, PoolTypeOK, tickerPool, poolCounters
<1>3. PoolCount' /\ SizeBounded'
  BY <1>1 DEF PoolInv, PoolCount, SizeBounded, tickerPool, poolCounters, Unlimited
<1> QED
  BY <1>2, <1>3 DEF PoolInv

(* A decision keeps the size between its ends, where growth is limited.     *)
LEMMA tickerLoadKeeps ==
  ASSUME PoolInv, NEW grows, tickerLoad(grows),
         poolTransport \notin Unlimited /\ grows => poolCanGrow(newPoolSize)
  PROVE  PoolInv'
<1>1. /\ ticks' = 0 /\ poolConnectionsSum' = 0 /\ loadConnections' = 0
      /\ UNCHANGED <<poolTransport, up, poolConnections, poolRestarts, inherited>>
  BY DEF tickerLoad
<1>2. \/ /\ grows /\ newPoolSize' = newPoolSize + 1 /\ controlFlow' = controlFlow
         /\ \E d \in Conns : CanDial({d}) /\ Dial({d})
      \/ /\ newPoolSize > ConnPoolSize /\ newPoolSize' = newPoolSize - 1 /\ conns' = conns
         /\ controlFlow < FlowSize /\ controlFlow' = controlFlow + 1
      \/ UNCHANGED <<newPoolSize, controlFlow, conns>>
  BY DEF tickerLoad
<1>3. Waiting' = Waiting /\ conns' \in [Conns -> {"free", "dialing", "waiting", "serving"}]
  <2>1. ASSUME NEW d \in Conns, CanDial({d}), Dial({d})
        PROVE  Waiting' = Waiting /\ conns' \in [Conns -> {"free", "dialing", "waiting", "serving"}]
    BY <2>1, DialKeeps
  <2>2. conns' = conns => Waiting' = Waiting /\ conns' \in [Conns -> {"free", "dialing", "waiting", "serving"}]
    BY DEF Waiting, PoolInv, PoolTypeOK
  <2> QED
    BY <1>2, <2>1, <2>2
<1>4. newPoolSize \in Nat /\ controlFlow \in 0 .. FlowSize
  BY DEF PoolInv, PoolTypeOK
<1>5. newPoolSize' \in Nat /\ controlFlow' \in 0 .. FlowSize
  BY <1>2, <1>4, PoolAssumption
<1>6. PoolTypeOK'
  BY <1>1, <1>3, <1>5, PoolAssumption DEF PoolInv, PoolTypeOK
<1>7. PoolCount'
  BY <1>1, <1>3 DEF PoolInv, PoolCount
<1>8. SizeBounded'
  BY <1>1, <1>2, <1>4, PoolAssumption DEF PoolInv, SizeBounded, poolGrowthLimit, poolCanGrow, Unlimited
<1> QED
  BY <1>6, <1>7, <1>8 DEF PoolInv

LEMMA poolMaintainerKeeps == ASSUME PoolInv, poolMaintainer PROVE PoolInv'
<1>1. ASSUME LimitedDecision PROVE PoolInv'
  <2>1. PICK mbps \in Measured : tickerLoad(Limited(mbps))
    BY <1>1 DEF LimitedDecision
  <2>2. Limited(mbps) => poolCanGrow(newPoolSize)
    BY DEF Limited, wantsMore
  <2> QED
    BY <2>1, <2>2, tickerLoadKeeps
<1>2. ASSUME tickerLoad(Busy), poolTransport \in Unlimited PROVE PoolInv'
  BY <1>2, tickerLoadKeeps
<1> QED
  BY <1>1, <1>2, tickerPoolKeeps
  DEF poolMaintainer, TcpPoolMaintainer, TcpMuxPoolMaintainer, KcpPoolMaintainer, QuicPoolMaintainer,
      WsMuxPoolMaintainer, WsPoolMaintainer, UdpPoolMaintainer, Unlimited

LEMMA PoolRequestKeeps == ASSUME PoolInv, PoolRequest PROVE PoolInv'
<1>1. /\ loadConnections' = IF loadConnections < MaxLoad THEN loadConnections + 1 ELSE loadConnections
      /\ UNCHANGED <<poolTransport, up, poolConnections, maintainer, poolRestarts, inherited>>
      /\ \/ controlFlow > 0 /\ controlFlow' = controlFlow - 1 /\ conns' = conns
         \/ controlFlow' = controlFlow /\ \E d \in Conns : CanDial({d}) /\ Dial({d})
  BY DEF PoolRequest
<1>2. Waiting' = Waiting /\ conns' \in [Conns -> {"free", "dialing", "waiting", "serving"}]
  <2>1. ASSUME NEW d \in Conns, CanDial({d}), Dial({d})
        PROVE  Waiting' = Waiting /\ conns' \in [Conns -> {"free", "dialing", "waiting", "serving"}]
    BY <2>1, DialKeeps
  <2>2. conns' = conns => Waiting' = Waiting /\ conns' \in [Conns -> {"free", "dialing", "waiting", "serving"}]
    BY DEF Waiting, PoolInv, PoolTypeOK
  <2> QED
    BY <1>1, <2>1, <2>2
<1>3. PoolTypeOK'
  BY <1>1, <1>2, PoolAssumption DEF PoolInv, PoolTypeOK, maintainer
<1>4. PoolCount' /\ SizeBounded'
  BY <1>1, <1>2 DEF PoolInv, PoolCount, SizeBounded, maintainer, Unlimited
<1> QED
  BY <1>3, <1>4 DEF PoolInv

(* A connection that joins or leaves is counted as it does.                 *)
LEMMA BecomesKeeps ==
  ASSUME PoolInv, NEW d \in Conns, NEW st \in {"free", "waiting", "serving"}, Becomes(d, st),
         poolConnections' = poolConnections + (IF st = "waiting" THEN 1 ELSE 0)
                                            - (IF conns[d] = "waiting" THEN 1 ELSE 0),
         UNCHANGED <<poolTransport, up, loadConnections, maintainer, controlFlow, poolRestarts, inherited>>
  PROVE  PoolInv'
<1>1. conns \in [Conns -> {"free", "dialing", "waiting", "serving"}] /\ poolConnections \in Int
  BY DEF PoolInv, PoolTypeOK
<1>2. conns' \in [Conns -> {"free", "dialing", "waiting", "serving"}] /\ conns'[d] = st
      /\ \A e \in Conns : e # d => conns'[e] = conns[e]
  BY <1>1 DEF Becomes
<1>3. Waiting' = (IF st = "waiting" THEN Waiting \cup {d} ELSE Waiting \ {d})
  BY <1>2 DEF Waiting
<1>4. d \in Waiting <=> conns[d] = "waiting"
  BY DEF Waiting
<1>5. IsFiniteSet(Waiting) /\ Cardinality(Waiting) \in Nat
  BY PoolSets DEF Waiting
<1>6. /\ Cardinality(Waiting \cup {d}) = IF d \in Waiting THEN Cardinality(Waiting) ELSE Cardinality(Waiting) + 1
      /\ Cardinality(Waiting \ {d}) = IF d \in Waiting THEN Cardinality(Waiting) - 1 ELSE Cardinality(Waiting)
  BY <1>5, FS_AddElement, FS_RemoveElement, Zenon
<1>7. Cardinality(Waiting') = Cardinality(Waiting) + (IF st = "waiting" THEN 1 ELSE 0)
                                                  - (IF conns[d] = "waiting" THEN 1 ELSE 0)
  BY <1>3, <1>4, <1>5, <1>6
<1>8. PoolTypeOK'
  BY <1>1, <1>2 DEF PoolInv, PoolTypeOK, maintainer
<1>9. PoolCount'
  <2>1. Cardinality(inherited) \in Nat
    BY PoolSets DEF PoolInv, PoolTypeOK
  <2> QED
    BY <1>1, <1>5, <1>7, <2>1 DEF PoolInv, PoolCount
<1>10. SizeBounded'
  BY DEF PoolInv, SizeBounded, maintainer, Unlimited
<1> QED
  BY <1>8, <1>9, <1>10 DEF PoolInv

LEMMA tunnelDialerKeeps == ASSUME PoolInv, NEW d \in Conns, tunnelDialer(d) PROVE PoolInv'
<1>1. poolConnections \in Int
  BY DEF PoolInv, PoolTypeOK
<1>2. ASSUME NEW st \in {"free", "serving"}, LeavesWith(d, st) PROVE PoolInv'
  <2>1. poolConnections' = poolConnections - 1 /\ conns[d] = "waiting" /\ Becomes(d, st)
        /\ UNCHANGED <<poolTransport, up, loadConnections, maintainer, controlFlow, poolRestarts, inherited>>
    BY <1>2 DEF LeavesWith
  <2> QED
    BY <1>1, <2>1, BecomesKeeps
<1>3. ASSUME DialFails(d) \/ ServiceEnds(d) PROVE PoolInv'
  <2>1. poolConnections' = poolConnections /\ conns[d] # "waiting" /\ Becomes(d, "free")
        /\ UNCHANGED <<poolTransport, up, loadConnections, maintainer, controlFlow, poolRestarts, inherited>>
    BY <1>3 DEF DialFails, ServiceEnds, poolCounters
  <2> QED
    BY <1>1, <2>1, BecomesKeeps
<1>4. ASSUME Joins(d) PROVE PoolInv'
  <2>1. poolConnections' = poolConnections + 1 /\ conns[d] # "waiting" /\ Becomes(d, "waiting")
        /\ UNCHANGED <<poolTransport, up, loadConnections, maintainer, controlFlow, poolRestarts, inherited>>
    BY <1>4 DEF Joins
  <2> QED
    BY <1>1, <2>1, BecomesKeeps
<1> QED
  BY <1>2, <1>3, <1>4
  DEF tunnelDialer, TcpTunnelDialer, QuicTunnelDialer, WsTunnelDialer, UdpTunnelDialer, TakesTarget,
      TcpMuxHandleSession, KcpHandleSession, WsMuxHandleSession

(* What Restart finds waiting, and leaves, is what the counter misses.      *)
LEMMA PoolRestartKeeps == ASSUME PoolInv, NEW ended \in SUBSET Conns, PoolRestart(ended) PROVE PoolInv'
<1>1. /\ poolRestarts < MaxPoolRestarts /\ poolRestarts' = poolRestarts + 1 /\ up' = FALSE
      /\ poolConnections' = 0 /\ loadConnections' = 0 /\ controlFlow' = 0
      /\ conns' = [d \in Conns |-> IF d \in ended THEN "free" ELSE conns[d]]
      /\ inherited' = {d \in Conns : conns[d] = "waiting"} \ ended
      /\ UNCHANGED <<poolTransport, maintainer>>
  BY DEF PoolRestart
<1>2. Waiting' = inherited' /\ inherited' \in SUBSET Conns
  BY <1>1 DEF Waiting
<1>3. PoolTypeOK'
  <2>1. conns' \in [Conns -> {"free", "dialing", "waiting", "serving"}]
    BY <1>1 DEF PoolInv, PoolTypeOK
  <2>2. up' \in BOOLEAN
    BY <1>1, Zenon
  <2> QED
    BY <1>1, <1>2, <2>1, <2>2, PoolAssumption DEF PoolInv, PoolTypeOK, maintainer
<1>4. PoolCount'
  <2>1. Cardinality(inherited') \in Nat
    BY <1>2, PoolSets
  <2> QED
    BY <1>1, <1>2, <2>1 DEF PoolCount
<1>5. SizeBounded'
  BY <1>1 DEF PoolInv, SizeBounded, maintainer, Unlimited
<1> QED
  BY <1>3, <1>4, <1>5 DEF PoolInv

LEMMA PoolStep == PoolInv /\ [PoolNext]_poolVars => PoolInv'
<1>1. ASSUME PoolInv, UNCHANGED poolVars PROVE PoolInv'
  BY <1>1 DEF poolVars, poolCounters, maintainer, PoolInv, PoolTypeOK, PoolCount, SizeBounded, Waiting, Unlimited
<1> QED
  BY <1>1, PoolStartsKeeps, poolMaintainerKeeps, PoolRequestKeeps, PoolRestartKeeps, tunnelDialerKeeps DEF PoolNext

LEMMA PoolFollows == ASSUME PoolInv PROVE PoolIsRight
<1>1. /\ Cardinality(Waiting) \in Nat /\ Cardinality(inherited) \in Nat
      /\ inherited = {} => Cardinality(inherited) = 0
  BY PoolSets, FS_EmptySet DEF Waiting, PoolInv, PoolTypeOK
<1> QED
  BY <1>1 DEF PoolIsRight, PoolInv, PoolCount, CounterTrue, CounterDrift

(* The client's pool: through every interleaving of dials, targets, tokens  *)
(* and restarts the counter differs from the connections that wait by just  *)
(* those a Restart found, and the size stays between the configured one and *)
(* four times that, whatever the drift makes of the averages.               *)
THEOREM PoolStaysRight == PoolSpec => []PoolIsRight
<1>1. PoolInit => PoolInv
  BY PoolStartsRight
<1>2. PoolInv => PoolIsRight
  BY PoolFollows
<1> QED
  BY <1>1, <1>2, PoolStep, PTL DEF PoolSpec

-----------------------------------------------------------------------------
(* PortMappings: what an entry means. *)

LEMMA PortBounds == PMax \in Nat /\ PMaxRuns \in Nat /\ PPairs \subseteq PEntries
BY PEntryAssumption

(* An entry that has a target has one piece to the right at least.          *)
LEMMA EntryFacts ==
  ASSUME NEW e \in PEntries
  PROVE  /\ e.left \in Pieces /\ e.left.form \in Forms /\ e.left.lo \in Nat /\ e.left.hi \in Nat
         /\ e.left.form \in Hostless => e.left.host = NoHost
         /\ Len(e.rights) \in Nat /\ (e.rights = <<>> <=> Len(e.rights) = 0)
         /\ e.rights # <<>> => /\ e.rights[1] \in Pieces
                               /\ e.rights[1].form \in Hostless => e.rights[1].host = NoHost
<1>1. /\ e \in [left : Pieces, rights : Seq(Pieces)]
      /\ e.left.form \in Hostless => e.left.host = NoHost
      /\ \A i \in DOMAIN e.rights : e.rights[i].form \in Hostless => e.rights[i].host = NoHost
  BY PEntryAssumption
<1>2. e.left \in Pieces /\ e.rights \in Seq(Pieces)
  BY <1>1
<1>3. e.left.form \in Forms /\ e.left.lo \in Nat /\ e.left.hi \in Nat
  BY <1>2 DEF Pieces
<1>4. /\ Len(e.rights) \in Nat /\ (e.rights = <<>> <=> Len(e.rights) = 0)
      /\ e.rights # <<>> => 1 \in DOMAIN e.rights /\ e.rights[1] \in Pieces
  BY <1>2
<1> QED
  BY <1>1, <1>2, <1>3, <1>4

(* The shapes of a listener that parsePortMappings starts.                  *)
Wants(l, host, port, to) == l.host = host /\ l.port = port /\ l.to = to
FromRange(e, l) ==
  /\ e.left.form = "range" /\ validPort(e.left.lo) /\ validPort(e.left.hi) /\ e.left.hi >= e.left.lo
  /\ l.port \in e.left.lo .. e.left.hi
  /\ e.rights = <<>> => Wants(l, NoHost, l.port, Piece("port", NoHost, l.port, l.port))
  /\ e.rights # <<>> => Wants(l, NoHost, l.port, e.rights[1])
FromPort(e, l) ==
  /\ e.left.form = "port" /\ validPort(e.left.lo)
  /\ e.rights = <<>> => Wants(l, NoHost, e.left.lo, e.left)
  /\ e.rights # <<>> => Wants(l, NoHost, e.left.lo, e.rights[1])
FromAddr(e, l) ==
  /\ e.left.form = "addr" /\ e.rights # <<>> /\ e.left.lo \in 0 .. PMax
  /\ Wants(l, e.left.host, e.left.lo, e.rights[1])
FromNone(e, l) ==
  e.left.form = "empty" /\ e.rights # <<>> /\ Wants(l, NoHost, 0, e.rights[1])

LEMMA ListenerFields ==
  ASSUME NEW h, NEW p, NEW to
  PROVE  /\ Wants(Listener(h, p, to), h, p, to)
         /\ \A l : l = Listener(h, p, to) => l = Listener(l.host, l.port, l.to) /\ Wants(l, h, p, to)
BY DEF Listener, Wants

LEMMA ListenerShape ==
  ASSUME NEW e \in PEntries, NEW l \in Listeners(e)
  PROVE  /\ Len(e.rights) <= 1 /\ l = Listener(l.host, l.port, l.to)
         /\ FromRange(e, l) \/ FromPort(e, l) \/ FromAddr(e, l) \/ FromNone(e, l)
<1>0. Len(e.rights) \in Nat /\ e.left.lo \in Nat
  BY EntryFacts
<1>1. Len(e.rights) <= 1
  BY <1>0 DEF Listeners
<1>2. CASE Dashed(e.left)
  <2>1. l \in RangeListeners(e)
    BY <1>0, <1>1, <1>2 DEF Listeners
  <2>2. PICK n \in e.left.lo .. e.left.hi :
          l = Listener(NoHost, n, IF e.rights = <<>> THEN Piece("port", NoHost, n, n) ELSE e.rights[1])
    BY <2>1 DEF RangeListeners
  <2>3. /\ l = Listener(l.host, l.port, l.to)
        /\ Wants(l, NoHost, n, IF e.rights = <<>> THEN Piece("port", NoHost, n, n) ELSE e.rights[1])
    BY <2>2, ListenerFields
  <2>4. /\ l.port = n
        /\ e.rights = <<>> => Wants(l, NoHost, l.port, Piece("port", NoHost, l.port, l.port))
        /\ e.rights # <<>> => Wants(l, NoHost, l.port, e.rights[1])
    BY <2>3 DEF Wants
  <2>5. e.left.form = "range" /\ validPort(e.left.lo) /\ validPort(e.left.hi) /\ e.left.hi >= e.left.lo
    BY <2>1 DEF RangeListeners
  <2> QED
    BY <1>1, <2>2, <2>3, <2>4, <2>5 DEF FromRange
<1>3. CASE ~Dashed(e.left) /\ e.rights = <<>>
  <2>1. e.left.form = "port" /\ validPort(e.left.lo) /\ l = Listener(NoHost, e.left.lo, e.left)
    BY <1>0, <1>1, <1>3 DEF Listeners
  <2> QED
    BY <1>1, <1>3, <2>1, ListenerFields DEF FromPort
<1>4. CASE ~Dashed(e.left) /\ e.rights # <<>>
  <2>1. l \in SingleListener(e)
    BY <1>0, <1>1, <1>4 DEF Listeners
  <2>2. \/ listenAddrFor(e.left) /\ l = Listener(NoHost, e.left.lo, e.rights[1])
        \/ e.left.form = "addr" /\ e.left.lo \in 0 .. PMax /\ l = Listener(e.left.host, e.left.lo, e.rights[1])
        \/ e.left.form = "empty" /\ l = Listener(NoHost, 0, e.rights[1])
    BY <2>1 DEF SingleListener
  <2>3. listenAddrFor(e.left) => e.left.form = "port" /\ validPort(e.left.lo)
    BY <1>0, PortBounds DEF listenAddrFor, validPort
  <2> QED
    BY <1>1, <1>4, <2>2, <2>3, ListenerFields DEF FromPort, FromAddr, FromNone
<1> QED
  BY <1>2, <1>3, <1>4

LEMMA ListenerPort == ASSUME NEW e \in PEntries, NEW l \in Listeners(e) PROVE l.port \in 0 .. PMax
<1>1. FromRange(e, l) \/ FromPort(e, l) \/ FromAddr(e, l) \/ FromNone(e, l)
  BY ListenerShape
<1>2. e.left.lo \in Nat /\ e.left.hi \in Nat
  BY EntryFacts
<1>3. FromRange(e, l) => l.port \in 0 .. PMax
  BY <1>2, PortBounds DEF FromRange, validPort
<1>4. FromPort(e, l) => l.port = e.left.lo /\ validPort(e.left.lo)
  BY DEF FromPort, Wants
<1>5. FromAddr(e, l) \/ FromNone(e, l) => l.port \in 0 .. PMax
  BY PortBounds DEF FromAddr, FromNone, Wants
<1> QED
  BY <1>1, <1>2, <1>3, <1>4, <1>5, PortBounds DEF validPort

(* No listener of an entry is in the way of another of it.                  *)
LEMMA NoClashWithin ==
  ASSUME NEW e \in PEntries, NEW k \in Listeners(e), NEW l \in Listeners(e), Clash(k, l)
  PROVE  k = l
<1>1. k.port = l.port
  BY DEF Clash
<1>2. /\ FromRange(e, k) \/ FromPort(e, k) \/ FromAddr(e, k) \/ FromNone(e, k)
      /\ FromRange(e, l) \/ FromPort(e, l) \/ FromAddr(e, l) \/ FromNone(e, l)
      /\ k = Listener(k.host, k.port, k.to) /\ l = Listener(l.host, l.port, l.to)
  BY ListenerShape
<1>3. k.host = l.host /\ k.to = l.to
  BY <1>1, <1>2 DEF FromRange, FromPort, FromAddr, FromNone, Wants
<1> QED
  BY <1>1, <1>2, <1>3

(* What the screens let pass is listened on.                                *)
LEMMA ValidListens ==
  ASSUME NEW e \in PEntries, validPortSpec(e), Len(e.rights) <= 1, e.left.host # "dash"
  PROVE  Listeners(e) # {}
<1>0. /\ Len(e.rights) \in Nat /\ (e.rights = <<>> <=> Len(e.rights) = 0)
      /\ e.left.lo \in Nat /\ e.left.hi \in Nat /\ PMax \in Nat
  BY EntryFacts, PortBounds
<1>1. CASE e.left.form = "range"
  <2>1. Dashed(e.left) /\ validPort(e.left.lo) /\ validPort(e.left.hi) /\ e.left.hi >= e.left.lo
    BY <1>1 DEF Dashed, validPortSpec
  <2>2. e.left.lo \in e.left.lo .. e.left.hi
    BY <1>0, <2>1
  <2>3. RangeListeners(e) # {}
    BY <1>1, <2>1, <2>2 DEF RangeListeners
  <2> QED
    BY <1>0, <2>1, <2>3 DEF Listeners
<1>2. CASE e.left.form = "port"
  <2>1. ~Dashed(e.left) /\ validPort(e.left.lo)
    BY <1>2 DEF Dashed, validPortSpec
  <2>2. listenAddrFor(e.left)
    BY <1>0, <1>2, <2>1 DEF listenAddrFor, validPort
  <2>3. SingleListener(e) # {}
    BY <2>2 DEF SingleListener
  <2> QED
    BY <1>0, <1>2, <2>1, <2>3 DEF Listeners
<1>3. CASE e.left.form = "addr"
  <2>1. ~Dashed(e.left) /\ validPort(e.left.lo) /\ Len(e.rights) > 0
    BY <1>3 DEF Dashed, validPortSpec
  <2>2. e.left.lo \in 0 .. PMax
    BY <1>0, <2>1 DEF validPort
  <2>3. SingleListener(e) # {}
    BY <1>3, <2>2 DEF SingleListener
  <2> QED
    BY <1>0, <2>1, <2>3 DEF Listeners
<1> QED
  BY <1>1, <1>2, <1>3 DEF validPortSpec

(* A single target, as the client resolves it and as Expand writes it.      *)
LEMMA OneTarget ==
  ASSUME NEW p \in Pieces, p.form \in {"port", "addr"}, p.form \in Hostless => p.host = NoHost,
         p.host # Six
  PROVE  ResolveRemoteAddr(p) = <<targetAddr(p, p.lo)>> /\ Span(p) = 1
BY DEF ResolveRemoteAddr, targetAddr, Span, Hostless

LEMMA Spreads ==
  ASSUME NEW p \in Pieces, NEW q \in Pieces, NEW n \in p.lo .. p.lo + Span(p) - 1
  PROVE  Listener(p.host, n, <<targetAddr(q, IF Span(q) > 1 THEN q.lo + (n - p.lo) ELSE q.lo)>>) \in Spread(p, q)
<1>1. p.lo \in Nat /\ p.hi \in Nat /\ Span(p) \in Int
  BY DEF Pieces, Span
<1>2. n - p.lo \in 0 .. Span(p) - 1 /\ p.lo + (n - p.lo) = n
  BY <1>1
<1> QED
  BY <1>2 DEF Spread

(* An entry both sides read is read alike.                                  *)
LEMMA ReadsAlike ==
  ASSUME NEW e \in PEntries, NEW l \in Listeners(e), validPortSpec(e), Expand(e) # {},
         ~OnlyExpanded(e)
  PROVE  Listener(l.host, l.port, ResolveRemoteAddr(l.to)) \in Expand(e)
<1>0. /\ e.left \in Pieces /\ e.left.lo \in Nat /\ e.left.hi \in Nat
      /\ e.left.form \in Hostless => e.left.host = NoHost
      /\ e.rights # <<>> => e.rights[1] \in Pieces /\ (e.rights[1].form \in Hostless => e.rights[1].host = NoHost)
      /\ Len(e.rights) \in Nat
  BY EntryFacts
<1>1. /\ FromRange(e, l) \/ FromPort(e, l) \/ FromAddr(e, l) \/ FromNone(e, l)
      /\ Len(e.rights) <= 1
  BY ListenerShape
<1>2. parsePortRange(e.left) /\ e.left.form # "empty"
  BY <1>0, <1>1 DEF Expand, validPortSpec
<1>3. l.host = e.left.host /\ l.port \in e.left.lo .. e.left.lo + Span(e.left) - 1
  <2>1. CASE FromRange(e, l)
    <3>1. Span(e.left) = e.left.hi - e.left.lo + 1 /\ e.left.host = NoHost
      BY <1>0, <2>1 DEF FromRange, Span, Hostless
    <3>2. l.host = NoHost /\ l.port \in e.left.lo .. e.left.hi
      BY <2>1 DEF FromRange, Wants
    <3> QED
      BY <1>0, <3>1, <3>2
  <2>2. CASE FromPort(e, l) \/ FromAddr(e, l)
    <3>1. Span(e.left) = 1 /\ (e.left.form = "port" => e.left.host = NoHost)
      BY <1>0, <2>2 DEF FromPort, FromAddr, Span, Hostless
    <3>2. l.host = e.left.host /\ l.port = e.left.lo
      BY <2>2, <3>1 DEF FromPort, FromAddr, Wants
    <3> QED
      BY <1>0, <3>1, <3>2
  <2> QED
    BY <1>1, <1>2, <2>1, <2>2 DEF FromNone
<1>4. CASE e.rights = <<>>
  <2>1. FromRange(e, l) \/ FromPort(e, l)
    BY <1>1, <1>2, <1>4 DEF FromAddr, FromNone
  <2>2. e.left.host = NoHost
    BY <1>0, <2>1 DEF FromRange, FromPort, Hostless
  <2>3. [e.left EXCEPT !.host = NoHost] = e.left
    BY <1>0, <2>2 DEF Pieces
  <2>4. Expand(e) = Spread(e.left, e.left)
    <3>1. Expand(e) = expandOne(e.left, e.left)
      BY <1>0, <1>1, <1>2, <1>4, <2>3 DEF Expand
    <3>2. e.left.form # "alts"
      BY <2>1 DEF FromRange, FromPort
    <3> QED
      BY <1>2, <3>1, <3>2 DEF expandOne
  <2>5. Listener(l.host, l.port, <<targetAddr(e.left, l.port)>>) \in Expand(e)
    <3>1. Span(e.left) \in Int
      BY <1>0 DEF Span
    <3>2. (IF Span(e.left) > 1 THEN e.left.lo + (l.port - e.left.lo) ELSE e.left.lo) = l.port
      BY <1>0, <1>3, <3>1
    <3> QED
      BY <1>0, <1>3, <2>4, <3>2, Spreads
  <2>6. l.to.form = "port" /\ l.to.lo = l.port /\ l.to.host = NoHost
    <3>1. \A n : LET q == Piece("port", NoHost, n, n) IN q.form = "port" /\ q.lo = n /\ q.host = NoHost
      BY DEF Piece
    <3> QED
      BY <1>4, <2>1, <2>2, <3>1 DEF FromRange, FromPort, Wants
  <2>7. ResolveRemoteAddr(l.to) = <<targetAddr(e.left, l.port)>>
    BY <2>2, <2>6 DEF ResolveRemoteAddr, targetAddr, NoHost, Six
  <2> QED
    BY <2>5, <2>7
<1>5. CASE e.rights # <<>>
  <2> DEFINE r == e.rights[1]
  <2>1. /\ r \in Pieces /\ r.form \notin {"range", "addrrange"} /\ r.host # Six
        /\ r.form \in Hostless => r.host = NoHost
    BY <1>0, <1>5 DEF OnlyExpanded
  <2>2. l.to = r
    BY <1>1, <1>5 DEF FromRange, FromPort, FromAddr, FromNone, Wants
  <2>3. Expand(e) = expandOne(e.left, r)
    BY <1>0, <1>1, <1>2, <1>5 DEF Expand
  <2> HIDE DEF r
  <2>4. CASE r.form = "alts"
    <3>1. /\ Span(e.left) = 1
          /\ Expand(e) = {Listener(e.left.host, e.left.lo, <<targetAddr(r, r.lo), targetAddr(r, r.hi)>>)}
      BY <2>3, <2>4 DEF expandOne
    <3>2. l.port = e.left.lo
      BY <1>0, <1>3, <3>1
    <3> QED
      BY <1>3, <2>1, <2>2, <2>4, <3>1, <3>2 DEF ResolveRemoteAddr
  <2>5. CASE r.form # "alts"
    <3>1. parsePortRange(r) /\ Expand(e) = Spread(e.left, r)
      BY <2>3, <2>5 DEF expandOne
    <3>2. r.form \in {"port", "addr"}
      BY <2>1, <3>1 DEF parsePortRange
    <3>3. ResolveRemoteAddr(r) = <<targetAddr(r, r.lo)>> /\ Span(r) = 1
      BY <2>1, <3>2, OneTarget
    <3>4. (IF Span(r) > 1 THEN r.lo + (l.port - e.left.lo) ELSE r.lo) = r.lo
      BY <3>3
    <3>5. Listener(l.host, l.port, <<targetAddr(r, r.lo)>>) \in Spread(e.left, r)
      BY <1>0, <1>3, <2>1, <3>4, Spreads
    <3> QED
      BY <2>2, <3>1, <3>3, <3>5
  <2> QED
    BY <2>4, <2>5
<1> QED
  BY <1>4, <1>5

(* A target only Expand can read is one the client refuses.                 *)
LEMMA RefusedAlone ==
  ASSUME NEW e \in PEntries, NEW l \in Listeners(e), validPortSpec(e), OnlyExpanded(e)
  PROVE  ResolveRemoteAddr(l.to) = <<>>
<1>1. FromRange(e, l) \/ FromPort(e, l) \/ FromAddr(e, l) \/ FromNone(e, l)
  BY ListenerShape
<1>2. l.to = e.rights[1]
  BY <1>1 DEF OnlyExpanded, FromRange, FromPort, FromAddr, FromNone, Wants
<1> QED
  BY <1>2 DEF OnlyExpanded, ResolveRemoteAddr

-----------------------------------------------------------------------------
(* PortMappings: the steps. *)

Started(y) == y = [entry |-> y.entry, l |-> y.l] /\ y.entry \in 1 .. Len(pspecs)
              /\ y.l \in Listeners(pspecs[y.entry])

PortInv ==
  /\ ptransport \in PTransports /\ pruns \in 0 .. PMaxRuns /\ pfatal \in {"no", "entry", "bind", "stale"}
  /\ pspecs \in Seq(PEntries) /\ Len(pspecs) \in Nat /\ Len(pspecs) >= 1 /\ Len(pspecs) <= 2
  /\ pnext \in 1 .. Len(pspecs) + 1
  /\ \A y \in pending \cup bound \cup stale : Started(y)
  /\ \A y \in pending \cup bound : y.entry < pnext
  /\ pending \cap bound = {}
  /\ pfatal = "entry" => \E i \in 1 .. Len(pspecs) : Listeners(pspecs[i]) = {}
  /\ pfatal = "bind" => Overlap \/ \E i \in DOMAIN pspecs : pspecs[i].left.host = Away
  /\ \A y \in stale : pruns > 0 /\ Dashed(pspecs[y.entry].left)
  /\ pfatal = "stale" => pruns > 0 /\ \E i \in DOMAIN pspecs : Dashed(pspecs[i].left)

LEMMA PortStart == ASSUME PortInit PROVE PortInv
<1>1. pspecs \in Seq(PEntries) /\ Len(pspecs) \in Nat /\ Len(pspecs) >= 1 /\ Len(pspecs) <= 2
  <2>1. ASSUME NEW e \in PEntries PROVE <<e>> \in Seq(PEntries) /\ Len(<<e>>) = 1
    OBVIOUS
  <2>2. ASSUME NEW d \in PPairs, NEW e \in PPairs PROVE <<d, e>> \in Seq(PEntries) /\ Len(<<d, e>>) = 2
    <3>1. d \in PEntries /\ e \in PEntries
      BY PortBounds
    <3> QED
      BY <3>1
  <2>3. \/ \E e \in PEntries : pspecs = <<e>>
        \/ \E d \in PPairs, e \in PPairs : pspecs = <<d, e>>
    <3>1. pspecs \in {<<e>> : e \in PEntries} \/ pspecs \in {<<d, e>> : d \in PPairs, e \in PPairs}
      BY DEF PortInit
    <3> QED
      BY <3>1
  <2>4. CASE \E e \in PEntries : pspecs = <<e>>
    BY <2>1, <2>4
  <2>5. CASE \E d \in PPairs, e \in PPairs : pspecs = <<d, e>>
    BY <2>2, <2>5
  <2> QED
    BY <2>3, <2>4, <2>5
<1>2. /\ ptransport \in PTransports /\ pnext = 1 /\ pending = {} /\ bound = {} /\ stale = {}
      /\ pfatal = "no" /\ pruns = 0
  BY DEF PortInit
<1>3. pruns \in 0 .. PMaxRuns /\ pnext \in 1 .. Len(pspecs) + 1
  BY <1>1, <1>2, PortBounds
<1> QED
  BY <1>1, <1>2, <1>3 DEF PortInv

LEMMA ParseEntryKeeps == ASSUME PortInv, ParseEntry PROVE PortInv'
<1> DEFINE ls  == Listeners(pspecs[pnext])
           new == {[entry |-> pnext, l |-> k] : k \in ls}
<1>1. /\ pnext <= Len(pspecs) /\ pending' = pending \cup new /\ pnext' = pnext + 1
      /\ pfatal' = (IF ls = {} THEN "entry" ELSE "no")
      /\ UNCHANGED <<ptransport, pspecs, bound, stale, pruns>>
  BY DEF ParseEntry
<1>2. pnext \in 1 .. Len(pspecs) /\ Len(pspecs) \in Nat /\ Len(pspecs) >= 1 /\ Len(pspecs) <= 2
  BY <1>1 DEF PortInv
<1>3. \A y \in new : Started(y) /\ y.entry = pnext
  BY <1>2 DEF Started
<1> HIDE DEF new
<1>4. \A y \in pending' \cup bound' \cup stale' : Started(y)'
  BY <1>1, <1>3 DEF PortInv, Started
<1>5. \A y \in pending' \cup bound' : y.entry < pnext'
  <2>1. \A y \in pending \cup bound : y.entry \in Int /\ y.entry < pnext
    BY DEF PortInv, Started
  <2> QED
    BY <1>1, <1>2, <1>3, <2>1
<1>6. pending' \cap bound' = {}
  <2>1. \A y \in new : y \notin bound
    BY <1>2, <1>3 DEF PortInv
  <2> QED
    BY <1>1, <2>1 DEF PortInv
<1>7. pfatal' = "entry" => \E i \in 1 .. Len(pspecs') : Listeners(pspecs'[i]) = {}
  BY <1>1, <1>2
<1>8. pnext' \in 1 .. Len(pspecs') + 1 /\ pfatal' \in {"no", "entry"}
  BY <1>1, <1>2
<1>9. \A y \in stale' : pruns' > 0 /\ Dashed(pspecs'[y.entry].left)
  BY <1>1 DEF PortInv
<1> QED
  BY <1>1, <1>4, <1>5, <1>6, <1>7, <1>8, <1>9 DEF PortInv

(* A host an entry of the list would be listened on with is its left side's *)
(* or none.                                                                 *)
LEMMA ListenerHost ==
  ASSUME NEW e \in PEntries, NEW l \in Listeners(e), l.host = Away
  PROVE  e.left.host = Away
<1>1. FromRange(e, l) \/ FromPort(e, l) \/ FromAddr(e, l) \/ FromNone(e, l)
  BY ListenerShape
<1> QED
  BY <1>1 DEF FromRange, FromPort, FromAddr, FromNone, Wants, NoHost, Away

LEMMA BindListenerKeeps == ASSUME PortInv, BindListener PROVE PortInv'
<1>1. pfatal = "no" /\ UNCHANGED <<ptransport, pspecs, pnext, stale, pruns>>
  BY DEF BindListener
<1>2. PICK z \in pending : /\ pending' = pending \ {z}
                           /\ IF z.l.host = Away \/ \E y \in bound : Clash(z.l, y.l)
                              THEN pfatal' = "bind" /\ bound' = bound
                              ELSE bound' = bound \cup {z} /\ pfatal' = pfatal
  BY DEF BindListener
<1>3. bound' \subseteq bound \cup {z} /\ pfatal' \in {"no", "bind"}
  BY <1>1, <1>2
<1>4. \A y \in pending' \cup bound' \cup stale' : Started(y)'
  BY <1>1, <1>2, <1>3 DEF PortInv, Started
<1>5. \A y \in pending' \cup bound' : y.entry < pnext'
  BY <1>1, <1>2, <1>3 DEF PortInv
<1>6. pending' \cap bound' = {}
  BY <1>2, <1>3 DEF PortInv
<1>7. pfatal' = "bind" => Overlap \/ \E i \in DOMAIN pspecs : pspecs[i].left.host = Away
  <2>1. Started(z) /\ z.entry \in DOMAIN pspecs /\ pspecs[z.entry] \in PEntries
    BY <1>2 DEF PortInv, Started
  <2>2. CASE z.l.host = Away
    BY <2>1, <2>2, ListenerHost DEF Started
  <2>3. ASSUME NEW y \in bound, Clash(z.l, y.l) PROVE Overlap
    <3>1. Started(y) /\ y.entry \in DOMAIN pspecs /\ z # y
      BY <1>2 DEF PortInv, Started
    <3>2. z.entry # y.entry
      <4> SUFFICES ASSUME z.entry = y.entry PROVE FALSE
        OBVIOUS
      <4>1. z.l = y.l
        BY <2>1, <2>3, <3>1, NoClashWithin DEF Started
      <4> QED
        BY <2>1, <3>1, <4>1 DEF Started
    <3> QED
      BY <2>1, <2>3, <3>1, <3>2 DEF Overlap, Started
  <2> QED
    BY <1>1, <1>2, <2>2, <2>3
<1>8. (Overlap <=> Overlap') /\ \A y \in stale' : pruns' > 0 /\ Dashed(pspecs'[y.entry].left)
  BY <1>1 DEF PortInv, Overlap
<1> QED
  BY <1>1, <1>3, <1>4, <1>5, <1>6, <1>7, <1>8 DEF PortInv

LEMMA PortRestartKeeps == ASSUME PortInv, PortRestart PROVE PortInv'
<1>1. /\ pruns < PMaxRuns /\ pruns' = pruns + 1 /\ bound' = {} /\ pending' = {} /\ pnext' = 1
      /\ stale' = stale \cup {y \in pending : Dashed(pspecs[y.entry].left)}
      /\ pfatal = "no" /\ UNCHANGED <<ptransport, pspecs, pfatal>>
  BY DEF PortRestart
<1>2. \A y \in stale' : Started(y)'
  BY <1>1 DEF PortInv, Started
<1>3. pruns' \in 0 .. PMaxRuns /\ pruns' > 0 /\ pnext' \in 1 .. Len(pspecs') + 1
  <2>1. pruns \in 0 .. PMaxRuns /\ Len(pspecs) \in Nat /\ Len(pspecs) >= 1 /\ Len(pspecs) <= 2
    BY DEF PortInv
  <2> QED
    BY <1>1, <2>1, PortBounds
<1>4. \A y \in stale' : Dashed(pspecs'[y.entry].left)
  BY <1>1 DEF PortInv
<1> QED
  BY <1>1, <1>2, <1>3, <1>4 DEF PortInv

LEMMA StaleListenKeeps == ASSUME PortInv, StaleListen PROVE PortInv'
<1>1. PICK z \in stale : stale' = stale \ {z} /\ pfatal' \in {"no", "stale"}
  BY DEF StaleListen
<1>2. UNCHANGED <<ptransport, pspecs, pnext, pending, bound, pruns>>
  BY DEF StaleListen
<1>3. \A y \in pending' \cup bound' \cup stale' : Started(y)'
  BY <1>1, <1>2 DEF PortInv, Started
<1>4. pruns > 0 /\ z.entry \in DOMAIN pspecs /\ Dashed(pspecs[z.entry].left)
  BY <1>1 DEF PortInv, Started
<1>5. \A y \in stale' : pruns' > 0 /\ Dashed(pspecs'[y.entry].left)
  BY <1>1, <1>2 DEF PortInv
<1> QED
  BY <1>1, <1>2, <1>3, <1>4, <1>5 DEF PortInv

LEMMA PortStep == PortInv /\ [PortNext]_pvars => PortInv'
<1>1. ASSUME PortInv, UNCHANGED pvars PROVE PortInv'
  BY <1>1 DEF pvars, PortInv, Started, Overlap
<1>2. ASSUME PortInv, PortNext PROVE PortInv'
  BY <1>2, ParseEntryKeeps, BindListenerKeeps, PortRestartKeeps, StaleListenKeeps
  DEF PortNext, TcpParse, TcpMuxParse, KcpParse, QuicParse, WsParse, WsMuxParse, UdpParse,
      TcpListen, TcpMuxListen, KcpListen, QuicListen, WsListen, WsMuxListen, UdpListen
<1> QED
  BY <1>1, <1>2

LEMMA PortFollows == ASSUME PortInv PROVE PortTypeOK /\ PortsAgree
<1>1. \A i \in 1 .. Len(pspecs) : pspecs[i] \in PEntries
  BY DEF PortInv
<1>2. PortTypeOK
  <2>1. \A y \in pending \cup bound \cup stale : y.entry \in 1 .. Len(pspecs) /\ y.l.port \in 0 .. PMax
    BY <1>1, ListenerPort DEF PortInv, Started
  <2>2. pnext \in 1 .. 3
    <3>1. Len(pspecs) \in Nat /\ Len(pspecs) >= 1 /\ Len(pspecs) <= 2 /\ pnext \in 1 .. Len(pspecs) + 1
      BY DEF PortInv
    <3> QED
      BY <3>1
  <2> QED
    BY <2>1, <2>2 DEF PortInv, PortTypeOK
<1>3. ValidatedStarts
  <2> SUFFICES ASSUME \A i \in DOMAIN pspecs : /\ validPortSpec(pspecs[i]) /\ Len(pspecs[i].rights) <= 1
                                               /\ pspecs[i].left.host # "dash",
                      pfatal = "entry"
               PROVE  FALSE
    BY DEF ValidatedStarts, PortInv
  <2>1. PICK i \in 1 .. Len(pspecs) : Listeners(pspecs[i]) = {}
    BY DEF PortInv
  <2>2. i \in DOMAIN pspecs
    BY DEF PortInv
  <2> QED
    BY <1>1, <2>1, <2>2, ValidListens
<1>4. SyntaxAgrees
  <2> SUFFICES ASSUME NEW y \in bound, validPortSpec(pspecs[y.entry]), Expand(pspecs[y.entry]) # {}
               PROVE  IF OnlyExpanded(pspecs[y.entry])
                      THEN ResolveRemoteAddr(y.l.to) = <<>>
                      ELSE Listener(y.l.host, y.l.port, ResolveRemoteAddr(y.l.to)) \in Expand(pspecs[y.entry])
    BY DEF SyntaxAgrees
  <2>1. pspecs[y.entry] \in PEntries /\ y.l \in Listeners(pspecs[y.entry])
    BY <1>1 DEF PortInv, Started
  <2> QED
    BY <2>1, ReadsAlike, RefusedAlone
<1> QED
  BY <1>2, <1>3, <1>4 DEF PortsAgree

(* The forwarded ports, for every entry and pair of entries: no entry the   *)
(* screens accept ends the engine by how it is written, and what does is a  *)
(* port asked for twice, a host of another machine or a range of the run    *)
(* before; and the client dials no other backend for an entry than the      *)
(* direct and layer-3 tunnels read in it.                                   *)
THEOREM PortsStayInAgreement == PortSpec => []PortsAgree
<1>1. PortInit => PortInv
  BY PortStart
<1>2. PortInv => PortsAgree
  BY PortFollows
<1> QED
  BY <1>1, <1>2, PortStep, PTL DEF PortSpec

-----------------------------------------------------------------------------
(* UdpTransport. *)

(* What is queued, in hand or carried is in that place and in no other.     *)
UQueueOK ==
  /\ Distinct(tunChan) /\ \A t \in UTunnels : utunnels[t].st = "queued" <=> t \in Elems(tunChan)
  /\ Distinct(udpChan) /\ \A f \in UFlows : uflows[f].st = "queued" <=> f \in Elems(udpChan)
UHandOK == \A f \in UFlows : uflows[f].st = "hand" <=> uhand = f

(* Each flow that is carried has a pool connection of its own.              *)
UCopyOK ==
  /\ \A f \in UFlows : /\ uflows[f].st # "free" => uflows[f].peer \in UPeers
                       /\ uflows[f].st = "copied" => /\ uflows[f].tun \in UTunnels
                                                     /\ utunnels[uflows[f].tun].st = "copied"
                       /\ uflows[f].up \/ uflows[f].down => uflows[f].st = "copied"
  /\ \A f, g \in UFlows : uflows[f].st = "copied" /\ uflows[g].st = "copied" /\ uflows[f].tun = uflows[g].tun
                          => f = g

(* The tables name what is there, by the address it came from.              *)
ULocalOK == \A p \in UPeers : ltable[p] # UNone => /\ uflows[ltable[p]].peer = p /\ ~uflows[ltable[p]].old
                                                   /\ uflows[ltable[p]].st # "free"
UTableOK == \A h \in UAddrs : utable[h] # UNone => utunnels[utable[h]].addr = h /\ utunnels[utable[h]].st # "free"
URegOK == \A t \in UTunnels : utunnels[t].st # "free" =>
            /\ utunnels[t].addr \in UAddrs
            /\ ~utunnels[t].old => utable[utunnels[t].addr] = t \/ t \in ustolen

(* handleLoop keeps the lock of a connection it sent a target on.           *)
UPingOK == \A t \in UTunnels : utunnels[t].sent => utunnels[t].mu = "loop"

UdpInv == UdpTypeOK /\ UQueueOK /\ UHandOK /\ UCopyOK /\ ULocalOK /\ UTableOK /\ URegOK /\ UPingOK

LEMMA FreeUdp ==
  /\ FreeTun \in TunType /\ FreeTun.st = "free" /\ ~FreeTun.sent
  /\ FreeFlow \in FlowType /\ FreeFlow.st = "free" /\ ~FreeFlow.up /\ ~FreeFlow.down
<1>1. FreeTun \in TunType /\ FreeTun.st = "free" /\ ~FreeTun.sent
  BY UBoundAssumption DEF FreeTun, TunType
<1>2. FreeFlow \in FlowType /\ FreeFlow.st = "free" /\ ~FreeFlow.up /\ ~FreeFlow.down
  BY UBoundAssumption DEF FreeFlow, FlowType
<1> QED
  BY <1>1, <1>2

LEMMA NoneIsNobody == UNone \notin UAddrs /\ UNone \notin UPeers /\ UNone \notin UTunnels /\ UNone \notin UFlows
BY UNameAssumption DEF UNone

LEMMA OneTun ==
  ASSUME UdpTypeOK, NEW t \in UTunnels, NEW d \in TunType, utunnels' = [utunnels EXCEPT ![t] = d]
  PROVE  /\ utunnels' \in [UTunnels -> TunType] /\ utunnels'[t] = d
         /\ \A s \in UTunnels : s # t => utunnels'[s] = utunnels[s]
BY DEF UdpTypeOK

LEMMA OneFlow ==
  ASSUME UdpTypeOK, NEW f \in UFlows, NEW d \in FlowType, uflows' = [uflows EXCEPT ![f] = d]
  PROVE  /\ uflows' \in [UFlows -> FlowType] /\ uflows'[f] = d
         /\ \A g \in UFlows : g # f => uflows'[g] = uflows[g]
BY DEF UdpTypeOK

LEMMA TableTypes ==
  ASSUME UdpTypeOK
  PROVE  /\ \A h \in UAddrs : utable[h] # UNone => utable[h] \in UTunnels
         /\ \A p \in UPeers : ltable[p] # UNone => ltable[p] \in UFlows
         /\ \A t \in UTunnels : utunnels[t] \in TunType
         /\ \A f \in UFlows : uflows[f] \in FlowType
         /\ Elems(tunChan) \subseteq UTunnels /\ Elems(udpChan) \subseteq UFlows
BY DEF UdpTypeOK, Elems

(* Payloads, locks and copies come and go; what the tables and queues name  *)
(* stays what it is.                                                        *)
LEMMA UdpMarked ==
  ASSUME UdpInv, utunnels' \in [UTunnels -> TunType], uflows' \in [UFlows -> FlowType],
         \A t \in UTunnels : /\ utunnels'[t].st = utunnels[t].st /\ utunnels'[t].addr = utunnels[t].addr
                             /\ (utunnels'[t].old <=> utunnels[t].old)
                             /\ utunnels'[t].sent => utunnels'[t].mu = "loop",
         \A f \in UFlows : /\ uflows'[f].st = uflows[f].st /\ uflows'[f].peer = uflows[f].peer
                           /\ uflows'[f].tun = uflows[f].tun /\ (uflows'[f].old <=> uflows[f].old)
                           /\ (uflows'[f].up \/ uflows'[f].down => uflows[f].up \/ uflows[f].down),
         UNCHANGED <<utable, ltable, tunChan, udpChan, uhand, ustolen>>,
         urun' \in {"up", "stopping"}, ufaults' \in 0 .. UMaxFaults, uruns' \in 0 .. UMaxRuns
  PROVE  UdpInv'
<1>1. UdpTypeOK'
  BY DEF UdpInv, UdpTypeOK
<1>2. UQueueOK'
  BY DEF UdpInv, UQueueOK
<1>3. UHandOK' /\ UPingOK'
  BY DEF UdpInv, UHandOK, UPingOK
<1>4. UCopyOK'
  BY DEF UdpInv, UCopyOK
<1>5. ULocalOK' /\ UTableOK' /\ URegOK'
  BY TableTypes DEF UdpInv, ULocalOK, UTableOK, URegOK
<1> QED
  BY <1>1, <1>2, <1>3, <1>4, <1>5 DEF UdpInv

(* The same, of one pool connection that becomes d ...                      *)
LEMMA TunMarked ==
  ASSUME UdpInv, NEW t \in UTunnels, NEW d \in TunType, utunnels' = [utunnels EXCEPT ![t] = d],
         d.st = utunnels[t].st, d.addr = utunnels[t].addr, d.old = utunnels[t].old, d.sent => d.mu = "loop",
         UNCHANGED <<utable, ltable, uflows, tunChan, udpChan, uhand, uself>>
  PROVE  UdpInv'
<1>1. /\ utunnels' \in [UTunnels -> TunType] /\ utunnels'[t] = d
      /\ \A s \in UTunnels : s # t => utunnels'[s] = utunnels[s]
  BY OneTun DEF UdpInv
<1>2. \A s \in UTunnels : /\ utunnels'[s].st = utunnels[s].st /\ utunnels'[s].addr = utunnels[s].addr
                          /\ (utunnels'[s].old <=> utunnels[s].old)
                          /\ utunnels'[s].sent => utunnels'[s].mu = "loop"
  BY <1>1 DEF UdpInv, UPingOK
<1>3. /\ uflows' = uflows /\ uflows' \in [UFlows -> FlowType]
      /\ urun' \in {"up", "stopping"} /\ ufaults' \in 0 .. UMaxFaults /\ uruns' \in 0 .. UMaxRuns /\ ustolen' = ustolen
  BY DEF UdpInv, UdpTypeOK, uself
<1> QED
  BY <1>1, <1>2, <1>3, UdpMarked

(* ... or of one flow.                                                      *)
LEMMA FlowMarked ==
  ASSUME UdpInv, NEW f \in UFlows, NEW d \in FlowType, uflows' = [uflows EXCEPT ![f] = d],
         d.st = uflows[f].st, d.peer = uflows[f].peer, d.old = uflows[f].old, d.tun = uflows[f].tun,
         d.up => uflows[f].up, d.down => uflows[f].down,
         UNCHANGED <<urun, utable, ltable, utunnels, tunChan, udpChan, uhand, uruns, ustolen>>,
         ufaults' \in 0 .. UMaxFaults
  PROVE  UdpInv'
<1>1. /\ uflows' \in [UFlows -> FlowType] /\ uflows'[f] = d
      /\ \A g \in UFlows : g # f => uflows'[g] = uflows[g]
  BY OneFlow DEF UdpInv
<1>2. \A g \in UFlows : /\ uflows'[g].st = uflows[g].st /\ uflows'[g].peer = uflows[g].peer
                        /\ uflows'[g].tun = uflows[g].tun /\ (uflows'[g].old <=> uflows[g].old)
                        /\ (uflows'[g].up \/ uflows'[g].down => uflows[g].up \/ uflows[g].down)
  BY <1>1
<1>3. /\ utunnels' = utunnels /\ utunnels' \in [UTunnels -> TunType] /\ uruns' \in 0 .. UMaxRuns
      /\ urun' \in {"up", "stopping"} /\ \A s \in UTunnels : utunnels'[s].sent => utunnels'[s].mu = "loop"
  BY DEF UdpInv, UdpTypeOK, UPingOK
<1> QED
  BY <1>1, <1>2, <1>3, UdpMarked

LEMMA TunnelPayloadKeeps == ASSUME UdpInv, NEW h \in UAddrs, TunnelPayload(h) PROVE UdpInv'
<1>1. PICK t \in UTunnels : t = utable[h]
  BY TableTypes DEF TunnelPayload, UdpInv
<1> DEFINE d == Buffered(utunnels[t])
<1>2. utunnels[t] \in TunType
  BY TableTypes DEF UdpInv
<1>3. /\ d \in TunType /\ d.st = utunnels[t].st /\ d.addr = utunnels[t].addr /\ d.old = utunnels[t].old
      /\ d.sent = utunnels[t].sent /\ d.mu = utunnels[t].mu
  BY <1>2, UBoundAssumption DEF Buffered, TunType
<1>4. /\ utunnels' = [utunnels EXCEPT ![t] = d]
      /\ UNCHANGED <<utable, ltable, uflows, tunChan, udpChan, uhand, uself>>
  BY <1>1 DEF TunnelPayload
<1> HIDE DEF d
<1>5. d.sent => d.mu = "loop"
  BY <1>3 DEF UdpInv, UPingOK
<1> QED
  BY <1>3, <1>4, <1>5, TunMarked

LEMMA LocalPayloadKeeps == ASSUME UdpInv, NEW p \in UPeers, LocalPayload(p) PROVE UdpInv'
<1>1. PICK f \in UFlows : f = ltable[p]
  BY TableTypes DEF LocalPayload, UdpInv
<1> DEFINE d == Buffered(uflows[f])
<1>2. uflows[f] \in FlowType
  BY TableTypes DEF UdpInv
<1>3. /\ d \in FlowType /\ d.st = uflows[f].st /\ d.peer = uflows[f].peer /\ d.old = uflows[f].old
      /\ d.tun = uflows[f].tun /\ d.up = uflows[f].up /\ d.down = uflows[f].down
  BY <1>2, UBoundAssumption DEF Buffered, FlowType
<1>4. /\ uflows' = [uflows EXCEPT ![f] = d]
      /\ UNCHANGED <<utable, ltable, utunnels, tunChan, udpChan, uhand, uself>>
  BY <1>1 DEF LocalPayload
<1> HIDE DEF d
<1>5. ufaults' \in 0 .. UMaxFaults /\ UNCHANGED <<urun, uruns, ustolen>>
  BY <1>4 DEF UdpInv, UdpTypeOK, uself
<1> QED
  BY <1>3, <1>4, <1>5, FlowMarked

LEMMA PingKeeps == ASSUME UdpInv, NEW t \in UTunnels, PingLocks(t) \/ PingSent(t) \/ PingStops(t) PROVE UdpInv'
<1> DEFINE d(mu) == [utunnels[t] EXCEPT !.mu = mu]
           e     == [utunnels[t] EXCEPT !.pinging = FALSE]
<1>1. utunnels[t] \in TunType
  BY TableTypes DEF UdpInv
<1>2. ASSUME NEW mu \in {"ping", "free"}
      PROVE  /\ d(mu) \in TunType /\ d(mu).st = utunnels[t].st /\ d(mu).addr = utunnels[t].addr
             /\ d(mu).old = utunnels[t].old /\ d(mu).sent = utunnels[t].sent
  BY <1>1 DEF TunType
<1>3. /\ e \in TunType /\ e.st = utunnels[t].st /\ e.addr = utunnels[t].addr
      /\ e.old = utunnels[t].old /\ e.sent = utunnels[t].sent /\ e.mu = utunnels[t].mu
  BY <1>1 DEF TunType
<1>4. /\ \/ utunnels[t].mu # "loop" /\ \E mu \in {"ping", "free"} : utunnels' = [utunnels EXCEPT ![t] = d(mu)]
         \/ utunnels' = [utunnels EXCEPT ![t] = e]
      /\ UNCHANGED <<utable, ltable, uflows, tunChan, udpChan, uhand, uself>>
  BY DEF PingLocks, PingSent, PingStops
<1> HIDE DEF d, e
<1>5. utunnels[t].sent => utunnels[t].mu = "loop"
  BY DEF UdpInv, UPingOK
<1>6. CASE utunnels[t].mu # "loop" /\ \E mu \in {"ping", "free"} : utunnels' = [utunnels EXCEPT ![t] = d(mu)]
  BY <1>2, <1>4, <1>5, <1>6, TunMarked
<1>7. CASE utunnels' = [utunnels EXCEPT ![t] = e]
  BY <1>3, <1>4, <1>5, <1>7, TunMarked
<1> QED
  BY <1>4, <1>6, <1>7

LEMMA udpLocalCopyKeeps == ASSUME UdpInv, NEW f \in UFlows, udpLocalCopy(f) PROVE UdpInv'
<1>1. uflows[f] \in FlowType
  BY TableTypes DEF UdpInv
<1>2. uflows[f].pay \in 0 .. UPayload /\ UPayload \in Nat
  BY <1>1, UBoundAssumption DEF FlowType
<1>21. PICK n \in 0 .. UPayload : n = IF uflows[f].pay > 0 THEN uflows[f].pay - 1 ELSE uflows[f].pay
  BY <1>2
<1>22. PICK m \in BOOLEAN : m = (uflows[f].pay > 0)
  <2>1. (uflows[f].pay > 0) = TRUE \/ (uflows[f].pay > 0) = FALSE
    OBVIOUS
  <2> QED
    BY <2>1, Zenon
<1> DEFINE d == [uflows[f] EXCEPT !.pay = n, !.up = m]
<1>3. /\ d \in FlowType /\ d.st = uflows[f].st /\ d.peer = uflows[f].peer /\ d.old = uflows[f].old
      /\ d.tun = uflows[f].tun /\ d.down = uflows[f].down
  BY <1>1 DEF FlowType
<1>4. /\ uflows[f].up /\ uflows' = [uflows EXCEPT ![f] = d]
      /\ UNCHANGED <<utable, ltable, utunnels, tunChan, udpChan, uhand, uself>>
  BY <1>21, <1>22 DEF udpLocalCopy
<1> HIDE DEF d
<1>5. ufaults' \in 0 .. UMaxFaults /\ UNCHANGED <<urun, uruns, ustolen>>
  BY <1>4 DEF UdpInv, UdpTypeOK, uself
<1> QED
  BY <1>3, <1>4, <1>5, FlowMarked

LEMMA CopyFailsKeeps ==
  ASSUME UdpInv, NEW f \in UFlows, NEW dir \in {"up", "down"}, CopyFails(f, dir) PROVE UdpInv'
<1> DEFINE d == [uflows[f] EXCEPT !.up = @ /\ dir # "up", !.down = @ /\ dir # "down"]
<1>1. uflows[f] \in FlowType
  BY TableTypes DEF UdpInv
<1>2. /\ d \in FlowType /\ d.st = uflows[f].st /\ d.peer = uflows[f].peer /\ d.old = uflows[f].old
      /\ d.tun = uflows[f].tun /\ (d.up => uflows[f].up) /\ (d.down => uflows[f].down)
  BY <1>1 DEF FlowType
<1>3. /\ uflows' = [uflows EXCEPT ![f] = d]
      /\ UNCHANGED <<urun, utable, ltable, utunnels, tunChan, udpChan, uhand, uruns, ustolen>>
      /\ ufaults' = ufaults \/ (ufaults < UMaxFaults /\ ufaults' = ufaults + 1)
  BY DEF CopyFails
<1> HIDE DEF d
<1>4. ufaults' \in 0 .. UMaxFaults
  BY <1>3, UBoundAssumption DEF UdpInv, UdpTypeOK
<1> QED
  BY <1>2, <1>3, <1>4, FlowMarked

LEMMA udpTunnelCopyKeeps == ASSUME UdpInv, NEW f \in UFlows, udpTunnelCopy(f) PROVE UdpInv'
<1>1. PICK t \in UTunnels : t = uflows[f].tun
  BY DEF UdpInv, UCopyOK, udpTunnelCopy
<1>0. PICK m \in BOOLEAN : m = (utunnels[t].pay > 0)
  <2>1. (utunnels[t].pay > 0) = TRUE \/ (utunnels[t].pay > 0) = FALSE
    OBVIOUS
  <2> QED
    BY <2>1, Zenon
<1> DEFINE d == [uflows[f] EXCEPT !.down = m]
           e == [utunnels[t] EXCEPT !.pay = IF @ > 0 THEN @ - 1 ELSE @]
<1>2. uflows[f] \in FlowType /\ utunnels[t] \in TunType
  BY TableTypes DEF UdpInv
<1>3. utunnels[t].pay \in 0 .. UPayload /\ UPayload \in Nat
  BY <1>2, UBoundAssumption DEF TunType
<1>4. /\ d \in FlowType /\ d.st = uflows[f].st /\ d.peer = uflows[f].peer /\ d.old = uflows[f].old
      /\ d.tun = uflows[f].tun /\ d.up = uflows[f].up
  BY <1>2 DEF FlowType
<1>5. /\ e \in TunType /\ e.st = utunnels[t].st /\ e.addr = utunnels[t].addr /\ e.old = utunnels[t].old
      /\ e.sent = utunnels[t].sent /\ e.mu = utunnels[t].mu
  BY <1>2, <1>3 DEF TunType
<1>6. /\ uflows[f].down /\ uflows' = [uflows EXCEPT ![f] = d] /\ utunnels' = [utunnels EXCEPT ![t] = e]
      /\ UNCHANGED <<utable, ltable, tunChan, udpChan, uhand, uself>>
  BY <1>0, <1>1 DEF udpTunnelCopy
<1> HIDE DEF d, e
<1>7. /\ uflows' \in [UFlows -> FlowType] /\ uflows'[f] = d
      /\ \A g \in UFlows : g # f => uflows'[g] = uflows[g]
  BY <1>4, <1>6, OneFlow DEF UdpInv
<1>8. /\ utunnels' \in [UTunnels -> TunType] /\ utunnels'[t] = e
      /\ \A s \in UTunnels : s # t => utunnels'[s] = utunnels[s]
  BY <1>5, <1>6, OneTun DEF UdpInv
<1>9. \A s \in UTunnels : /\ utunnels'[s].st = utunnels[s].st /\ utunnels'[s].addr = utunnels[s].addr
                          /\ (utunnels'[s].old <=> utunnels[s].old)
                          /\ utunnels'[s].sent => utunnels'[s].mu = "loop"
  BY <1>5, <1>8 DEF UdpInv, UPingOK
<1>10. \A g \in UFlows : /\ uflows'[g].st = uflows[g].st /\ uflows'[g].peer = uflows[g].peer
                         /\ uflows'[g].tun = uflows[g].tun /\ (uflows'[g].old <=> uflows[g].old)
                         /\ (uflows'[g].up \/ uflows'[g].down => uflows[g].up \/ uflows[g].down)
  BY <1>4, <1>6, <1>7
<1>11. /\ urun' \in {"up", "stopping"} /\ ufaults' \in 0 .. UMaxFaults /\ uruns' \in 0 .. UMaxRuns
       /\ ustolen' = ustolen
  BY <1>6 DEF UdpInv, UdpTypeOK, uself
<1> QED
  BY <1>6, <1>7, <1>8, <1>9, <1>10, <1>11, UdpMarked

LEMMA UdpStopKeeps == ASSUME UdpInv, UdpStop PROVE UdpInv'
<1>1. /\ uruns < UMaxRuns /\ urun' = "stopping" /\ uruns' = uruns + 1
      /\ UNCHANGED <<utable, ltable, utunnels, uflows, tunChan, udpChan, uhand, ufaults, ustolen>>
  BY DEF UdpStop
<1>2. /\ utunnels' \in [UTunnels -> TunType] /\ uflows' \in [UFlows -> FlowType]
      /\ ufaults' \in 0 .. UMaxFaults /\ uruns' \in 0 .. UMaxRuns
  BY <1>1, UBoundAssumption DEF UdpInv, UdpTypeOK
<1>3. \A s \in UTunnels : utunnels'[s].sent => utunnels'[s].mu = "loop"
  BY <1>1 DEF UdpInv, UPingOK
<1> QED
  BY <1>1, <1>2, <1>3, UdpMarked

LEMMA UdpStutterKeeps == ASSUME UdpInv, UNCHANGED uvars PROVE UdpInv'
<1>1. UNCHANGED <<urun, utable, ltable, utunnels, uflows, tunChan, udpChan, uhand, ufaults, uruns, ustolen>>
  BY DEF uvars
<1>2. /\ utunnels' \in [UTunnels -> TunType] /\ uflows' \in [UFlows -> FlowType] /\ urun' \in {"up", "stopping"}
      /\ ufaults' \in 0 .. UMaxFaults /\ uruns' \in 0 .. UMaxRuns
  BY <1>1 DEF UdpInv, UdpTypeOK
<1>3. \A s \in UTunnels : utunnels'[s].sent => utunnels'[s].mu = "loop"
  BY <1>1 DEF UdpInv, UPingOK
<1> QED
  BY <1>1, <1>2, <1>3, UdpMarked

(* A connection and a flow as their first datagram leaves them.             *)
LEMMA QueuedTypes ==
  /\ \A h \in UAddrs : /\ QueuedTun(h) \in TunType /\ QueuedTun(h).st = "queued" /\ QueuedTun(h).addr = h
                       /\ ~QueuedTun(h).sent /\ ~QueuedTun(h).old
  /\ \A p \in UPeers : /\ QueuedFlow(p) \in FlowType /\ QueuedFlow(p).st = "queued" /\ QueuedFlow(p).peer = p
                       /\ ~QueuedFlow(p).old /\ ~QueuedFlow(p).up /\ ~QueuedFlow(p).down
<1>1. ASSUME NEW h \in UAddrs
      PROVE  /\ QueuedTun(h) \in TunType /\ QueuedTun(h).st = "queued" /\ QueuedTun(h).addr = h
             /\ ~QueuedTun(h).sent /\ ~QueuedTun(h).old
  BY UBoundAssumption DEF QueuedTun, TunType
<1>2. ASSUME NEW p \in UPeers
      PROVE  /\ QueuedFlow(p) \in FlowType /\ QueuedFlow(p).st = "queued" /\ QueuedFlow(p).peer = p
             /\ ~QueuedFlow(p).old /\ ~QueuedFlow(p).up /\ ~QueuedFlow(p).down
  BY UBoundAssumption DEF QueuedFlow, FlowType
<1> QED
  BY <1>1, <1>2

LEMMA TunnelTokenKeeps == ASSUME UdpInv, NEW h \in UAddrs, NEW t \in UTunnels, TunnelToken(h, t) PROVE UdpInv'
<1>1. /\ utable[h] = UNone /\ utunnels[t].st = "free" /\ Len(tunChan) < UChannel
      /\ utable' = [utable EXCEPT ![h] = t] /\ tunChan' = Append(tunChan, t)
      /\ utunnels' = [utunnels EXCEPT ![t] = QueuedTun(h)]
      /\ UNCHANGED <<ltable, uflows, udpChan, uhand, urun, ufaults, uruns, ustolen>>
  BY DEF TunnelToken, uself
<1>2. t \notin Elems(tunChan) /\ tunChan \in Seq(UTunnels) /\ Distinct(tunChan)
  BY <1>1 DEF UdpInv, UQueueOK, UdpTypeOK
<1>3. PICK d \in TunType : /\ d = QueuedTun(h) /\ d.st = "queued" /\ d.addr = h /\ ~d.sent /\ ~d.old
  BY QueuedTypes
<1>4. /\ utunnels' \in [UTunnels -> TunType] /\ utunnels'[t] = d
      /\ \A s \in UTunnels : s # t => utunnels'[s] = utunnels[s]
  BY <1>1, <1>3, OneTun DEF UdpInv
<1>5. /\ tunChan' \in Seq(UTunnels) /\ Len(tunChan') = Len(tunChan) + 1 /\ Distinct(tunChan')
      /\ Elems(tunChan') = Elems(tunChan) \cup {t}
  BY <1>1, <1>2, Appended
<1>6. utable' \in [UAddrs -> UTunnels \cup {UNone}] /\ utable'[h] = t /\ \A k \in UAddrs : k # h => utable'[k] = utable[k]
  BY <1>1 DEF UdpInv, UdpTypeOK
<1>7. UdpTypeOK'
  <2>1. Len(tunChan') <= UChannel
    BY <1>1, <1>2, <1>5, UBoundAssumption
  <2> QED
    BY <1>1, <1>4, <1>5, <1>6, <2>1 DEF UdpInv, UdpTypeOK
<1>8. UQueueOK'
  BY <1>1, <1>3, <1>4, <1>5 DEF UdpInv, UQueueOK
<1>9. UHandOK' /\ UPingOK' /\ ULocalOK'
  BY <1>1, <1>3, <1>4 DEF UdpInv, UHandOK, UPingOK, ULocalOK
<1>10. UCopyOK'
  BY <1>1, <1>4 DEF UdpInv, UCopyOK
<1>11. UTableOK'
  BY <1>1, <1>3, <1>4, <1>6, TableTypes DEF UdpInv, UTableOK
<1>12. URegOK'
  BY <1>1, <1>3, <1>4, <1>6, NoneIsNobody DEF UdpInv, URegOK
<1> QED
  BY <1>7, <1>8, <1>9, <1>10, <1>11, <1>12 DEF UdpInv

LEMMA LocalOpensKeeps == ASSUME UdpInv, NEW p \in UPeers, NEW f \in UFlows, LocalOpens(p, f) PROVE UdpInv'
<1>1. /\ ltable[p] = UNone /\ uflows[f].st = "free" /\ Len(udpChan) < UChannel
      /\ ltable' = [ltable EXCEPT ![p] = f] /\ udpChan' = Append(udpChan, f)
      /\ uflows' = [uflows EXCEPT ![f] = QueuedFlow(p)]
      /\ UNCHANGED <<utable, utunnels, tunChan, uhand, urun, ufaults, uruns, ustolen>>
  BY DEF LocalOpens, uself
<1>2. f \notin Elems(udpChan) /\ udpChan \in Seq(UFlows) /\ Distinct(udpChan)
  BY <1>1 DEF UdpInv, UQueueOK, UdpTypeOK
<1>3. PICK d \in FlowType : d = QueuedFlow(p) /\ d.st = "queued" /\ d.peer = p /\ ~d.old /\ ~d.up /\ ~d.down
  BY QueuedTypes
<1>4. /\ uflows' \in [UFlows -> FlowType] /\ uflows'[f] = d
      /\ \A g \in UFlows : g # f => uflows'[g] = uflows[g]
  BY <1>1, <1>3, OneFlow DEF UdpInv
<1>5. /\ udpChan' \in Seq(UFlows) /\ Len(udpChan') = Len(udpChan) + 1 /\ Distinct(udpChan')
      /\ Elems(udpChan') = Elems(udpChan) \cup {f}
  BY <1>1, <1>2, Appended
<1>6. ltable' \in [UPeers -> UFlows \cup {UNone}] /\ ltable'[p] = f /\ \A q \in UPeers : q # p => ltable'[q] = ltable[q]
  BY <1>1 DEF UdpInv, UdpTypeOK
<1>7. UdpTypeOK'
  <2>1. Len(udpChan') <= UChannel
    BY <1>1, <1>2, <1>5, UBoundAssumption
  <2> QED
    BY <1>1, <1>4, <1>5, <1>6, <2>1 DEF UdpInv, UdpTypeOK
<1>8. UQueueOK'
  BY <1>1, <1>3, <1>4, <1>5 DEF UdpInv, UQueueOK
<1>9. UHandOK'
  BY <1>1, <1>3, <1>4 DEF UdpInv, UHandOK
<1>10. UCopyOK'
  BY <1>1, <1>3, <1>4 DEF UdpInv, UCopyOK
<1>11. ULocalOK'
  BY <1>1, <1>3, <1>4, <1>6, TableTypes DEF UdpInv, ULocalOK
<1>12. UTableOK' /\ URegOK' /\ UPingOK'
  BY <1>1 DEF UdpInv, UTableOK, URegOK, UPingOK
<1> QED
  BY <1>7, <1>8, <1>9, <1>10, <1>11, <1>12 DEF UdpInv

(* Forgotten takes out this flow's entry, and no other.                     *)
LEMMA ForgottenRight ==
  ASSUME UdpInv, NEW f \in UFlows, uflows[f].st # "free"
  PROVE  /\ Forgotten(f) \in [UPeers -> UFlows \cup {UNone}]
         /\ \A q \in UPeers : Forgotten(f)[q] # f /\ (Forgotten(f)[q] # UNone => Forgotten(f)[q] = ltable[q])
<1>1. PICK p \in UPeers : p = uflows[f].peer
  BY DEF UdpInv, UCopyOK
<1>2. ltable \in [UPeers -> UFlows \cup {UNone}] /\ \A q \in UPeers : ltable[q] = f => q = p
  BY <1>1, NoneIsNobody DEF UdpInv, UdpTypeOK, ULocalOK
<1>3. Forgotten(f) = [ltable EXCEPT ![p] = IF ltable[p] = f THEN UNone ELSE ltable[p]]
  BY <1>1 DEF Forgotten
<1>4. \A q \in UPeers : Forgotten(f)[q] = IF q = p /\ ltable[p] = f THEN UNone ELSE ltable[q]
  BY <1>2, <1>3
<1>5. Forgotten(f) \in [UPeers -> UFlows \cup {UNone}]
  BY <1>2, <1>3
<1> QED
  BY <1>2, <1>4, <1>5, NoneIsNobody

LEMMA FlowExpiresKeeps == ASSUME UdpInv, FlowExpires PROVE UdpInv'
<1>1. udpChan \in Seq(UFlows) /\ Distinct(udpChan) /\ udpChan # <<>>
  BY DEF UdpInv, UdpTypeOK, UQueueOK, FlowExpires
<1>2. PICK f \in UFlows : f = Head(udpChan) /\ f \in Elems(udpChan)
  BY <1>1, Tailed
<1>3. /\ ltable' = Forgotten(f) /\ uflows' = [uflows EXCEPT ![f] = FreeFlow] /\ udpChan' = Tail(udpChan)
      /\ UNCHANGED <<utable, utunnels, tunChan, uhand, urun, ufaults, uruns, ustolen>>
  BY <1>2 DEF FlowExpires, uself
<1>4. /\ udpChan' \in Seq(UFlows) /\ Len(udpChan') = Len(udpChan) - 1 /\ Distinct(udpChan')
      /\ Elems(udpChan') = Elems(udpChan) \ {f}
  BY <1>1, <1>2, <1>3, Tailed
<1>5. uflows[f].st = "queued"
  BY <1>2 DEF UdpInv, UQueueOK
<1>6. PICK d \in FlowType : d = FreeFlow /\ d.st = "free" /\ ~d.up /\ ~d.down
  BY FreeUdp
<1>7. /\ uflows' \in [UFlows -> FlowType] /\ uflows'[f] = d
      /\ \A g \in UFlows : g # f => uflows'[g] = uflows[g]
  BY <1>3, <1>6, OneFlow DEF UdpInv
<1>8. /\ ltable' \in [UPeers -> UFlows \cup {UNone}]
      /\ \A q \in UPeers : ltable'[q] # f /\ (ltable'[q] # UNone => ltable'[q] = ltable[q])
  BY <1>3, <1>5, ForgottenRight
<1>9. UdpTypeOK'
  <2>1. Len(udpChan') <= UChannel
    BY <1>1, <1>4, UBoundAssumption DEF UdpInv, UdpTypeOK
  <2> QED
    BY <1>3, <1>4, <1>7, <1>8, <2>1 DEF UdpInv, UdpTypeOK
<1>10. UQueueOK'
  BY <1>3, <1>4, <1>6, <1>7 DEF UdpInv, UQueueOK
<1>11. UHandOK'
  BY <1>3, <1>5, <1>6, <1>7 DEF UdpInv, UHandOK
<1>12. UCopyOK'
  BY <1>3, <1>6, <1>7 DEF UdpInv, UCopyOK
<1>13. ULocalOK'
  BY <1>7, <1>8, TableTypes DEF UdpInv, ULocalOK
<1>14. UTableOK' /\ URegOK' /\ UPingOK'
  BY <1>3 DEF UdpInv, UTableOK, URegOK, UPingOK
<1> QED
  BY <1>9, <1>10, <1>11, <1>12, <1>13, <1>14 DEF UdpInv

LEMMA FlowTakenKeeps == ASSUME UdpInv, FlowTaken PROVE UdpInv'
<1>1. udpChan \in Seq(UFlows) /\ Distinct(udpChan) /\ udpChan # <<>>
  BY DEF UdpInv, UdpTypeOK, UQueueOK, FlowTaken
<1>2. PICK f \in UFlows : f = Head(udpChan) /\ f \in Elems(udpChan)
  BY <1>1, Tailed
<1> DEFINE d == [uflows[f] EXCEPT !.st = "hand"]
<1>3. /\ uhand = UNone /\ uhand' = f /\ uflows' = [uflows EXCEPT ![f] = d] /\ udpChan' = Tail(udpChan)
      /\ UNCHANGED <<utable, ltable, utunnels, tunChan, urun, ufaults, uruns, ustolen>>
  BY <1>2 DEF FlowTaken, uself
<1>4. /\ udpChan' \in Seq(UFlows) /\ Len(udpChan') = Len(udpChan) - 1 /\ Distinct(udpChan')
      /\ Elems(udpChan') = Elems(udpChan) \ {f}
  BY <1>1, <1>2, <1>3, Tailed
<1>5. uflows[f].st = "queued"
  BY <1>2 DEF UdpInv, UQueueOK
<1>6. /\ d \in FlowType /\ d.st = "hand" /\ d.peer = uflows[f].peer /\ d.old = uflows[f].old
      /\ d.up = uflows[f].up /\ d.down = uflows[f].down
  <2>1. uflows[f] \in FlowType
    BY TableTypes DEF UdpInv
  <2> QED
    BY <2>1 DEF FlowType
<1> HIDE DEF d
<1>7. /\ uflows' \in [UFlows -> FlowType] /\ uflows'[f] = d
      /\ \A g \in UFlows : g # f => uflows'[g] = uflows[g]
  BY <1>3, <1>6, OneFlow DEF UdpInv
<1>8. ~d.up /\ ~d.down /\ d.peer \in UPeers
  BY <1>5, <1>6 DEF UdpInv, UCopyOK
<1>9. UdpTypeOK'
  <2>1. Len(udpChan') <= UChannel
    BY <1>1, <1>4, UBoundAssumption DEF UdpInv, UdpTypeOK
  <2> QED
    BY <1>3, <1>4, <1>7, <2>1 DEF UdpInv, UdpTypeOK
<1>10. UQueueOK'
  BY <1>3, <1>4, <1>6, <1>7 DEF UdpInv, UQueueOK
<1>11. UHandOK'
  BY <1>3, <1>6, <1>7, NoneIsNobody DEF UdpInv, UHandOK
<1>12. UCopyOK'
  BY <1>3, <1>6, <1>7, <1>8 DEF UdpInv, UCopyOK
<1>13. ULocalOK'
  BY <1>3, <1>6, <1>7, TableTypes DEF UdpInv, ULocalOK
<1>14. UTableOK' /\ URegOK' /\ UPingOK'
  BY <1>3 DEF UdpInv, UTableOK, URegOK, UPingOK
<1> QED
  BY <1>9, <1>10, <1>11, <1>12, <1>13, <1>14 DEF UdpInv

(* The connection at the head of tunnelChannel leaves it: it is carried or  *)
(* left behind, still registered, and its lock is kept.                     *)
LEMMA HeadTun ==
  ASSUME UdpInv, tunChan # <<>>
  PROVE  /\ Head(tunChan) \in UTunnels /\ utunnels[Head(tunChan)].st = "queued"
         /\ Tail(tunChan) \in Seq(UTunnels) /\ Len(Tail(tunChan)) <= UChannel
         /\ Distinct(Tail(tunChan)) /\ Elems(Tail(tunChan)) = Elems(tunChan) \ {Head(tunChan)}
<1>1. tunChan \in Seq(UTunnels) /\ Distinct(tunChan) /\ Len(tunChan) <= UChannel /\ UChannel \in Nat
  BY UBoundAssumption DEF UdpInv, UdpTypeOK, UQueueOK
<1>2. /\ Tail(tunChan) \in Seq(UTunnels) /\ Len(Tail(tunChan)) = Len(tunChan) - 1
      /\ Distinct(Tail(tunChan)) /\ Elems(Tail(tunChan)) = Elems(tunChan) \ {Head(tunChan)}
      /\ Head(tunChan) \in UTunnels /\ Head(tunChan) \in Elems(tunChan)
  BY <1>1, Tailed
<1>3. Len(Tail(tunChan)) <= UChannel
  BY <1>1, <1>2
<1> QED
  BY <1>2, <1>3 DEF UdpInv, UQueueOK

LEMMA FlowPairedKeeps == ASSUME UdpInv, FlowPaired PROVE UdpInv'
<1>1. tunChan # <<>> /\ uhand # UNone
  BY DEF FlowPaired
<1>2. PICK t \in UTunnels : t = Head(tunChan) /\ utunnels[t].st = "queued"
  BY <1>1, HeadTun
<1>3. PICK f \in UFlows : f = uhand /\ uflows[f].st = "hand"
  BY <1>1 DEF UdpInv, UdpTypeOK, UHandOK
<1> DEFINE d == [utunnels[t] EXCEPT !.st = "copied", !.mu = "loop", !.sent = TRUE]
           e == [uflows[f] EXCEPT !.st = "copied", !.tun = t, !.up = TRUE, !.down = TRUE]
<1>4. /\ utunnels' = [utunnels EXCEPT ![t] = d] /\ uflows' = [uflows EXCEPT ![f] = e]
      /\ tunChan' = Tail(tunChan) /\ uhand' = UNone
      /\ UNCHANGED <<utable, ltable, udpChan, urun, ufaults, uruns, ustolen>>
  BY <1>2, <1>3 DEF FlowPaired, TakesLock, uself
<1>5. utunnels[t] \in TunType /\ uflows[f] \in FlowType
  BY TableTypes DEF UdpInv
<1>6. /\ d \in TunType /\ d.st = "copied" /\ d.mu = "loop" /\ d.addr = utunnels[t].addr /\ d.old = utunnels[t].old
  BY <1>5 DEF TunType
<1>7. e \in FlowType /\ e.st = "copied" /\ e.tun = t /\ e.peer = uflows[f].peer /\ e.old = uflows[f].old
  BY <1>5 DEF FlowType
<1> HIDE DEF d, e
<1>8. /\ utunnels' \in [UTunnels -> TunType] /\ utunnels'[t] = d
      /\ \A s \in UTunnels : s # t => utunnels'[s] = utunnels[s]
  BY <1>4, <1>6, OneTun DEF UdpInv
<1>9. /\ uflows' \in [UFlows -> FlowType] /\ uflows'[f] = e
      /\ \A g \in UFlows : g # f => uflows'[g] = uflows[g]
  BY <1>4, <1>7, OneFlow DEF UdpInv
<1>10. /\ tunChan' \in Seq(UTunnels) /\ Len(tunChan') <= UChannel /\ Distinct(tunChan')
       /\ Elems(tunChan') = Elems(tunChan) \ {t}
  BY <1>1, <1>2, <1>4, HeadTun
<1>11. UdpTypeOK'
  BY <1>4, <1>8, <1>9, <1>10 DEF UdpInv, UdpTypeOK
<1>12. UQueueOK'
  BY <1>3, <1>4, <1>6, <1>7, <1>8, <1>9, <1>10 DEF UdpInv, UQueueOK
<1>13. UHandOK'
  BY <1>3, <1>4, <1>7, <1>9, NoneIsNobody DEF UdpInv, UHandOK
<1>14. UCopyOK'
  <2>1. e.peer \in UPeers /\ \A g \in UFlows : g # f /\ uflows[g].st = "copied" => uflows[g].tun # t
    BY <1>2, <1>3, <1>7 DEF UdpInv, UCopyOK
  <2>2. \A g \in UFlows : /\ uflows'[g].st # "free" => uflows'[g].peer \in UPeers
                          /\ uflows'[g].st = "copied" => /\ uflows'[g].tun \in UTunnels
                                                         /\ utunnels'[uflows'[g].tun].st = "copied"
                          /\ uflows'[g].up \/ uflows'[g].down => uflows'[g].st = "copied"
    BY <1>6, <1>7, <1>8, <1>9, <2>1 DEF UdpInv, UCopyOK
  <2>3. \A g, k \in UFlows : uflows'[g].st = "copied" /\ uflows'[k].st = "copied" /\ uflows'[g].tun = uflows'[k].tun
                             => g = k
    BY <1>7, <1>9, <2>1 DEF UdpInv, UCopyOK
  <2> QED
    BY <2>2, <2>3 DEF UCopyOK
<1>15. ULocalOK'
  BY <1>4, <1>7, <1>9, TableTypes DEF UdpInv, ULocalOK
<1>16. UTableOK' /\ URegOK'
  BY <1>2, <1>4, <1>6, <1>8, TableTypes DEF UdpInv, UTableOK, URegOK
<1>17. UPingOK'
  BY <1>6, <1>8 DEF UdpInv, UPingOK
<1> QED
  BY <1>11, <1>12, <1>13, <1>14, <1>15, <1>16, <1>17 DEF UdpInv

LEMMA TargetNotSentKeeps == ASSUME UdpInv, TargetNotSent PROVE UdpInv'
<1>1. tunChan # <<>> /\ ufaults < UMaxFaults /\ ufaults' = ufaults + 1
  BY DEF TargetNotSent
<1>2. PICK t \in UTunnels : t = Head(tunChan) /\ utunnels[t].st = "queued"
  BY <1>1, HeadTun
<1> DEFINE d == [utunnels[t] EXCEPT !.st = "orphan", !.mu = "loop"]
<1>3. /\ utunnels' = [utunnels EXCEPT ![t] = d] /\ tunChan' = Tail(tunChan)
      /\ UNCHANGED <<urun, utable, ltable, uflows, udpChan, uhand, uruns, ustolen>>
  BY <1>2 DEF TargetNotSent
<1>4. /\ d \in TunType /\ d.st = "orphan" /\ d.mu = "loop" /\ d.addr = utunnels[t].addr /\ d.old = utunnels[t].old
  <2>1. utunnels[t] \in TunType
    BY TableTypes DEF UdpInv
  <2> QED
    BY <2>1 DEF TunType
<1> HIDE DEF d
<1>5. /\ utunnels' \in [UTunnels -> TunType] /\ utunnels'[t] = d
      /\ \A s \in UTunnels : s # t => utunnels'[s] = utunnels[s]
  BY <1>3, <1>4, OneTun DEF UdpInv
<1>6. /\ tunChan' \in Seq(UTunnels) /\ Len(tunChan') <= UChannel /\ Distinct(tunChan')
      /\ Elems(tunChan') = Elems(tunChan) \ {t}
  BY <1>1, <1>2, <1>3, HeadTun
<1>7. ufaults' \in 0 .. UMaxFaults
  BY <1>1, UBoundAssumption DEF UdpInv, UdpTypeOK
<1>8. UdpTypeOK'
  BY <1>3, <1>5, <1>6, <1>7 DEF UdpInv, UdpTypeOK
<1>9. UQueueOK'
  BY <1>3, <1>4, <1>5, <1>6 DEF UdpInv, UQueueOK
<1>10. UHandOK' /\ ULocalOK'
  BY <1>3 DEF UdpInv, UHandOK, ULocalOK
<1>11. UCopyOK'
  BY <1>2, <1>3, <1>5 DEF UdpInv, UCopyOK
<1>12. UTableOK' /\ URegOK'
  BY <1>2, <1>3, <1>4, <1>5, TableTypes DEF UdpInv, UTableOK, URegOK
<1>13. UPingOK'
  BY <1>4, <1>5 DEF UdpInv, UPingOK
<1> QED
  BY <1>8, <1>9, <1>10, <1>11, <1>12, <1>13 DEF UdpInv

(* A pair that ends takes its connection's entry out by its address: what   *)
(* was registered there in its place is recorded as removed.                *)
LEMMA udpCopyEndsKeeps == ASSUME UdpInv, NEW f \in UFlows, udpCopyEnds(f) PROVE UdpInv'
<1>1. uflows[f].st = "copied"
  BY DEF udpCopyEnds
<1>2. PICK t \in UTunnels : t = uflows[f].tun /\ utunnels[t].st = "copied"
  BY <1>1 DEF UdpInv, UCopyOK
<1>3. PICK h \in UAddrs : h = utunnels[t].addr
  BY <1>2 DEF UdpInv, URegOK
<1>4. /\ ltable' = (IF uflows[f].old THEN ltable ELSE Forgotten(f))
      /\ utable' = [utable EXCEPT ![h] = UNone]
      /\ ustolen' = IF utable[h] \in {t, UNone} THEN ustolen \ {t} ELSE (ustolen \ {t}) \cup {utable[h]}
      /\ utunnels' = [utunnels EXCEPT ![t] = FreeTun] /\ uflows' = [uflows EXCEPT ![f] = FreeFlow]
      /\ UNCHANGED <<urun, tunChan, udpChan, uhand, ufaults, uruns>>
  BY <1>2, <1>3 DEF udpCopyEnds
<1>5. PICK d \in TunType : d = FreeTun /\ d.st = "free" /\ ~d.sent
  BY FreeUdp
<1>6. PICK e \in FlowType : e = FreeFlow /\ e.st = "free" /\ ~e.up /\ ~e.down
  BY FreeUdp
<1>7. /\ utunnels' \in [UTunnels -> TunType] /\ utunnels'[t] = d
      /\ \A s \in UTunnels : s # t => utunnels'[s] = utunnels[s]
  BY <1>4, <1>5, OneTun DEF UdpInv
<1>8. /\ uflows' \in [UFlows -> FlowType] /\ uflows'[f] = e
      /\ \A g \in UFlows : g # f => uflows'[g] = uflows[g]
  BY <1>4, <1>6, OneFlow DEF UdpInv
<1>9. /\ ltable' \in [UPeers -> UFlows \cup {UNone}]
      /\ \A q \in UPeers : ltable'[q] # f /\ (ltable'[q] # UNone => ltable'[q] = ltable[q])
  <2>1. CASE uflows[f].old
    BY <1>4, <2>1, NoneIsNobody DEF UdpInv, UdpTypeOK, ULocalOK
  <2>2. CASE ~uflows[f].old
    BY <1>1, <1>4, <2>2, ForgottenRight
  <2> QED
    BY <2>1, <2>2
<1>10. /\ utable' \in [UAddrs -> UTunnels \cup {UNone}] /\ utable'[h] = UNone
       /\ \A k \in UAddrs : k # h => utable'[k] = utable[k]
  BY <1>4 DEF UdpInv, UdpTypeOK
<1>11. /\ ustolen' \subseteq UTunnels /\ \A s \in UTunnels : s # t /\ (s \in ustolen \/ utable[h] = s) => s \in ustolen'
  BY <1>4, NoneIsNobody DEF UdpInv, UdpTypeOK
<1>12. UdpTypeOK'
  BY <1>4, <1>7, <1>8, <1>9, <1>10, <1>11 DEF UdpInv, UdpTypeOK
<1>13. UQueueOK'
  BY <1>1, <1>2, <1>4, <1>5, <1>6, <1>7, <1>8 DEF UdpInv, UQueueOK
<1>14. UHandOK'
  BY <1>1, <1>4, <1>6, <1>8 DEF UdpInv, UHandOK
<1>15. UCopyOK'
  <2>1. \A g \in UFlows : g # f /\ uflows[g].st = "copied" => uflows[g].tun # t
    BY <1>1, <1>2 DEF UdpInv, UCopyOK
  <2> QED
    BY <1>6, <1>7, <1>8, <2>1 DEF UdpInv, UCopyOK
<1>16. ULocalOK'
  BY <1>8, <1>9, TableTypes DEF UdpInv, ULocalOK
<1>17. UTableOK'
  BY <1>3, <1>7, <1>10, TableTypes DEF UdpInv, UTableOK
<1>18. URegOK'
  BY <1>5, <1>7, <1>10, <1>11 DEF UdpInv, URegOK
<1>19. UPingOK'
  BY <1>5, <1>7 DEF UdpInv, UPingOK
<1> QED
  BY <1>12, <1>13, <1>14, <1>15, <1>16, <1>17, <1>18, <1>19 DEF UdpInv

LEMMA UdpRenewedKeeps == ASSUME UdpInv, UdpRenewed PROVE UdpInv'
<1>1. /\ urun' = "up" /\ utable' = [k \in UAddrs |-> UNone] /\ ltable' = [p \in UPeers |-> UNone]
      /\ tunChan' = <<>> /\ udpChan' = <<>> /\ uhand' = UNone /\ ustolen' = {} /\ UNCHANGED <<ufaults, uruns>>
  BY DEF UdpRenewed, FreshTable
<1>2. /\ utunnels' \in [UTunnels -> TunType]
      /\ \A t \in UTunnels :
           /\ utunnels'[t].st = IF utunnels[t].st = "copied" THEN "copied" ELSE "free"
           /\ utunnels[t].st = "copied" => /\ utunnels'[t].addr = utunnels[t].addr /\ utunnels'[t].mu = utunnels[t].mu
                                           /\ utunnels'[t].sent = utunnels[t].sent /\ utunnels'[t].old
           /\ utunnels[t].st # "copied" => ~utunnels'[t].sent
  <2> DEFINE d(t) == [utunnels[t] EXCEPT !.old = TRUE, !.pinging = FALSE]
  <2>1. utunnels' = [t \in UTunnels |-> IF utunnels[t].st = "copied" THEN d(t) ELSE FreeTun]
    BY DEF UdpRenewed
  <2>2. ASSUME NEW t \in UTunnels
        PROVE  /\ d(t) \in TunType /\ d(t).st = utunnels[t].st /\ d(t).addr = utunnels[t].addr
               /\ d(t).mu = utunnels[t].mu /\ d(t).sent = utunnels[t].sent /\ d(t).old
    <3>1. utunnels[t] \in TunType
      BY TableTypes DEF UdpInv
    <3> QED
      BY <3>1 DEF TunType
  <2> HIDE DEF d
  <2>3. PICK e \in TunType : e = FreeTun /\ e.st = "free" /\ ~e.sent
    BY FreeUdp
  <2> QED
    BY <2>1, <2>2, <2>3
<1>3. /\ uflows' \in [UFlows -> FlowType]
      /\ \A f \in UFlows :
           /\ uflows'[f].st = IF uflows[f].st = "copied" THEN "copied" ELSE "free"
           /\ uflows[f].st = "copied" => uflows'[f].peer = uflows[f].peer /\ uflows'[f].tun = uflows[f].tun
           /\ uflows[f].st # "copied" => ~uflows'[f].up /\ ~uflows'[f].down
  <2> DEFINE d(f) == [uflows[f] EXCEPT !.old = TRUE]
  <2>1. uflows' = [f \in UFlows |-> IF uflows[f].st = "copied" THEN d(f) ELSE FreeFlow]
    BY DEF UdpRenewed
  <2>2. ASSUME NEW f \in UFlows
        PROVE  d(f) \in FlowType /\ d(f).st = uflows[f].st /\ d(f).peer = uflows[f].peer /\ d(f).tun = uflows[f].tun
    <3>1. uflows[f] \in FlowType
      BY TableTypes DEF UdpInv
    <3> QED
      BY <3>1 DEF FlowType
  <2> HIDE DEF d
  <2>3. PICK e \in FlowType : e = FreeFlow /\ e.st = "free" /\ ~e.up /\ ~e.down
    BY FreeUdp
  <2> QED
    BY <2>1, <2>2, <2>3
<1>4. Distinct(tunChan') /\ Distinct(udpChan') /\ Elems(tunChan') = {} /\ Elems(udpChan') = {}
  BY <1>1, EmptyQueue
<1>5. UdpTypeOK'
  <2>1. tunChan' \in Seq(UTunnels) /\ Len(tunChan') <= UChannel /\ udpChan' \in Seq(UFlows) /\ Len(udpChan') <= UChannel
    BY <1>1, UBoundAssumption
  <2>2. utable' \in [UAddrs -> UTunnels \cup {UNone}] /\ ltable' \in [UPeers -> UFlows \cup {UNone}]
    BY <1>1
  <2> QED
    BY <1>1, <1>2, <1>3, <2>1, <2>2 DEF UdpInv, UdpTypeOK
<1>6. UQueueOK'
  BY <1>2, <1>3, <1>4 DEF UQueueOK
<1>7. UHandOK'
  BY <1>1, <1>3, NoneIsNobody DEF UHandOK
<1>8. UCopyOK'
  <2>1. \A g \in UFlows : /\ uflows'[g].st # "free" => uflows'[g].peer \in UPeers
                          /\ uflows'[g].st = "copied" => /\ uflows'[g].tun \in UTunnels
                                                         /\ utunnels'[uflows'[g].tun].st = "copied"
                          /\ uflows'[g].up \/ uflows'[g].down => uflows'[g].st = "copied"
    BY <1>2, <1>3 DEF UdpInv, UCopyOK
  <2>2. \A g, k \in UFlows : uflows'[g].st = "copied" /\ uflows'[k].st = "copied" /\ uflows'[g].tun = uflows'[k].tun
                             => g = k
    BY <1>3 DEF UdpInv, UCopyOK
  <2> QED
    BY <2>1, <2>2 DEF UCopyOK
<1>9. ULocalOK' /\ UTableOK'
  BY <1>1 DEF ULocalOK, UTableOK
<1>10. URegOK' /\ UPingOK'
  BY <1>2 DEF UdpInv, URegOK, UPingOK
<1> QED
  BY <1>5, <1>6, <1>7, <1>8, <1>9, <1>10 DEF UdpInv

LEMMA UdpStart == ASSUME UdpInit PROVE UdpInv
<1>1. PICK d \in TunType : d = FreeTun /\ d.st = "free" /\ ~d.sent
  BY FreeUdp
<1>2. PICK e \in FlowType : e = FreeFlow /\ e.st = "free" /\ ~e.up /\ ~e.down
  BY FreeUdp
<1>3. /\ utunnels \in [UTunnels -> TunType] /\ \A t \in UTunnels : utunnels[t] = d
      /\ uflows \in [UFlows -> FlowType] /\ \A f \in UFlows : uflows[f] = e
  BY <1>1, <1>2 DEF UdpInit
<1>4. Distinct(tunChan) /\ Distinct(udpChan) /\ Elems(tunChan) = {} /\ Elems(udpChan) = {}
  BY EmptyQueue DEF UdpInit
<1>5. UdpTypeOK
  <2>1. tunChan \in Seq(UTunnels) /\ Len(tunChan) <= UChannel /\ udpChan \in Seq(UFlows) /\ Len(udpChan) <= UChannel
    BY UBoundAssumption DEF UdpInit
  <2>2. utable \in [UAddrs -> UTunnels \cup {UNone}] /\ ltable \in [UPeers -> UFlows \cup {UNone}]
    BY DEF UdpInit
  <2> QED
    BY <1>3, <2>1, <2>2, UBoundAssumption DEF UdpInit, UdpTypeOK
<1>6. UQueueOK
  BY <1>1, <1>2, <1>3, <1>4 DEF UQueueOK
<1>7. UHandOK /\ UCopyOK
  BY <1>2, <1>3, NoneIsNobody DEF UdpInit, UHandOK, UCopyOK
<1>8. ULocalOK /\ UTableOK
  BY DEF UdpInit, ULocalOK, UTableOK
<1>9. URegOK /\ UPingOK
  BY <1>1, <1>3 DEF URegOK, UPingOK
<1> QED
  BY <1>5, <1>6, <1>7, <1>8, <1>9 DEF UdpInv

LEMMA UdpStep == ASSUME UdpInv, [UdpNext]_uvars PROVE UdpInv'
<1>1. CASE \E h \in UAddrs : TunnelPayload(h) \/ \E t \in UTunnels : TunnelToken(h, t)
  BY <1>1, TunnelPayloadKeeps, TunnelTokenKeeps
<1>2. CASE \E p \in UPeers : LocalPayload(p) \/ \E f \in UFlows : LocalOpens(p, f)
  BY <1>2, LocalPayloadKeeps, LocalOpensKeeps
<1>3. CASE \E t \in UTunnels : PingLocks(t) \/ PingSent(t) \/ PingStops(t)
  BY <1>3, PingKeeps
<1>4. CASE FlowExpires \/ FlowTaken \/ FlowPaired \/ TargetNotSent
  BY <1>4, FlowExpiresKeeps, FlowTakenKeeps, FlowPairedKeeps, TargetNotSentKeeps
<1>5. CASE \E f \in UFlows : \/ udpLocalCopy(f) \/ udpTunnelCopy(f) \/ udpCopyEnds(f)
                             \/ \E dir \in {"up", "down"} : CopyFails(f, dir)
  BY <1>5, udpLocalCopyKeeps, udpTunnelCopyKeeps, udpCopyEndsKeeps, CopyFailsKeeps
<1>6. CASE UdpStop \/ UdpRenewed
  BY <1>6, UdpStopKeeps, UdpRenewedKeeps
<1>7. CASE UNCHANGED uvars
  BY <1>7, UdpStutterKeeps
<1> QED
  BY <1>1, <1>2, <1>3, <1>4, <1>5, <1>6, <1>7 DEF UdpNext

LEMMA UdpFollows == ASSUME UdpInv PROVE UdpTypeOK /\ UdpIsRight
<1>1. PeerNeverStuck
  <2>1. ASSUME NEW p \in UPeers, ltable[p] # UNone
        PROVE  LET f == ltable[p] IN
               /\ uflows[f].peer = p /\ ~uflows[f].old
               /\ \/ uflows[f].st = "queued" /\ Contains(udpChan, f)
                  \/ uflows[f].st = "hand" /\ uhand = f
                  \/ HasCopy(f)
    <3>1. PICK f \in UFlows : f = ltable[p]
      BY <2>1, TableTypes DEF UdpInv
    <3>2. uflows[f].peer = p /\ ~uflows[f].old /\ uflows[f].st \in {"queued", "hand", "copied"}
      <4>1. uflows[f] \in FlowType
        BY TableTypes DEF UdpInv
      <4> QED
        BY <2>1, <3>1, <4>1 DEF UdpInv, ULocalOK, FlowType
    <3>3. uflows[f].st = "queued" => Contains(udpChan, f)
      BY DEF UdpInv, UQueueOK, Elems, Contains
    <3>4. uflows[f].st = "hand" => uhand = f
      BY DEF UdpInv, UHandOK
    <3>5. uflows[f].st = "copied" => HasCopy(f)
      BY DEF UdpInv, UCopyOK, HasCopy
    <3> QED
      BY <3>1, <3>2, <3>3, <3>4, <3>5
  <2> QED
    BY <2>1 DEF PeerNeverStuck
<1>2. PairedIsRegistered
  <2>1. \A t \in UTunnels : utunnels[t].st = "queued" => Contains(tunChan, t)
    BY DEF UdpInv, UQueueOK, Elems, Contains
  <2> QED
    BY <2>1, TableTypes DEF UdpInv, URegOK, UTableOK, PairedIsRegistered
<1>3. NoPingInStream
  BY DEF UdpInv, UPingOK, NoPingInStream
<1> QED
  BY <1>1, <1>2, <1>3 DEF UdpInv, UdpIsRight

(* server/udp.go, for any number of addresses, peers, connections, flows,   *)
(* failures and restarts: no source is left with an entry that nothing will *)
(* take out (udpCopy, handleLoop; an entry whose upward half is over waits  *)
(* for the downward half), a connection that is queued or carried is found  *)
(* by its address unless a pair of an earlier run removed it, and keepAlive *)
(* writes no ping into a stream.                                            *)
THEOREM UdpStaysRight == UdpSpec => []UdpIsRight
<1>1. UdpInit => UdpInv
  BY UdpStart
<1>2. UdpInv /\ [UdpNext]_uvars => UdpInv'
  BY UdpStep
<1>3. UdpInv => UdpIsRight
  BY UdpFollows
<1> QED
  BY <1>1, <1>2, <1>3, PTL DEF UdpSpec

-----------------------------------------------------------------------------
(* The parts together. *)

(* ReverseForward, for any number of connections, sessions and handlers:    *)
(* acceptLocalConn and the limiter never exceed the limit, no UDP flow is   *)
(* registered that nobody reads, and no session carries more streams than   *)
(* its counter allows.                                                      *)
THEOREM ForwardingStaysRight == Spec => []ForwardingIsRight
BY ForwardingHolds, PTL DEF ForwardingIsRight

(* A step of the composition is a step of one part and none of the others.  *)
LEMMA PartStep ==
  [PartNext]_partVars => /\ [Next]_vars /\ [UdpNext]_uvars /\ [PortNext]_pvars /\ [PoolNext]_poolVars
<1>1. ASSUME UNCHANGED partVars
      PROVE  UNCHANGED vars /\ UNCHANGED uvars /\ UNCHANGED pvars /\ UNCHANGED poolVars
  BY <1>1 DEF partVars
<1>2. ASSUME PartNext
      PROVE  /\ Next \/ UNCHANGED vars
             /\ UdpNext \/ UNCHANGED uvars
             /\ PortNext \/ UNCHANGED pvars
             /\ PoolNext \/ UNCHANGED poolVars
  BY <1>2, Zenon DEF PartNext
<1> QED
  BY <1>1, <1>2, Zenon

LEMMA PartsInvariant == PartSpec => [](IInv /\ UdpInv /\ PortInv /\ PoolInv)
<1>1. PartInit => IInv /\ UdpInv /\ PortInv /\ PoolInv
  BY InitHolds, UdpStart, PortStart, PoolStartsRight DEF PartInit
<1>2. /\ IInv /\ UdpInv /\ PortInv /\ PoolInv /\ [PartNext]_partVars
      => (IInv /\ UdpInv /\ PortInv /\ PoolInv)'
  BY PartStep, Inductive, UdpStep, PortStep, PoolStep
<1> QED
  BY <1>1, <1>2, PTL DEF PartSpec

(* The queues, tables, counters and sizes of the forwarding side keep their *)
(* types and bounds: channels never exceed their capacity, a pool its size. *)
THEOREM PartsTypeCorrect == PartSpec => []PartsTyped
<1>1. IInv /\ UdpInv /\ PortInv /\ PoolInv => PartsTyped
  BY UdpFollows, PortFollows DEF PartsTyped, IInv, PoolInv
<1> QED
  BY <1>1, PartsInvariant, PTL
=============================================================================
