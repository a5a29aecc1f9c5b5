---------------------------- MODULE UdpTransport ----------------------------
(***************************************************************************)
(* The data side of the reverse tunnel's plain UDP server: one socket for  *)
(* the client's pool, whose datagrams are told apart by source address in  *)
(* activeConnections, one socket and table per forwarded port, handleLoop  *)
(* pairing a local flow with a pool address, and the pair of copies that   *)
(* carries it.  Restart replaces the pool's table under copies that are    *)
(* still running.                                                          *)
(***************************************************************************)
EXTENDS Integers, Sequences, FiniteSets, SequencesExt

CONSTANTS
  UAddrs,      \* the client's socket addresses
  UPeers,      \* source addresses of the forwarded port
  UTunnels,    \* TunnelUDPConn objects that can exist at once
  UFlows,      \* LocalUDPConn objects that can exist at once
  UChannel,    \* capacity of tunnelChannel and udpChan
  UPayload,    \* capacity of a payload channel (100 000 in the code)
  UMaxFaults,  \* bound: failed writes
  UMaxRuns     \* bound: restarts

ASSUME UBoundAssumption ==
  /\ UChannel \in Nat \ {0} /\ UPayload \in Nat \ {0}
  /\ UMaxFaults \in Nat /\ UMaxRuns \in Nat
ASSUME UNameAssumption == "none" \notin UAddrs \cup UPeers \cup UTunnels \cup UFlows

VARIABLES
  urun,        \* "up", or "stopping" while Restart sleeps
  utable,      \* s.activeConnections: address to TunnelUDPConn
  ltable,      \* activeConnections of the port's listener
  utunnels, uflows,
  tunChan, udpChan,
  uhand,       \* the flow handleLoop waits to pair
  ufaults, uruns,
  ustolen      \* history: connections whose entry a copy of an earlier run removed

uvars == <<urun, utable, ltable, utunnels, uflows, tunChan, udpChan, uhand, ufaults, uruns, ustolen>>
uself == <<urun, ufaults, uruns, ustolen>>

UNone == "none"
FreeTun  == [st |-> "free", addr |-> UNone, pay |-> 0, mu |-> "free", pinging |-> FALSE,
             sent |-> FALSE, old |-> FALSE]
FreeFlow == [st |-> "free", peer |-> UNone, pay |-> 0, tun |-> UNone, up |-> FALSE, down |-> FALSE,
             old |-> FALSE]

(* The TunnelUDPConn or LocalUDPConn made for a new address: a connection   *)
(* whose keepAlive is started, a flow with its first datagram.              *)
QueuedTun(addr)  == [st |-> "queued", addr |-> addr, pay |-> 0, mu |-> "free", pinging |-> TRUE,
                     sent |-> FALSE, old |-> FALSE]
QueuedFlow(peer) == [st |-> "queued", peer |-> peer, pay |-> 1, tun |-> UNone, up |-> FALSE,
                     down |-> FALSE, old |-> FALSE]

UdpInit ==
  /\ urun = "up"
  /\ utable = [a \in UAddrs |-> UNone] /\ ltable = [p \in UPeers |-> UNone]
  /\ utunnels = [t \in UTunnels |-> FreeTun] /\ uflows = [f \in UFlows |-> FreeFlow]
  /\ tunChan = <<>> /\ udpChan = <<>> /\ uhand = UNone
  /\ ufaults = 0 /\ uruns = 0 /\ ustolen = {}

-----------------------------------------------------------------------------
(* Datagrams in. *)

(* A payload channel takes what it has room for and drops the rest.         *)
Buffered(c) == [c EXCEPT !.pay = IF @ < UPayload THEN @ + 1 ELSE @]

(* acceptTunnelConn: a datagram of an address it knows is that connection's *)
(* payload, whatever it says ...                                            *)
TunnelPayload(a) ==
  /\ urun = "up" /\ utable[a] # UNone
  /\ utunnels' = [utunnels EXCEPT ![utable[a]] = Buffered(@)]
  /\ UNCHANGED <<utable, ltable, uflows, tunChan, udpChan, uhand, uself>>

(* ... and one of a new address must be the token.  With tunnelChannel full *)
(* the entry is taken out again.                                            *)
TunnelToken(a, t) ==
  /\ urun = "up" /\ utable[a] = UNone /\ utunnels[t].st = "free"
  /\ Len(tunChan) < UChannel
  /\ utable' = [utable EXCEPT ![a] = t]
  /\ utunnels' = [utunnels EXCEPT ![t] = QueuedTun(a)]
  /\ tunChan' = Append(tunChan, t)
  /\ UNCHANGED <<ltable, uflows, udpChan, uhand, uself>>

(* localListener: a known source's datagram is payload, ...                 *)
LocalPayload(p) ==
  /\ urun = "up" /\ ltable[p] # UNone
  /\ uflows' = [uflows EXCEPT ![ltable[p]] = Buffered(@)]
  /\ UNCHANGED <<utable, ltable, utunnels, tunChan, udpChan, uhand, uself>>

(* ... a new one's opens a flow; with udpChan full it is taken out again.   *)
LocalOpens(p, f) ==
  /\ urun = "up" /\ ltable[p] = UNone /\ uflows[f].st = "free"
  /\ Len(udpChan) < UChannel
  /\ ltable' = [ltable EXCEPT ![p] = f]
  /\ uflows' = [uflows EXCEPT ![f] = QueuedFlow(p)]
  /\ udpChan' = Append(udpChan, f)
  /\ UNCHANGED <<utable, utunnels, tunChan, uhand, uself>>

-----------------------------------------------------------------------------
(* keepAlive of a queued pool connection. *)

PingLocks(t) ==
  /\ urun = "up" /\ utunnels[t].pinging /\ utunnels[t].mu = "free"
  /\ utunnels' = [utunnels EXCEPT ![t].mu = "ping"]
  /\ UNCHANGED <<utable, ltable, uflows, tunChan, udpChan, uhand, uself>>

PingSent(t) ==
  /\ utunnels[t].mu = "ping"
  /\ utunnels' = [utunnels EXCEPT ![t].mu = "free"]
  /\ UNCHANGED <<utable, ltable, uflows, tunChan, udpChan, uhand, uself>>

(* The ping channel is closed, or the lock is held for good.                *)
PingStops(t) ==
  /\ utunnels[t].pinging /\ utunnels[t].mu # "ping" /\ utunnels[t].st # "queued"
  /\ utunnels' = [utunnels EXCEPT ![t].pinging = FALSE]
  /\ UNCHANGED <<utable, ltable, uflows, tunChan, udpChan, uhand, uself>>

-----------------------------------------------------------------------------
(* handleLoop *)

leavesStaleMutant(f) == ltable

(* The flow leaves its table, if the table still holds this one.            *)
Forgotten(f) == [ltable EXCEPT ![uflows[f].peer] = IF @ = f THEN UNone ELSE @]

(* A flow that waited more than three seconds is dropped whole.             *)
FlowExpires ==
  /\ urun = "up" /\ uhand = UNone /\ udpChan # <<>>
  /\ LET f == Head(udpChan)
     IN /\ ltable' = Forgotten(f)
        /\ uflows' = [uflows EXCEPT ![f] = FreeFlow]
  /\ udpChan' = Tail(udpChan)
  /\ UNCHANGED <<utable, utunnels, tunChan, uhand, uself>>

FlowTaken ==
  /\ urun = "up" /\ uhand = UNone /\ udpChan # <<>>
  /\ uhand' = Head(udpChan) /\ udpChan' = Tail(udpChan)
  /\ uflows' = [uflows EXCEPT ![Head(udpChan)].st = "hand"]
  /\ UNCHANGED <<utable, ltable, utunnels, tunChan, uself>>

(* The connection's lock is taken, and never let go.                        *)
TakesLock(t) == utunnels[t].mu = "free"

FlowPaired ==
  /\ urun = "up" /\ uhand # UNone /\ tunChan # <<>>
  /\ LET t == Head(tunChan)
     IN /\ TakesLock(t)
        /\ utunnels' = [utunnels EXCEPT ![t].st = "copied", ![t].mu = IF @ = "free" THEN "loop" ELSE @,
                                        ![t].sent = TRUE]
        /\ uflows' = [uflows EXCEPT ![uhand].st = "copied", ![uhand].tun = t,
                                    ![uhand].up = TRUE, ![uhand].down = TRUE]
  /\ tunChan' = Tail(tunChan) /\ uhand' = UNone
  /\ UNCHANGED <<utable, ltable, udpChan, uself>>

(* The target could not be sent: the loop tries the next connection and     *)
(* leaves this one in the table.                                            *)
TargetNotSent ==
  /\ urun = "up" /\ uhand # UNone /\ tunChan # <<>>
  /\ ufaults < UMaxFaults /\ ufaults' = ufaults + 1
  /\ utunnels[Head(tunChan)].mu = "free"
  /\ utunnels' = [utunnels EXCEPT ![Head(tunChan)].st = "orphan", ![Head(tunChan)].mu = "loop"]
  /\ tunChan' = Tail(tunChan)
  /\ UNCHANGED <<urun, utable, ltable, uflows, udpChan, uhand, uruns, ustolen>>

-----------------------------------------------------------------------------
(* udpCopy *)

(* udpLocalCopy and udpTunnelCopy each carry what is buffered; with nothing *)
(* for a minute they end.                                                   *)
udpLocalCopy(f) ==
  /\ uflows[f].up
  /\ uflows' = [uflows EXCEPT ![f].pay = IF @ > 0 THEN @ - 1 ELSE @, ![f].up = uflows[f].pay > 0]
  /\ UNCHANGED <<utable, ltable, utunnels, tunChan, udpChan, uhand, uself>>

udpTunnelCopy(f) ==
  /\ uflows[f].down
  /\ LET t == uflows[f].tun
     IN /\ utunnels' = [utunnels EXCEPT ![t].pay = IF @ > 0 THEN @ - 1 ELSE @]
        /\ uflows' = [uflows EXCEPT ![f].down = utunnels[t].pay > 0]
  /\ UNCHANGED <<utable, ltable, tunChan, udpChan, uhand, uself>>

(* A write fails: always once the run's listeners are closed, and otherwise *)
(* at the cost of a fault.                                                  *)
CopyFails(f, dir) ==
  /\ \/ dir = "up" /\ uflows[f].up /\ uflows[f].pay > 0
     \/ dir = "down" /\ uflows[f].down /\ utunnels[uflows[f].tun].pay > 0
  /\ IF uflows[f].old THEN UNCHANGED ufaults ELSE ufaults < UMaxFaults /\ ufaults' = ufaults + 1
  /\ uflows' = [uflows EXCEPT ![f].up = @ /\ dir # "up", ![f].down = @ /\ dir # "down"]
  /\ UNCHANGED <<urun, utable, ltable, utunnels, tunChan, udpChan, uhand, uruns, ustolen>>

BothCopiesDone(f)     == ~uflows[f].up /\ ~uflows[f].down

(* Both entries go, the tunnel's by its address alone: s.activeConnections  *)
(* may by now be the next run's.                                            *)
udpCopyEnds(f) ==
  /\ uflows[f].st = "copied" /\ BothCopiesDone(f)
  /\ LET t == uflows[f].tun
         a == utunnels[t].addr
     IN /\ ltable' = IF uflows[f].old THEN ltable ELSE Forgotten(f)
        /\ utable' = [utable EXCEPT ![a] = UNone]
        /\ ustolen' = IF utable[a] \in {t, UNone} THEN ustolen \ {t} ELSE (ustolen \ {t}) \cup {utable[a]}
        /\ utunnels' = [utunnels EXCEPT ![t] = FreeTun]
        /\ uflows' = [uflows EXCEPT ![f] = FreeFlow]
  /\ UNCHANGED <<urun, tunChan, udpChan, uhand, ufaults, uruns>>

-----------------------------------------------------------------------------
(* Restart *)

UdpStop ==
  /\ urun = "up" /\ uruns < UMaxRuns
  /\ urun' = "stopping" /\ uruns' = uruns + 1
  /\ UNCHANGED <<utable, ltable, utunnels, uflows, tunChan, udpChan, uhand, ufaults, ustolen>>

FreshTable       == utable' = [a \in UAddrs |-> UNone]

(* New channels and tables; the copies go on with what they hold.  A reader *)
(* or a ping still inside the old run is done by the end of the sleep.      *)
UdpRenewed ==
  /\ urun = "stopping" /\ \A t \in UTunnels : utunnels[t].mu # "ping"
  /\ urun' = "up"
  /\ FreshTable
  /\ ltable' = [p \in UPeers |-> UNone]
  /\ tunChan' = <<>> /\ udpChan' = <<>> /\ uhand' = UNone
  /\ utunnels' = [t \in UTunnels |-> IF utunnels[t].st = "copied"
                                     THEN [utunnels[t] EXCEPT !.old = TRUE, !.pinging = FALSE]
                                     ELSE FreeTun]
  /\ uflows' = [f \in UFlows |-> IF uflows[f].st = "copied" THEN [uflows[f] EXCEPT !.old = TRUE]
                                                            ELSE FreeFlow]
  /\ ustolen' = {}
  /\ UNCHANGED <<ufaults, uruns>>

UdpNext ==
  \/ \E a \in UAddrs : TunnelPayload(a) \/ \E t \in UTunnels : TunnelToken(a, t)
  \/ \E p \in UPeers : LocalPayload(p) \/ \E f \in UFlows : LocalOpens(p, f)
  \/ \E t \in UTunnels : PingLocks(t) \/ PingSent(t) \/ PingStops(t)
  \/ FlowExpires \/ FlowTaken \/ FlowPaired \/ TargetNotSent
  \/ \E f \in UFlows : \/ udpLocalCopy(f) \/ udpTunnelCopy(f) \/ udpCopyEnds(f)
                       \/ \E dir \in {"up", "down"} : CopyFails(f, dir)
  \/ UdpStop \/ UdpRenewed

UdpSpec == UdpInit /\ [][UdpNext]_uvars

-----------------------------------------------------------------------------
TunType  == [st : {"free", "queued", "copied", "orphan"}, addr : UAddrs \cup {UNone}, pay : 0..UPayload,
             mu : {"free", "ping", "loop"}, pinging : BOOLEAN, sent : BOOLEAN, old : BOOLEAN]
FlowType == [st : {"free", "queued", "hand", "copied"}, peer : UPeers \cup {UNone}, pay : 0..UPayload,
             tun : UTunnels \cup {UNone}, up : BOOLEAN, down : BOOLEAN, old : BOOLEAN]

UdpTypeOK ==
  /\ urun \in {"up", "stopping"} /\ ufaults \in 0..UMaxFaults /\ uruns \in 0..UMaxRuns
  /\ utable \in [UAddrs -> UTunnels \cup {UNone}] /\ ltable \in [UPeers -> UFlows \cup {UNone}]
  /\ utunnels \in [UTunnels -> TunType] /\ uflows \in [UFlows -> FlowType]
  /\ tunChan \in Seq(UTunnels) /\ Len(tunChan) <= UChannel
  /\ udpChan \in Seq(UFlows) /\ Len(udpChan) <= UChannel
  /\ uhand \in UFlows \cup {UNone} /\ ustolen \subseteq UTunnels

(* The udpCopy of a flow is there to take its entries out: the flow is      *)
(* carried by a connection, and no other flow is carried by that one.       *)
HasCopy(f) ==
  LET t == uflows[f].tun
  IN /\ uflows[f].st = "copied" /\ utunnels[t].st = "copied"
     /\ \A g \in UFlows : uflows[g].st = "copied" /\ uflows[g].tun = t => g = f

(* No source is left with an entry nobody will take out (the "UDP worked,   *)
(* then stopped" report of handleLoop's comment): its flow is queued, in    *)
(* handleLoop's hand, or has a udpCopy of its own.  This is less than that  *)
(* the flow is read: udpCopy waits for both directions, where its comment   *)
(* says "until one of the directions is done", and one that has lost its    *)
(* upward half (~up) keeps filing what the source sends, unread, until the  *)
(* downward half is idle for a minute as well.                              *)
PeerNeverStuck ==
  \A p \in UPeers : ltable[p] # UNone =>
    LET f == ltable[p] IN
    /\ uflows[f].peer = p /\ ~uflows[f].old
    /\ \/ uflows[f].st = "queued" /\ Contains(udpChan, f)
       \/ uflows[f].st = "hand" /\ uhand = f
       \/ HasCopy(f)

(* A pool address that carries a flow of this run is registered to it, so   *)
(* its answers are not refused as a bad token, unless a copy of an earlier  *)
(* run that had the same address removed the entry when it ended; and what  *)
(* is registered is queued or carried, or was left by a failed write.       *)
PairedIsRegistered ==
  /\ \A t \in UTunnels : utunnels[t].st \in {"queued", "copied", "orphan"} /\ ~utunnels[t].old
                         => utable[utunnels[t].addr] = t \/ t \in ustolen
  /\ \A a \in UAddrs : utable[a] # UNone =>
       /\ utunnels[utable[a]].addr = a
       /\ utunnels[utable[a]].st = "queued" => urun = "stopping" \/ Contains(tunChan, utable[a])

(* A ping never follows the target on a connection, where the client would  *)
(* hand it to the service as data (close(ping) and the lock handleLoop      *)
(* keeps).                                                                  *)
NoPingInStream == \A t \in UTunnels : ~(utunnels[t].sent /\ utunnels[t].mu = "ping")
=============================================================================
