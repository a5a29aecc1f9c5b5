---------------------------- MODULE MCForwarding ----------------------------
(***************************************************************************)
(* What forwards the connections of a reverse tunnel, one part per         *)
(* behaviour: the forwarded ports of a server, the connections it pairs,   *)
(* the udp transport, and the pool of the client.  The parts share no      *)
(* state, so a behaviour of one says all there is to say of it while the   *)
(* others stand still.                                                     *)
(***************************************************************************)
EXTENDS ReverseForward, UdpTransport, PortMappings, ClientPool

VARIABLE part

(* Entries of the configuration: a left side, alone or with a right side.   *)
Lefts ==
  {Piece("port", NoHost, n, n) : n \in {0, 1, 4, 5}}
    \cup {Piece("range", NoHost, 1, 2), Piece("range", NoHost, 2, 1), Piece("range", NoHost, 4, 5),
          Piece("range", NoHost, 1, 4), Piece("ranges", NoHost, 1, 2), Piece("addr", "ip", 2, 2),
          Piece("addr", "ip", 0, 0), Piece("addr", "dash", 2, 2), Piece("addr", NoHost, 2, 2),
          Piece("addr", Six, 2, 2), Piece("addr", Away, 2, 2),
          Piece("addrrange", "ip", 1, 2), Piece("text", NoHost, 0, 0), Piece("empty", NoHost, 0, 0)}
Rights ==
  {<<>>, <<Piece("empty", NoHost, 0, 0)>>, <<Piece("port", NoHost, 3, 3)>>, <<Piece("addr", "ip", 3, 3)>>,
   <<Piece("addr", NoHost, 3, 3)>>, <<Piece("addrrange", "ip", 3, 3)>>,
   <<Piece("range", NoHost, 3, 4)>>, <<Piece("alts", NoHost, 3, 4)>>,
   <<Piece("addr", Six, 3, 3)>>, <<Piece("alts", Six, 3, 4)>>,
   <<Piece("port", NoHost, 3, 3), Piece("port", NoHost, 4, 4)>>}
Entries == {Entry(l, r) : l \in Lefts, r \in Rights}
Pairs   == {Entry(l, r) : l \in {Piece("port", NoHost, 1, 1), Piece("range", NoHost, 1, 2),
                                 Piece("addr", "ip", 2, 2)},
                          r \in {<<>>, <<Piece("port", NoHost, 3, 3)>>}}

PartInit ==
  /\ part \in {"forward", "udp", "ports", "pool"}
  /\ Init /\ UdpInit /\ PortInit /\ PoolInit
  /\ part # "forward" => transport = "tcp"
  /\ part # "ports" => ptransport = "tcp" /\ pspecs = <<Entry(Piece("port", NoHost, 1, 1), <<>>)>>
  /\ part # "pool" => poolTransport = "tcp"

PartNext ==
  /\ UNCHANGED part
  /\ \/ part = "forward" /\ Next /\ UNCHANGED <<uvars, pvars, poolVars>>
     \/ part = "udp" /\ UdpNext /\ UNCHANGED <<vars, pvars, poolVars>>
     \/ part = "ports" /\ PortNext /\ UNCHANGED <<vars, uvars, poolVars>>
     \/ part = "pool" /\ PoolNext /\ UNCHANGED <<vars, uvars, pvars>>

partVars == <<part, vars, uvars, pvars, poolVars>>
PartSpec == PartInit /\ [][PartNext]_partVars

-----------------------------------------------------------------------------

(* The state of every part has its type.                                    *)
PartsTyped == TypeOK /\ UdpTypeOK /\ PortTypeOK /\ PoolTypeOK

(* handleLoop, handleSession and the limiter: never more connections than   *)
(* the limit, no UDP flow that nobody reads, and no session with more       *)
(* streams than it may carry.                                               *)
ForwardingIsRight == CapHolds /\ FlowIsRead /\ StreamsWithinLimit

(* server/udp.go: no peer is left with an entry that nothing takes out, a   *)
(* paired connection is found again by its address, and no keepalive        *)
(* reaches a stream.                                                        *)
UdpIsRight == PeerNeverStuck /\ PairedIsRegistered /\ NoPingInStream

(* validate.go and parsePortMappings: what passes the validation starts but *)
(* for ports asked for twice, foreign hosts and ranges that outlive their   *)
(* run, and the readers of an entry agree where the client dials at all.    *)
PortsAgree == ValidatedStarts /\ SyntaxAgrees

(* client poolMaintainer and tunnelDialer: the counter is the truth but for *)
(* what a Restart left waiting, and the pool stays within its size.         *)
PoolIsRight == CounterTrue /\ CounterDrift /\ SizeBounded
=============================================================================
