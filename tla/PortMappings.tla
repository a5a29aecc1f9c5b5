---------------------------- MODULE PortMappings ----------------------------
(***************************************************************************)
(* The forwarded-port entries: validPortSpec, which the management screens *)
(* check them with; parsePortMappings, which each reverse transport reads  *)
(* them with, a listener at a time; and portmap.Expand, which the direct   *)
(* and layer-3 tunnels read them with.                                     *)
(*                                                                         *)
(* An entry is its left side and the pieces between its "=" signs.  A      *)
(* piece is a form with the numbers the code takes from it: "port" n,      *)
(* "range" lo-hi, "ranges" with two dashes, "addr" host:n, "addrrange"     *)
(* host:lo-hi, "alts" host:lo|host:hi, "text", and "empty".  A host is an  *)
(* address of the machine, a name with a dash in it, an IPv6 address in    *)
(* brackets, one the machine cannot listen on, or nothing before the colon.*)
(***************************************************************************)
EXTENDS Integers, Sequences, FiniteSets, SequencesExt

CONSTANTS
  PTransports,
  PMax,          \* the highest port (65535 in the code)
  PPerMapping,   \* MaxPortsPerMapping
  PEntries,      \* entries tried one at a time
  PPairs,        \* entries tried two at a time
  PMaxRuns       \* bound: restarts

Forms  == {"port", "range", "ranges", "addr", "addrrange", "alts", "text", "empty"}
Pieces == [form : Forms, host : STRING, lo : Nat, hi : Nat]
Hostless == {"port", "range", "ranges"}
NoHost == "nothing"
Six    == "six"      \* in brackets, and the group after its first colon is no decimal number
Away   == "away"     \* another machine's, or a name that does not resolve

ASSUME PEntryAssumption ==
  /\ PMax \in Nat /\ PPerMapping \in Nat /\ PMaxRuns \in Nat
  /\ PPairs \subseteq PEntries
  /\ \A e \in PEntries : /\ e \in [left : Pieces, rights : Seq(Pieces)]
                         /\ e.left.form \in Hostless => e.left.host = NoHost
                         /\ \A i \in DOMAIN e.rights : e.rights[i].form \in Hostless => e.rights[i].host = NoHost

VARIABLES
  ptransport, pspecs,
  pnext,         \* the entry parsePortMappings is at
  pending,       \* listeners to be started
  bound,         \* listeners started
  stale,         \* listeners a parsePortMappings of an earlier run has yet to start
  pfatal,        \* what Fatalf ended the process over, if anything
  pruns

pvars == <<ptransport, pspecs, pnext, pending, bound, stale, pfatal, pruns>>

Piece(form, host, lo, hi) == [form |-> form, host |-> host, lo |-> lo, hi |-> hi]
Entry(left, rights)       == [left |-> left, rights |-> rights]

PortInit ==
  /\ ptransport \in PTransports
  /\ pspecs \in {<<e>> : e \in PEntries} \cup {<<d, e>> : d \in PPairs, e \in PPairs}
  /\ pnext = 1
  /\ pending = {} /\ bound = {} /\ stale = {}
  /\ pfatal = "no" /\ pruns = 0

-----------------------------------------------------------------------------
(* validate.go *)

validPort(n) == n \in 1..PMax

validPortSpec(e) ==
  LET l == e.left
      isAddr == l.form \in {"addr", "addrrange"} /\ l.host # NoHost
  IN /\ l.form # "empty"
     /\ ~(Len(e.rights) = 1 /\ e.rights[1].form = "empty")
     /\ \/ isAddr /\ Len(e.rights) > 0 /\ l.form = "addr" /\ validPort(l.lo)
        \/ l.form = "range" /\ validPort(l.lo) /\ validPort(l.hi) /\ l.hi >= l.lo
        \/ l.form = "port" /\ validPort(l.lo)

-----------------------------------------------------------------------------
(* parsePortMappings: the listeners an entry asks for, or none when it is   *)
(* fatal.  A listener is a host, a port and where it forwards to.           *)

Dashed(p) == p.form \in {"range", "ranges", "addrrange"} \/ p.host = "dash"

Listener(host, port, to) == [host |-> host, port |-> port, to |-> to]

oneTargetMutant(e) ==
  IF e.left.form = "range" /\ validPort(e.left.lo) /\ validPort(e.left.hi) /\ e.left.hi >= e.left.lo
  THEN {Listener(NoHost, n, IF e.rights = <<>> THEN Piece("port", NoHost, e.left.lo, e.left.lo) ELSE e.rights[1]) :
          n \in e.left.lo..e.left.hi}
  ELSE {}

(* A range listens on each of its ports; without a target each goes to the  *)
(* same port, with one they all go to it.                                   *)
RangeListeners(e) ==
  IF e.left.form = "range" /\ validPort(e.left.lo) /\ validPort(e.left.hi) /\ e.left.hi >= e.left.lo
  THEN {Listener(NoHost, n, IF e.rights = <<>> THEN Piece("port", NoHost, n, n) ELSE e.rights[1]) :
          n \in e.left.lo..e.left.hi}
  ELSE {}

(* listenAddrFor: the text is a port that can be listened on.               *)
listenAddrFor(p) == p.form = "port" /\ p.lo >= 1 /\ p.lo <= PMax

(* net.Listen of anything else takes an address with a port, chooses one    *)
(* for port 0 or an empty text, and refuses the rest.                       *)
SingleListener(e) ==
  LET l == e.left IN
  IF listenAddrFor(l) THEN {Listener(NoHost, l.lo, e.rights[1])}
  ELSE IF l.form = "addr" /\ l.lo \in 0..PMax THEN {Listener(l.host, l.lo, e.rights[1])}
  ELSE IF l.form = "empty" THEN {Listener(NoHost, 0, e.rights[1])}
  ELSE {}

Listeners(e) ==
  IF Len(e.rights) > 1 THEN {}
  ELSE IF Dashed(e.left) THEN RangeListeners(e)
  ELSE IF e.rights = <<>>
       THEN IF e.left.form = "port" /\ validPort(e.left.lo) THEN {Listener(NoHost, e.left.lo, e.left)} ELSE {}
  ELSE SingleListener(e)

(* Two listeners that cannot both be bound.                                 *)
Clash(k, l) == k.port = l.port /\ k.port # 0 /\ (k.host = l.host \/ k.host = NoHost \/ l.host = NoHost)

ParseEntry ==
  /\ pfatal = "no" /\ pnext <= Len(pspecs)
  /\ LET ls == Listeners(pspecs[pnext])
     IN pending' = pending \cup {[entry |-> pnext, l |-> l] : l \in ls} /\ pfatal' = IF ls = {} THEN "entry" ELSE "no"
  /\ pnext' = pnext + 1
  /\ UNCHANGED <<ptransport, pspecs, bound, stale, pruns>>

TcpParse    == ptransport = "tcp"    /\ ParseEntry
TcpMuxParse == ptransport = "tcpmux" /\ ParseEntry
KcpParse    == ptransport = "kcp"    /\ ParseEntry
QuicParse   == ptransport = "quic"   /\ ParseEntry
WsParse     == ptransport = "ws"     /\ ParseEntry
WsMuxParse  == ptransport = "wsmux"  /\ ParseEntry
UdpParse    == ptransport = "udp"    /\ ParseEntry

(* localListener: bound, or fatal when the port is taken or the host is not *)
(* this machine's.                                                          *)
BindListener ==
  /\ pfatal = "no"
  /\ \E x \in pending :
       /\ pending' = pending \ {x}
       /\ IF x.l.host = Away \/ \E y \in bound : Clash(x.l, y.l)
          THEN pfatal' = "bind" /\ UNCHANGED bound
          ELSE bound' = bound \cup {x} /\ UNCHANGED pfatal
  /\ UNCHANGED <<ptransport, pspecs, pnext, stale, pruns>>

TcpListen    == ptransport = "tcp"    /\ BindListener
TcpMuxListen == ptransport = "tcpmux" /\ BindListener
KcpListen    == ptransport = "kcp"    /\ BindListener
QuicListen   == ptransport = "quic"   /\ BindListener
WsListen     == ptransport = "ws"     /\ BindListener
WsMuxListen  == ptransport = "wsmux"  /\ BindListener
UdpListen    == ptransport = "udp"    /\ BindListener

(* The run ends and the next begins.  A range takes a millisecond a port    *)
(* and never looks at the run's context: a wide one is still being walked   *)
(* after Restart's two seconds.                                             *)
PortRestart ==
  /\ pfatal = "no" /\ pruns < PMaxRuns /\ pnext > 1
  /\ pruns' = pruns + 1
  /\ bound' = {} /\ pending' = {} /\ pnext' = 1
  /\ stale' = stale \cup {x \in pending : Dashed(pspecs[x.entry].left)}
  /\ UNCHANGED <<ptransport, pspecs, pfatal>>

(* A listener of an earlier run is bound and closed at once.  It is fatal   *)
(* against one of this run, and so may be one that this run starts before   *)
(* it is closed.                                                            *)
StaleListen ==
  /\ pfatal = "no"
  /\ \E x \in stale :
       /\ stale' = stale \ {x}
       /\ \/ pfatal' = "no" /\ \A y \in bound : ~Clash(x.l, y.l)
          \/ pfatal' = "stale" /\ \E y \in bound \cup pending : Clash(x.l, y.l)
  /\ UNCHANGED <<ptransport, pspecs, pnext, pending, bound, pruns>>

PortNext ==
  \/ TcpParse \/ TcpMuxParse \/ KcpParse \/ QuicParse \/ WsParse \/ WsMuxParse \/ UdpParse
  \/ TcpListen \/ TcpMuxListen \/ KcpListen \/ QuicListen \/ WsListen \/ WsMuxListen \/ UdpListen
  \/ PortRestart \/ StaleListen

PortSpec == PortInit /\ [][PortNext]_pvars

-----------------------------------------------------------------------------
(* ResolveRemoteAddr on the client: the backends a target stands for, in    *)
(* order, empty when it cannot be read.  A target without a host, before a  *)
(* colon or without one, is dialled on the client itself.  What follows the *)
(* first colon is taken for the port, and in an IPv6 address it is not one. *)
Backend(host, n) == [host |-> host, port |-> n]
Own == "127.0.0.1"

targetAddr(p, n) == Backend(IF p.host = NoHost THEN Own ELSE p.host, n)

ResolveRemoteAddr(to) ==
  IF to.host = Six THEN <<>>
  ELSE CASE to.form = "port" -> <<Backend(Own, to.lo)>>
         [] to.form = "addr" -> <<targetAddr(to, to.lo)>>
         [] to.form = "alts" -> <<targetAddr(to, to.lo), targetAddr(to, to.hi)>>
         [] OTHER            -> <<>>

(* portmap.go.  parsePortRange of a piece: the span it names is usable.     *)
parsePortRange(p) ==
  CASE p.form \in {"port", "addr"}        -> validPort(p.lo)
    [] p.form \in {"range", "addrrange"} -> /\ validPort(p.lo) /\ validPort(p.hi) /\ p.lo <= p.hi
                                            /\ p.hi - p.lo + 1 <= PPerMapping
    [] OTHER                              -> FALSE

Span(p) == IF p.form \in {"range", "addrrange"} THEN p.hi - p.lo + 1 ELSE 1

(* One listener for each port of the left side, ranges keeping the offset.  *)
Spread(listen, to) ==
  {Listener(listen.host, listen.lo + i,
            <<targetAddr(to, IF Span(to) > 1 THEN to.lo + i ELSE to.lo)>>) : i \in 0..Span(listen) - 1}

expandOne(listen, to) ==
  IF to.form = "alts"
  THEN IF Span(listen) = 1 /\ validPort(to.lo) /\ validPort(to.hi)
       THEN {Listener(listen.host, listen.lo, <<targetAddr(to, to.lo), targetAddr(to, to.hi)>>)}
       ELSE {}
  ELSE IF parsePortRange(to) /\ (Span(to) > 1 => Span(to) = Span(listen))
       THEN Spread(listen, to)
       ELSE {}

(* Without a target the left side's ports are the target's, its host not.   *)
Expand(e) ==
  IF Len(e.rights) > 1 \/ ~parsePortRange(e.left) THEN {}
  ELSE IF e.rights = <<>>
       THEN expandOne(e.left, [e.left EXCEPT !.host = NoHost])
       ELSE expandOne(e.left, e.rights[1])

-----------------------------------------------------------------------------
PortTypeOK ==
  /\ ptransport \in PTransports /\ pnext \in 1..3 /\ pruns \in 0..PMaxRuns /\ pfatal \in {"no", "entry", "bind", "stale"}
  /\ \A x \in pending \cup bound \cup stale : x.entry \in 1..Len(pspecs) /\ x.l.port \in 0..PMax

(* Two entries of the list ask for one port.                                *)
Overlap ==
  \E i, j \in DOMAIN pspecs :
    i # j /\ \E k \in Listeners(pspecs[i]), l \in Listeners(pspecs[j]) : Clash(k, l)

(* An entry that passes validPortSpec, with one "=" at most and no dash in  *)
(* its host, ends the engine in no transport by how it is written: it exits *)
(* on a list that asks twice for one port, on a host that is not this       *)
(* machine's, or on a Restart that finds a range of the run before still    *)
(* being walked.                                                            *)
ValidatedStarts ==
  (\A i \in DOMAIN pspecs : /\ validPortSpec(pspecs[i]) /\ Len(pspecs[i].rights) <= 1
                            /\ pspecs[i].left.host # "dash")
  => /\ pfatal # "entry"
     /\ pfatal = "bind" => Overlap \/ \E i \in DOMAIN pspecs : pspecs[i].left.host = Away
     /\ pfatal = "stale" => pruns > 0 /\ \E i \in DOMAIN pspecs : Dashed(pspecs[i].left)

(* A target only Expand can read: a range of ports, or an IPv6 address.     *)
OnlyExpanded(e) == e.rights # <<>> /\ (e.rights[1].form \in {"range", "addrrange"} \/ e.rights[1].host = Six)

(* An entry the reverse tunnel runs with and Expand accepts reads the same  *)
(* in the direct and layer-3 tunnels: the same ports listened on, each with *)
(* the same backends.  The exceptions are the targets whose connections the *)
(* reverse tunnel's client refuses one by one: it never dials another       *)
(* backend than Expand names.                                               *)
SyntaxAgrees ==
  \A x \in bound :
    LET e  == pspecs[x.entry]
        to == ResolveRemoteAddr(x.l.to)
    IN validPortSpec(e) /\ Expand(e) # {}
       => IF OnlyExpanded(e) THEN to = <<>> ELSE Listener(x.l.host, x.l.port, to) \in Expand(e)
=============================================================================
