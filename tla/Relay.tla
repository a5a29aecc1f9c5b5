-------------------------------- MODULE Relay --------------------------------
(***************************************************************************)
(* The relay that carries one forwarded connection, at either end of a     *)
(* tunnel: two copies, one for each direction, and the goroutine that      *)
(* waits for them and owns the connection's slot.                          *)
(*                                                                         *)
(* A relay is of one kind: "buffered" or "splice" (TCPConnectionHandler),  *)
(* "ws" (WSConnectionHandler), "flow" (the client's UDPForward) or "udp"   *)
(* (the udp transport's localDialer).  Data are numbered chunks.           *)
(***************************************************************************)
EXTENDS Integers, Sequences

CONSTANTS
  Kinds,      \* the kinds of relay a behaviour may be of
  MaxChunks   \* bound: chunks each peer sends

ASSUME ChunksAssumption == MaxChunks \in Nat

Ends       == {"local", "tunnel"}
Directions == {"up", "down"}
From(d)    == IF d = "up" THEN "local" ELSE "tunnel"
To(d)      == IF d = "up" THEN "tunnel" ELSE "local"
Datagram   == {"flow", "udp"}

VARIABLES
  relayKind,   \* chosen once
  relaySent,        \* what the peer at each end has sent so far
  gone,        \* the ends whose peer has closed
  closed,      \* the ends this side has closed
  copy,        \* each copy: "start", "splicing", "copying", "done"
  taken,       \* how much each copy has read
  held,        \* what it has read and not written: its buffer, or its pipe
  out,         \* what it has written
  why,         \* how it ended
  cancelled,   \* ctx
  owner        \* "waiting", "closing", "returned"

relayVars == <<relayKind, relaySent, gone, closed, copy, taken, held, out, why, cancelled, owner>>

RelayInit ==
  /\ relayKind \in Kinds
  /\ relaySent = [e \in Ends |-> 0]
  /\ gone = {} /\ closed = {}
  /\ copy = [d \in Directions |-> "start"]
  /\ taken = [d \in Directions |-> 0]
  /\ held = [d \in Directions |-> <<>>]
  /\ out = [d \in Directions |-> <<>>]
  /\ why = [d \in Directions |-> "running"]
  /\ cancelled = FALSE
  /\ owner = "waiting"

-----------------------------------------------------------------------------
(* The peers and the context. *)

PeerSends(e) ==
  /\ e \notin gone /\ relaySent[e] < MaxChunks
  /\ relaySent' = [relaySent EXCEPT ![e] = @ + 1]
  /\ UNCHANGED <<relayKind, gone, closed, copy, taken, held, out, why, cancelled, owner>>

(* A UDP backend has no close.                                              *)
PeerCloses(e) ==
  /\ e \notin gone
  /\ relayKind \notin Datagram \/ (relayKind = "flow" /\ e = "tunnel")
  /\ gone' = gone \cup {e}
  /\ UNCHANGED <<relayKind, relaySent, closed, copy, taken, held, out, why, cancelled, owner>>

(* The run ends.  UDPForward does not watch it; tunnelDialer of the udp     *)
(* transport closes the tunnel's socket.                                    *)
RelayCancel ==
  /\ ~cancelled /\ cancelled' = TRUE
  /\ closed' = IF relayKind = "udp" THEN closed \cup {"tunnel"} ELSE closed
  /\ UNCHANGED <<relayKind, relaySent, gone, copy, taken, held, out, why, owner>>

-----------------------------------------------------------------------------
(* A copy. *)

(* spliceTransfer declines, or the kernel does before anything has moved;   *)
(* the buffered loop starts from the same place.                            *)
Starts(d) ==
  /\ copy[d] = "start"
  /\ \E st \in {"copying"} \cup (IF relayKind = "splice" THEN {"splicing"} ELSE {}) :
       copy' = [copy EXCEPT ![d] = st]
  /\ UNCHANGED <<relayKind, relaySent, gone, closed, taken, held, out, why, cancelled, owner>>

Declines(d) ==
  /\ copy[d] = "splicing" /\ taken[d] = 0
  /\ copy' = [copy EXCEPT ![d] = "copying"]
  /\ UNCHANGED <<relayKind, relaySent, gone, closed, taken, held, out, why, cancelled, owner>>

Running(d) == copy[d] \in {"copying", "splicing"}

overlapMutant(d) == Running(d)

(* The next read waits until everything read before is written.             *)
Drained(d) == Running(d) /\ held[d] = <<>>

(* Read or spliceDrain: any part of what has arrived, one message of ws and *)
(* one datagram at a time.                                                  *)
Reads(d, n) ==
  /\ Drained(d) /\ From(d) \notin closed
  /\ n > 0 /\ taken[d] + n <= relaySent[From(d)]
  /\ relayKind \in {"ws"} \cup Datagram => n = 1
  /\ held' = [held EXCEPT ![d] = @ \o [i \in 1 .. n |-> taken[d] + i]]
  /\ taken' = [taken EXCEPT ![d] = @ + n]
  /\ UNCHANGED <<relayKind, relaySent, gone, closed, copy, out, why, cancelled, owner>>

(* Write or splicePump: a part of what is held.                             *)
Writes(d, n) ==
  /\ Running(d) /\ n \in 1 .. Len(held[d])
  /\ To(d) \notin closed \cup gone
  /\ out' = [out EXCEPT ![d] = @ \o SubSeq(held[d], 1, n)]
  /\ held' = [held EXCEPT ![d] = SubSeq(@, n + 1, Len(@))]
  /\ UNCHANGED <<relayKind, relaySent, gone, closed, copy, taken, why, cancelled, owner>>

(* A copy that ends closes both ends, except in the udp transport.          *)
Finish(d, reason) ==
  /\ copy' = [copy EXCEPT ![d] = "done"]
  /\ why' = [why EXCEPT ![d] = reason]
  /\ closed' = IF relayKind = "udp" THEN closed ELSE Ends
  /\ UNCHANGED <<relayKind, relaySent, gone, taken, held, out, cancelled, owner>>

ReadEnds(d) ==
  /\ Drained(d)
  /\ \/ From(d) \in closed /\ Finish(d, "closed")
     \/ /\ From(d) \in gone \ closed /\ taken[d] = relaySent[From(d)]
        /\ Finish(d, "eof")

WriteFails(d) ==
  /\ Running(d) /\ held[d] # <<>>
  /\ To(d) \in closed \cup gone
  /\ Finish(d, "failed")

(* A minute with nothing to read from a UDP socket.                         *)
Idles(d) ==
  /\ relayKind = "udp" \/ (relayKind = "flow" /\ d = "up")
  /\ Drained(d) /\ taken[d] = relaySent[From(d)]
  /\ Finish(d, "idle")

CopyStep(d) ==
  \/ Starts(d) \/ Declines(d) \/ ReadEnds(d) \/ WriteFails(d) \/ Idles(d)
  \/ \E n \in 1 .. MaxChunks : Reads(d, n) \/ Writes(d, n)

-----------------------------------------------------------------------------
(* awaitRelay, and the ends of UDPForward and localDialer. *)

(* The first copy to end, or the context, closes both ends.                 *)
FirstEnds ==
  /\ owner = "waiting"
  /\ relayKind # "udp"
  /\ (cancelled /\ relayKind # "flow") \/ \E d \in Directions : copy[d] = "done"
  /\ owner' = "closing" /\ closed' = Ends
  /\ UNCHANGED <<relayKind, relaySent, gone, copy, taken, held, out, why, cancelled>>

BothDone == \A d \in Directions : copy[d] = "done"

Returns ==
  /\ owner = (IF relayKind = "udp" THEN "waiting" ELSE "closing")
  /\ BothDone
  /\ owner' = "returned" /\ closed' = Ends
  /\ UNCHANGED <<relayKind, relaySent, gone, copy, taken, held, out, why, cancelled>>

RelayNext ==
  \/ \E e \in Ends : PeerSends(e) \/ PeerCloses(e)
  \/ RelayCancel \/ FirstEnds \/ Returns
  \/ \E d \in Directions : CopyStep(d)

RelayFairness ==
  /\ \A d \in Directions : WF_relayVars(CopyStep(d))
  /\ WF_relayVars(FirstEnds \/ Returns)

RelaySpec == RelayInit /\ [][RelayNext]_relayVars /\ RelayFairness

-----------------------------------------------------------------------------
(* Properties. *)

RelayTypeOK ==
  /\ relayKind \in Kinds /\ gone \subseteq Ends /\ closed \subseteq Ends
  /\ relaySent \in [Ends -> 0 .. MaxChunks]
  /\ copy \in [Directions -> {"start", "splicing", "copying", "done"}]
  /\ taken \in [Directions -> 0 .. MaxChunks]
  /\ \A d \in Directions : Len(held[d]) + Len(out[d]) <= MaxChunks
  /\ owner \in {"waiting", "closing", "returned"}

(* What arrives is what was sent, in order, without a gap or a repeat, also *)
(* when the zero-copy path hands over to the buffered one; and a copy that  *)
(* saw the end of its stream has delivered all of it.                       *)
RelayFaithful ==
  \A d \in Directions :
    /\ out[d] = [i \in 1 .. Len(out[d]) |-> i]
    /\ why[d] = "eof" => Len(out[d]) = relaySent[From(d)]

(* When the owner gives the slot back nothing of the connection is left:    *)
(* both copies have ended and both ends are closed.                         *)
QuietReturn ==
  owner = "returned" => closed = Ends /\ \A d \in Directions : copy[d] = "done"

(* A peer that closes ends the relay, and so does the end of the run, even  *)
(* if the other side never says a word.                                     *)
RelayReturns ==
  (gone # {} \/ (cancelled /\ relayKind # "flow")) ~> owner = "returned"
=============================================================================
