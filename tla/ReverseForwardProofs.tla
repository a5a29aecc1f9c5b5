------------------------ MODULE ReverseForwardProofs ------------------------
(***************************************************************************)
(* What the forwarding side of a reverse tunnel's server keeps, for any    *)
(* number of connections, pool connections, peers and loops, any limit,    *)
(* queue size and streams per session, and any number of restarts: its     *)
(* types, the connection limit, one reader for each flow, and the streams  *)
(* of a session.  Before it, what the relay of one connection keeps.       *)
(***************************************************************************)
EXTENDS MCForwardLive, FiniteSetTheorems, TLAPS

-----------------------------------------------------------------------------
(* Relay: what a relay has written is the beginning of what was sent, and   *)
(* what it holds is what comes next.                                        *)

Reasons == {"running", "closed", "eof", "failed", "idle"}

RelayTypes ==
  /\ relayKind \in Kinds /\ gone \in SUBSET Ends /\ closed \in SUBSET Ends
  /\ relaySent \in [Ends -> 0 .. MaxChunks]
  /\ copy \in [Directions -> {"start", "splicing", "copying", "done"}]
  /\ taken \in [Directions -> 0 .. MaxChunks]
  /\ held \in [Directions -> Seq(Nat)] /\ out \in [Directions -> Seq(Nat)]
  /\ why \in [Directions -> Reasons]
  /\ owner \in {"waiting", "closing", "returned"}

(* The chunks a copy has read, in the order they were sent: first those it  *)
(* has written, then those it holds.                                        *)
InOrder(d) ==
  /\ \A i \in 1 .. Len(out[d]) : out[d][i] = i
  /\ \A i \in 1 .. Len(held[d]) : held[d][i] = Len(out[d]) + i
  /\ Len(out[d]) + Len(held[d]) = taken[d]
  /\ taken[d] <= relaySent[From(d)]

(* A copy that saw the end of its stream has ended with nothing in hand,    *)
(* and the peer it read from will send no more.                             *)
EofIsLast(d) ==
  why[d] = "eof" => /\ copy[d] = "done" /\ From(d) \in gone
                    /\ Len(out[d]) = relaySent[From(d)]

RelayInv == RelayTypes /\ QuietReturn /\ \A d \in Directions : InOrder(d) /\ EofIsLast(d)

LEMMA DirectionEnds == \A d \in Directions : From(d) \in Ends /\ To(d) \in Ends
  BY DEF Directions, From, To, Ends

LEMMA RelayFacts ==
  ASSUME RelayInv, NEW d \in Directions
  PROVE  /\ held[d] \in Seq(Nat) /\ out[d] \in Seq(Nat)
         /\ Len(held[d]) \in Nat /\ Len(out[d]) \in Nat
         /\ taken[d] \in 0 .. MaxChunks /\ taken[d] \in Nat
         /\ relaySent[From(d)] \in 0 .. MaxChunks /\ relaySent[From(d)] \in Nat
         /\ InOrder(d) /\ EofIsLast(d)
BY ChunksAssumption, DirectionEnds DEF RelayInv, RelayTypes

LEMMA RelayStarts == ASSUME RelayInit PROVE RelayInv
<1>1. RelayTypes
  BY ChunksAssumption DEF RelayInit, RelayTypes, Reasons
<1>2. \A d \in Directions : InOrder(d) /\ EofIsLast(d)
  BY DirectionEnds DEF RelayInit, InOrder, EofIsLast
<1> QED
  BY <1>1, <1>2 DEF RelayInit, RelayInv, QuietReturn

LEMMA PeerSendsKeeps ==
  ASSUME RelayInv, NEW e \in Ends, PeerSends(e) PROVE RelayInv'
<1>1. RelayTypes'
  BY ChunksAssumption DEF RelayInv, RelayTypes, PeerSends
<1>2. ASSUME NEW d \in Directions PROVE InOrder(d)' /\ EofIsLast(d)'
  <2>1. InOrder(d) /\ EofIsLast(d) /\ From(d) \in Ends
    BY DirectionEnds DEF RelayInv
  <2>2. relaySent[From(d)] \in Nat /\ relaySent'[From(d)] >= relaySent[From(d)]
    BY <2>1, ChunksAssumption DEF RelayInv, RelayTypes, PeerSends
  <2>3. From(d) \in gone => relaySent'[From(d)] = relaySent[From(d)]
    BY <2>1 DEF RelayInv, RelayTypes, PeerSends
  <2>4. taken[d] \in Nat /\ relaySent'[From(d)] \in Nat
    BY <1>1, <2>1, ChunksAssumption DEF RelayInv, RelayTypes
  <2>5. UNCHANGED <<gone, copy, taken, held, out, why>>
    BY DEF PeerSends
  <2>6. taken[d] <= relaySent'[From(d)]
    BY <2>1, <2>2, <2>4 DEF InOrder
  <2>7. InOrder(d)'
    BY <2>1, <2>5, <2>6 DEF InOrder
  <2> QED
    BY <2>1, <2>3, <2>5, <2>7 DEF EofIsLast
<1> QED
  BY <1>1, <1>2 DEF RelayInv, QuietReturn, PeerSends

(* Steps that move no data: a peer closes, the run ends, a copy starts or   *)
(* falls back, the owner closes both ends or returns.                       *)
LEMMA QuietStepKeeps ==
  ASSUME RelayInv, RelayTypes', QuietReturn',
         UNCHANGED <<relaySent, taken, held, out, why>>, gone \subseteq gone',
         \A d \in Directions : copy[d] = "done" => copy'[d] = "done"
  PROVE  RelayInv'
<1>1. ASSUME NEW d \in Directions PROVE InOrder(d)' /\ EofIsLast(d)'
  BY DEF RelayInv, InOrder, EofIsLast
<1> QED
  BY <1>1 DEF RelayInv

LEMMA PeerClosesKeeps ==
  ASSUME RelayInv, NEW e \in Ends, PeerCloses(e) PROVE RelayInv'
<1>1. RelayTypes'
  BY DEF RelayInv, RelayTypes, PeerCloses
<1> QED
  BY <1>1, QuietStepKeeps DEF RelayInv, QuietReturn, PeerCloses

LEMMA RelayCancelKeeps == ASSUME RelayInv, RelayCancel PROVE RelayInv'
<1>1. RelayTypes'
  BY DEF RelayInv, RelayTypes, RelayCancel, Ends
<1>2. QuietReturn'
  BY DEF RelayInv, QuietReturn, RelayCancel, Ends
<1> QED
  BY <1>1, <1>2, QuietStepKeeps DEF RelayCancel

LEMMA StartKeeps ==
  ASSUME RelayInv, NEW d \in Directions, Starts(d) \/ Declines(d) PROVE RelayInv'
<1>1. PICK st \in {"copying", "splicing"} :
        copy' = [copy EXCEPT ![d] = st] /\ copy[d] # "done"
  BY DEF Starts, Declines
<1>2. UNCHANGED <<relayKind, relaySent, gone, closed, taken, held, out, why, owner>>
  BY DEF Starts, Declines
<1>3. RelayTypes'
  BY <1>1, <1>2 DEF RelayInv, RelayTypes
<1>4. \A c \in Directions : copy[c] = "done" => copy'[c] = "done"
  BY <1>1 DEF RelayInv, RelayTypes
<1>5. QuietReturn'
  BY <1>2, <1>4 DEF RelayInv, QuietReturn
<1> QED
  BY <1>2, <1>3, <1>4, <1>5, QuietStepKeeps

LEMMA OwnerKeeps == ASSUME RelayInv, FirstEnds \/ Returns PROVE RelayInv'
<1>1. RelayTypes'
  BY DEF RelayInv, RelayTypes, FirstEnds, Returns
<1>2. QuietReturn'
  BY DEF RelayInv, QuietReturn, FirstEnds, Returns, BothDone
<1> QED
  BY <1>1, <1>2, QuietStepKeeps DEF FirstEnds, Returns

(* A copy ends; after the end of its stream it has written all of it.       *)
LEMMA FinishKeeps ==
  ASSUME RelayInv, NEW d \in Directions, NEW reason \in Reasons, Finish(d, reason),
         reason = "eof" => /\ held[d] = <<>> /\ From(d) \in gone
                           /\ taken[d] = relaySent[From(d)]
  PROVE  RelayInv'
<1>1. RelayTypes'
  BY DEF RelayInv, RelayTypes, Finish, Ends
<1>2. \A c \in Directions : copy[c] = "done" => copy'[c] = "done"
  BY DEF RelayInv, RelayTypes, Finish
<1>3. QuietReturn'
  BY <1>2 DEF RelayInv, QuietReturn, Finish
<1>4. ASSUME NEW c \in Directions PROVE InOrder(c)' /\ EofIsLast(c)'
  <2>1. InOrder(c)'
    BY DEF RelayInv, InOrder, Finish
  <2>2. CASE c = d
    <3>1. copy'[d] = "done" /\ why'[d] = reason
      BY DEF RelayInv, RelayTypes, Finish
    <3>2. ASSUME reason = "eof" PROVE Len(out[d]) = relaySent[From(d)]
      <4>1. Len(held[d]) = 0
        BY <3>2
      <4>2. Len(out[d]) \in Nat /\ Len(out[d]) + Len(held[d]) = taken[d]
        BY RelayFacts DEF InOrder
      <4> QED
        BY <3>2, <4>1, <4>2
    <3> QED
      BY <2>1, <2>2, <3>1, <3>2 DEF EofIsLast, Finish
  <2>3. CASE c # d
    BY <2>1, <2>3 DEF RelayInv, RelayTypes, EofIsLast, Finish
  <2> QED
    BY <2>2, <2>3, <2>1
<1> QED
  BY <1>1, <1>3, <1>4 DEF RelayInv

LEMMA EndKeeps ==
  ASSUME RelayInv, NEW d \in Directions, ReadEnds(d) \/ WriteFails(d) \/ Idles(d)
  PROVE  RelayInv'
<1>1. \/ \E r \in Reasons \ {"eof"} : Finish(d, r)
      \/ /\ Finish(d, "eof") /\ held[d] = <<>> /\ From(d) \in gone
         /\ taken[d] = relaySent[From(d)]
  BY DEF ReadEnds, WriteFails, Idles, Drained, Reasons
<1> QED
  BY <1>1, FinishKeeps DEF Reasons

LEMMA ReadsKeeps ==
  ASSUME RelayInv, NEW d \in Directions, NEW n \in 1 .. MaxChunks, Reads(d, n)
  PROVE  RelayInv'
<1> DEFINE more == [i \in 1 .. n |-> taken[d] + i]
<1>0. n \in Nat /\ n > 0 /\ taken[d] \in Nat /\ From(d) \in Ends
  BY ChunksAssumption, DirectionEnds DEF RelayInv, RelayTypes
<1>1. more \in Seq(Nat) /\ Len(more) = n /\ \A i \in 1 .. n : more[i] = taken[d] + i
  BY <1>0
<1> HIDE DEF more
<1>2. held[d] = <<>> /\ held' = [held EXCEPT ![d] = held[d] \o more]
  BY DEF Reads, Drained, more
<1>2a. held[d] \o more = more
  BY <1>1, <1>2
<1>3. held'[d] = more
  BY <1>2, <1>2a DEF RelayInv, RelayTypes
<1>4. taken'[d] = taken[d] + n /\ taken[d] + n <= relaySent[From(d)]
  BY DEF Reads, RelayInv, RelayTypes
<1>5. relaySent[From(d)] \in 0 .. MaxChunks
  BY <1>0 DEF RelayInv, RelayTypes
<1>6. RelayTypes'
  <2>1. taken' \in [Directions -> 0 .. MaxChunks]
    <3>1. taken[d] + n \in 0 .. MaxChunks
      BY <1>0, <1>4, <1>5, ChunksAssumption
    <3> QED
      BY <3>1 DEF RelayInv, RelayTypes, Reads
  <2>2. held' \in [Directions -> Seq(Nat)]
    BY <1>1, <1>2, <1>2a DEF RelayInv, RelayTypes
  <2> QED
    BY <2>1, <2>2 DEF RelayInv, RelayTypes, Reads
<1>7. ASSUME NEW c \in Directions PROVE InOrder(c)' /\ EofIsLast(c)'
  <2>1. CASE c = d
    <3>1. Len(out[d]) = taken[d]
      <4>1. Len(out[d]) \in Nat /\ Len(out[d]) + Len(held[d]) = taken[d]
        BY RelayFacts DEF InOrder
      <4>2. Len(held[d]) = 0
        BY <1>2
      <4> QED
        BY <4>1, <4>2
    <3>2. InOrder(d)'
      BY <1>0, <1>1, <1>3, <1>4, <3>1 DEF RelayInv, InOrder, Reads
    <3>3. why[d] # "eof"
      BY DEF RelayInv, EofIsLast, Reads, Drained, Running
    <3> QED
      BY <2>1, <3>2, <3>3 DEF EofIsLast, Reads
  <2>2. CASE c # d
    BY <2>2 DEF RelayInv, RelayTypes, InOrder, EofIsLast, Reads
  <2> QED
    BY <2>1, <2>2
<1> QED
  BY <1>6, <1>7 DEF RelayInv, QuietReturn, Reads

LEMMA WritesKeeps ==
  ASSUME RelayInv, NEW d \in Directions, NEW n \in 1 .. MaxChunks, Writes(d, n)
  PROVE  RelayInv'
<1> DEFINE first == SubSeq(held[d], 1, n)
           rest  == SubSeq(held[d], n + 1, Len(held[d]))
<1>0. /\ held[d] \in Seq(Nat) /\ out[d] \in Seq(Nat) /\ n \in 1 .. Len(held[d])
      /\ Len(held[d]) \in Nat /\ Len(out[d]) \in Nat /\ n \in Nat
  BY ChunksAssumption DEF RelayInv, RelayTypes, Writes
<1>1. first \in Seq(Nat) /\ Len(first) = n /\ \A i \in 1 .. n : first[i] = held[d][i]
  BY <1>0
<1>2. /\ rest \in Seq(Nat) /\ Len(rest) = Len(held[d]) - n
      /\ \A i \in 1 .. Len(held[d]) - n : rest[i] = held[d][n + i]
  BY <1>0
<1> HIDE DEF first, rest
<1>3. out'[d] = out[d] \o first /\ held'[d] = rest
  BY DEF RelayInv, RelayTypes, Writes, first, rest
<1>4. /\ out[d] \o first \in Seq(Nat) /\ Len(out[d] \o first) = Len(out[d]) + n
      /\ \A i \in 1 .. Len(out[d]) : (out[d] \o first)[i] = out[d][i]
      /\ \A i \in 1 .. n : (out[d] \o first)[Len(out[d]) + i] = first[i]
  BY <1>0, <1>1
<1>5. RelayTypes'
  <2>1. out' \in [Directions -> Seq(Nat)] /\ held' \in [Directions -> Seq(Nat)]
    BY <1>2, <1>4 DEF RelayInv, RelayTypes, Writes, first, rest
  <2> QED
    BY <2>1 DEF RelayInv, RelayTypes, Writes
<1>6. ASSUME NEW c \in Directions PROVE InOrder(c)' /\ EofIsLast(c)'
  <2>1. CASE c = d
    <3>1. InOrder(d)
      BY DEF RelayInv
    <3>2. ASSUME NEW i \in 1 .. Len(out[d]) + n PROVE (out[d] \o first)[i] = i
      <4>0. i \in Int /\ Len(out[d]) \in Int
        BY <1>0
      <4>1. CASE i <= Len(out[d])
        BY <4>1, <3>1, <1>0, <1>4 DEF InOrder
      <4>2. CASE i > Len(out[d])
        <5>1. i - Len(out[d]) \in 1 .. n /\ i = Len(out[d]) + (i - Len(out[d]))
          BY <4>2, <1>0
        <5>2. (out[d] \o first)[i] = held[d][i - Len(out[d])]
          BY <5>1, <1>1, <1>4
        <5>3. \A j \in 1 .. Len(held[d]) : held[d][j] = Len(out[d]) + j
          BY <3>1 DEF InOrder
        <5>4. i - Len(out[d]) \in 1 .. Len(held[d])
          BY <5>1, <1>0
        <5> QED
          BY <5>1, <5>2, <5>3, <5>4
      <4>3. i <= Len(out[d]) \/ i > Len(out[d])
        BY <4>0
      <4> QED
        BY <4>1, <4>2, <4>3
    <3>3. ASSUME NEW i \in 1 .. Len(held[d]) - n PROVE rest[i] = Len(out[d]) + n + i
      <4>1. n + i \in 1 .. Len(held[d])
        BY <1>0
      <4> QED
        BY <4>1, <3>1, <1>0, <1>2 DEF InOrder
    <3>4. /\ taken'[d] = taken[d] /\ relaySent' = relaySent /\ taken[d] \in Nat
      BY ChunksAssumption DEF RelayInv, RelayTypes, Writes
    <3>5. InOrder(d)'
      <4>1. Len(out'[d]) = Len(out[d]) + n /\ Len(held'[d]) = Len(held[d]) - n
        BY <1>2, <1>3, <1>4
      <4>2. \A i \in 1 .. Len(out'[d]) : out'[d][i] = i
        BY <1>3, <3>2, <4>1
      <4>3. \A i \in 1 .. Len(held'[d]) : held'[d][i] = Len(out'[d]) + i
        BY <1>3, <3>3, <4>1
      <4>4. /\ Len(out'[d]) + Len(held'[d]) = taken'[d]
            /\ taken'[d] <= relaySent'[From(d)]
        <5>1. Len(out[d]) + Len(held[d]) = taken[d] /\ taken[d] <= relaySent[From(d)]
          BY <3>1 DEF InOrder
        <5>0. \A a, b, k \in Nat : (a + k) + (b - k) = a + b
          OBVIOUS
        <5>2. (Len(out[d]) + n) + (Len(held[d]) - n) = Len(out[d]) + Len(held[d])
          BY <1>0, <5>0, Zenon
        <5> QED
          BY <5>1, <5>2, <3>4, <4>1
      <4> QED
        BY <4>2, <4>3, <4>4 DEF InOrder
    <3>6. why'[d] # "eof"
      BY DEF RelayInv, EofIsLast, Writes, Running
    <3> QED
      BY <2>1, <3>5, <3>6 DEF EofIsLast
  <2>2. CASE c # d
    BY <2>2 DEF RelayInv, RelayTypes, InOrder, EofIsLast, Writes
  <2> QED
    BY <2>1, <2>2
<1> QED
  BY <1>5, <1>6 DEF RelayInv, QuietReturn, Writes

LEMMA RelayStepKeeps == ASSUME RelayInv, RelayNext PROVE RelayInv'
<1>1. ASSUME NEW e \in Ends, PeerSends(e) \/ PeerCloses(e) PROVE RelayInv'
  BY <1>1, PeerSendsKeeps, PeerClosesKeeps
<1>2. CASE RelayCancel \/ FirstEnds \/ Returns
  BY <1>2, RelayCancelKeeps, OwnerKeeps
<1>3. ASSUME NEW d \in Directions, CopyStep(d) PROVE RelayInv'
  BY <1>3, StartKeeps, EndKeeps, ReadsKeeps, WritesKeeps DEF CopyStep
<1> QED
  BY <1>1, <1>2, <1>3 DEF RelayNext

LEMMA RelayGives == ASSUME RelayInv PROVE RelayIsRight
<1>1. RelayTypeOK
  <2>1. ASSUME NEW d \in Directions PROVE Len(held[d]) + Len(out[d]) <= MaxChunks
    <3>1. Len(out[d]) + Len(held[d]) = taken[d]
      BY RelayFacts DEF InOrder
    <3>2. Len(out[d]) \in Nat /\ Len(held[d]) \in Nat /\ taken[d] \in 0 .. MaxChunks
      BY RelayFacts
    <3>3. \A a, b \in Nat : \A t \in 0 .. MaxChunks : b + a = t => a + b <= MaxChunks
      BY ChunksAssumption
    <3> QED
      BY <3>1, <3>2, <3>3, Zenon
  <2> QED
    BY <2>1 DEF RelayInv, RelayTypes, RelayTypeOK
<1>2. RelayFaithful
  <2>1. ASSUME NEW d \in Directions PROVE out[d] = [i \in 1 .. Len(out[d]) |-> i]
    BY DEF RelayInv, RelayTypes, InOrder
  <2> QED
    BY <2>1 DEF RelayFaithful, RelayInv, EofIsLast
<1> QED
  BY <1>1, <1>2 DEF RelayIsRight, RelayInv

(* TCPConnectionHandler, WSConnectionHandler, the zero-copy path, UDPForward *)
(* and localDialer: whatever the peers, the context and the two copies do   *)
(* and in whatever order, a relay hands on a beginning of what was sent     *)
(* without gap or repeat, all of it when it saw the end, and leaves nothing *)
(* open when it returns; for any number of chunks.                          *)
THEOREM RelayStaysRight == HalfSpec => []RelayIsRight
<1>1. HalfInit => RelayInv
  BY RelayStarts DEF HalfInit
<1>2. RelayInv /\ [HalfNext]_<<half, vars, relayVars>> => RelayInv'
  <2> SUFFICES ASSUME RelayInv, [HalfNext]_<<half, vars, relayVars>> PROVE RelayInv'
    OBVIOUS
  <2>1. CASE RelayNext
    BY <2>1, RelayStepKeeps
  <2>2. CASE UNCHANGED relayVars
    BY <2>2 DEF relayVars, RelayInv, RelayTypes, QuietReturn, InOrder, EofIsLast
  <2> QED
    BY <2>1, <2>2 DEF HalfNext
<1>3. RelayInv => RelayIsRight
  BY RelayGives
<1> QED
  BY <1>1, <1>2, <1>3, PTL DEF HalfSpec

-----------------------------------------------------------------------------
(* ReverseForward. *)

(* What is in a queue, and that nothing is in it twice.                     *)
Elems(c)    == {c[i] : i \in 1 .. Len(c)}
Distinct(c) == \A i, j \in 1 .. Len(c) : c[i] = c[j] => i = j

(* A connection is in one place: in the queue, in one loop's hand, or in    *)
(* the hands of one failed session; and a pool connection waits once.       *)
QueueOK ==
  /\ Distinct(localChannel) /\ \A l \in Elems(localChannel) : locals[l].st = "queued"
  /\ Distinct(tunnelChannel) /\ \A t \in Elems(tunnelChannel) : tunnels[t].st = "pooled"

HandOK ==
  /\ \A h \in Handlers : hands[h] # None => transport \notin Mux /\ locals[hands[h]].st = "held"
  /\ \A g, h \in Handlers : hands[g] = hands[h] /\ hands[h] # None => g = h

SessionOK ==
  /\ \A t \in Tunnels : tunnels[t].local # None => transport \in Mux /\ locals[tunnels[t].local].st = "held"
                                                   /\ tunnels[t].st \in {"serving", "failing"}
  /\ \A s, t \in Tunnels : tunnels[s].local = tunnels[t].local /\ tunnels[t].local # None => s = t

(* What is not let in is nobody's, and only what is carried has a carrier.  *)
RecordOK ==
  \A l \in Locals : /\ locals[l].st \in {"free", "refused", "left"} => locals[l].peer = None /\ ~locals[l].open
                    /\ locals[l].via # None => locals[l].st = "carried"

FlowOK == FlowIsRead /\ (run = "stopping" => \A p \in Peers : flows[p] = None)

(* Every connection let in, and every acceptor that has yet to lower the    *)
(* counter again, is counted: the counter may leak, and never falls short.  *)
Counted == {l \in Locals : locals[l].st # "free"}

CapOK ==
  /\ IsFiniteSet(Counted)
  /\ MaxConnections > 0 => Cardinality(Counted) <= active /\ Cardinality(Holders) <= MaxConnections

(* A session's counter covers its streams: places may be lost, not gained.  *)
Via(t) == {l \in Locals : locals[l].via = t}

StreamOK ==
  \A t \in Tunnels :
    /\ transport \in Mux => Cardinality(Via(t)) <= tunnels[t].count
    /\ transport \notin Mux => Cardinality(Via(t)) <= 1 /\ (Via(t) # {} => tunnels[t].st = "serving")

IInv == TypeOK /\ QueueOK /\ HandOK /\ SessionOK /\ RecordOK /\ FlowOK /\ CapOK /\ StreamOK

USE BoundAssumption, NameAssumption

-----------------------------------------------------------------------------
(* Queues. *)

LEMMA Appended ==
  ASSUME NEW S, NEW c \in Seq(S), NEW x \in S, Distinct(c), x \notin Elems(c)
  PROVE  /\ Append(c, x) \in Seq(S) /\ Len(Append(c, x)) = Len(c) + 1
         /\ Distinct(Append(c, x)) /\ Elems(Append(c, x)) = Elems(c) \cup {x}
<1> DEFINE d == Append(c, x)
<1>1. d \in Seq(S) /\ Len(d) = Len(c) + 1 /\ d[Len(c) + 1] = x /\ \A i \in 1 .. Len(c) : d[i] = c[i]
  OBVIOUS
<1> HIDE DEF d
<1>2. 1 .. Len(d) = (1 .. Len(c)) \cup {Len(c) + 1}
  BY <1>1
<1>3. Distinct(d)
  BY <1>1, <1>2 DEF Distinct, Elems
<1>4. Elems(d) = Elems(c) \cup {x}
  BY <1>1, <1>2 DEF Elems
<1> QED
  BY <1>1, <1>3, <1>4 DEF d

LEMMA Tailed ==
  ASSUME NEW S, NEW c \in Seq(S), c # <<>>, Distinct(c)
  PROVE  /\ Tail(c) \in Seq(S) /\ Len(Tail(c)) = Len(c) - 1
         /\ Distinct(Tail(c)) /\ Elems(Tail(c)) = Elems(c) \ {Head(c)}
         /\ Head(c) \in S /\ Head(c) \in Elems(c)
<1> DEFINE d == Tail(c)
<1>1. /\ d \in Seq(S) /\ Len(d) = Len(c) - 1 /\ \A i \in 1 .. Len(d) : d[i] = c[i + 1]
      /\ Head(c) = c[1] /\ Len(c) \in Nat /\ Len(c) > 0 /\ c[1] \in S
  OBVIOUS
<1> HIDE DEF d
<1>2. Distinct(d)
  BY <1>1 DEF Distinct
<1>3. Elems(d) = Elems(c) \ {Head(c)}
  <2>1. ASSUME NEW i \in 1 .. Len(d) PROVE d[i] \in Elems(c) /\ d[i] # c[1]
    BY <1>1 DEF Elems, Distinct
  <2>2. ASSUME NEW i \in 1 .. Len(c), c[i] # c[1] PROVE c[i] \in Elems(d)
    <3>1. i - 1 \in 1 .. Len(d) /\ d[i - 1] = c[i]
      BY <1>1, <2>2
    <3> QED
      BY <3>1 DEF Elems
  <2> QED
    BY <1>1, <2>1, <2>2 DEF Elems
<1>4. Head(c) \in Elems(c)
  BY <1>1 DEF Elems
<1> QED
  BY <1>1, <1>2, <1>3, <1>4 DEF d

LEMMA EmptyQueue == Distinct(<<>>) /\ Elems(<<>>) = {}
BY DEF Distinct, Elems

-----------------------------------------------------------------------------
(* What a step does to the sets that are counted. *)

LEMMA HoldersCounted == Holders \subseteq Counted
BY DEF Holders, Counted

LEMMA Finite ==
  ASSUME CapOK, TypeOK
  PROVE  /\ IsFiniteSet(Counted) /\ Cardinality(Counted) \in Nat
         /\ IsFiniteSet(Holders) /\ Cardinality(Holders) \in Nat
BY HoldersCounted, FS_Subset, FS_CardinalityType DEF CapOK

(* One local connection becomes d.                                          *)
LEMMA OneLocal ==
  ASSUME TypeOK, NEW l \in Locals, NEW d \in LocalType, locals' = [locals EXCEPT ![l] = d]
  PROVE  /\ locals' \in [Locals -> LocalType]
         /\ locals'[l] = d /\ \A k \in Locals : k # l => locals'[k] = locals[k]
         /\ d.st = "free" => Counted' = Counted \ {l}
         /\ d.st # "free" => Counted' = Counted \cup {l}
         /\ d.st \in {"queued", "held", "carried", "left"} => Holders' = Holders \cup {l}
         /\ d.st \notin {"queued", "held", "carried", "left"} => Holders' = Holders \ {l}
         /\ d.via = None => \A t \in Tunnels : Via(t)' = Via(t) \ {l}
         /\ d.via = locals[l].via => \A t \in Tunnels : Via(t)' = Via(t)
         /\ \A t \in Tunnels : d.via = t => Via(t)' = Via(t) \cup {l}
         /\ \A t \in Tunnels : d.via # t => Via(t)' = Via(t) \ {l}
<1>1. /\ locals' \in [Locals -> LocalType]
      /\ locals'[l] = d /\ \A k \in Locals : k # l => locals'[k] = locals[k]
  BY DEF TypeOK
<1>2. /\ d.st = "free" => Counted' = Counted \ {l}
      /\ d.st # "free" => Counted' = Counted \cup {l}
  BY <1>1 DEF Counted
<1>3. /\ d.st \in {"queued", "held", "carried", "left"} => Holders' = Holders \cup {l}
      /\ d.st \notin {"queued", "held", "carried", "left"} => Holders' = Holders \ {l}
  BY <1>1 DEF Holders
<1>4. /\ \A t \in Tunnels : d.via = t => Via(t)' = Via(t) \cup {l}
      /\ \A t \in Tunnels : d.via # t => Via(t)' = Via(t) \ {l}
  BY <1>1 DEF Via
<1>5. d.via = None => \A t \in Tunnels : Via(t)' = Via(t) \ {l}
  BY <1>4
<1>6. d.via = locals[l].via => \A t \in Tunnels : Via(t)' = Via(t)
  BY <1>1 DEF Via
<1> QED
  BY <1>1, <1>2, <1>3, <1>4, <1>5, <1>6

(* One pool connection becomes d.                                           *)
LEMMA OneTunnel ==
  ASSUME TypeOK, NEW t \in Tunnels, NEW d \in TunnelType, tunnels' = [tunnels EXCEPT ![t] = d]
  PROVE  /\ tunnels' \in [Tunnels -> TunnelType]
         /\ tunnels'[t] = d /\ \A s \in Tunnels : s # t => tunnels'[s] = tunnels[s]
BY DEF TypeOK

LEMMA FreeTypes ==
  /\ FreeLocal \in LocalType /\ FreeLocal.st = "free" /\ FreeLocal.peer = None /\ ~FreeLocal.open /\ FreeLocal.via = None
  /\ Abandoned \in LocalType /\ Abandoned.st = "left" /\ Abandoned.peer = None /\ ~Abandoned.open /\ Abandoned.via = None
  /\ FreeTunnel \in TunnelType /\ FreeTunnel.st = "free" /\ FreeTunnel.local = None /\ FreeTunnel.count = 0
BY DEF FreeLocal, Abandoned, FreeTunnel, LocalType, TunnelType

(* The limit: nothing more is counted ...                                   *)
LEMMA CapStays ==
  ASSUME TypeOK, CapOK, Counted' \subseteq Counted, Holders' \subseteq Holders, active' = active
  PROVE  CapOK'
<1>1. /\ IsFiniteSet(Counted') /\ Cardinality(Counted') <= Cardinality(Counted)
      /\ Cardinality(Holders') <= Cardinality(Holders) /\ Cardinality(Counted') \in Nat /\ Cardinality(Holders') \in Nat
  <2>1. IsFiniteSet(Counted) /\ IsFiniteSet(Holders)
    BY Finite
  <2>2. IsFiniteSet(Counted') /\ IsFiniteSet(Holders')
    BY <2>1, FS_Subset
  <2> QED
    BY <2>1, <2>2, FS_Subset, FS_CardinalityType
<1> QED
  BY <1>1, Finite DEF CapOK, TypeOK

(* ... one less, with its slot returned ...                                 *)
LEMMA CapDown ==
  ASSUME TypeOK, CapOK, NEW l \in Counted, Counted' = Counted \ {l}, Holders' \subseteq Holders, release(1)
  PROVE  CapOK'
<1>1. /\ IsFiniteSet(Counted') /\ Cardinality(Counted') = Cardinality(Counted) - 1
  BY Finite, FS_RemoveElement
<1>2. Cardinality(Holders') <= Cardinality(Holders) /\ Cardinality(Holders') \in Nat
  <2>1. IsFiniteSet(Holders) /\ IsFiniteSet(Holders')
    BY Finite, FS_Subset
  <2> QED
    BY <2>1, FS_Subset, FS_CardinalityType
<1> QED
  BY <1>1, <1>2, Finite DEF CapOK, TypeOK, release

(* ... or one more, with a slot taken.                                      *)
LEMMA CapUp ==
  ASSUME TypeOK, CapOK, NEW l, l \notin Counted, Counted' = Counted \cup {l}, acquire,
         \/ Holders' = Holders
         \/ mayAcquire /\ Holders' = Holders \cup {l}
  PROVE  CapOK'
<1>1. /\ IsFiniteSet(Counted') /\ Cardinality(Counted') = Cardinality(Counted) + 1
  BY Finite, FS_AddElement
<1>2. CASE Holders' = Holders
  BY <1>1, <1>2, Finite DEF CapOK, TypeOK, acquire
<1>3. CASE mayAcquire /\ Holders' = Holders \cup {l}
  <2>1. Cardinality(Holders') <= Cardinality(Counted')
    BY <1>1, HoldersCounted, <1>3, FS_Subset
  <2>2. Cardinality(Holders') \in Nat
    BY <1>3, Finite, FS_AddElement, FS_CardinalityType
  <2> QED
    BY <1>1, <1>3, <2>1, <2>2, Finite DEF CapOK, TypeOK, acquire, mayAcquire
<1> QED
  BY <1>2, <1>3

(* The streams of a pool connection are finitely many.                      *)
LEMMA ViaFinite ==
  ASSUME TypeOK, CapOK, RecordOK, NEW t \in Tunnels
  PROVE  IsFiniteSet(Via(t)) /\ Cardinality(Via(t)) \in Nat
<1>1. Via(t) \subseteq Counted
  BY DEF Via, Counted, RecordOK
<1> QED
  BY <1>1, Finite, FS_Subset, FS_CardinalityType

(* None is added, and no session loses its count under them.                *)
LEMMA StreamStays ==
  ASSUME TypeOK, CapOK, RecordOK, StreamOK, transport' = transport, tunnels' \in [Tunnels -> TunnelType],
         \A t \in Tunnels : /\ Via(t)' \subseteq Via(t)
                            /\ transport \in Mux => Via(t)' = {} \/ tunnels'[t].count >= tunnels[t].count
                            /\ transport \notin Mux /\ Via(t)' # {} => tunnels'[t].st \in {tunnels[t].st, "serving"}
  PROVE  StreamOK'
<1> SUFFICES ASSUME NEW t \in Tunnels
             PROVE  /\ transport \in Mux => Cardinality(Via(t)') <= tunnels'[t].count
                    /\ transport \notin Mux => Cardinality(Via(t)') <= 1 /\ (Via(t)' # {} => tunnels'[t].st = "serving")
  BY DEF StreamOK
<1>1. IsFiniteSet(Via(t)) /\ Cardinality(Via(t)) \in Nat
  BY ViaFinite
<1>2. IsFiniteSet(Via(t)') /\ Cardinality(Via(t)') <= Cardinality(Via(t)) /\ Cardinality(Via(t)') \in Nat
  BY <1>1, FS_Subset, FS_CardinalityType
<1>3. Via(t)' = {} => Cardinality(Via(t)') = 0
  BY FS_EmptySet
<1>4. tunnels[t].count \in Nat /\ tunnels'[t].count \in Nat
  BY DEF TypeOK, TunnelType
<1>5. Via(t)' # {} => Via(t) # {}
  OBVIOUS
<1> QED
  BY <1>1, <1>2, <1>3, <1>4, <1>5 DEF StreamOK

(* The flows: what a step leaves of a connection's peer and place keeps its *)
(* flow read ...                                                            *)
LEMMA FlowStays ==
  ASSUME FlowOK, run' = run, flows' = flows,
         \A l \in Locals : /\ locals'[l].peer = locals[l].peer /\ (locals'[l].open <=> locals[l].open)
                           /\ locals[l].st \in {"queued", "held", "carried"} =>
                                locals'[l].st \in {"queued", "held", "carried"},
         TypeOK
  PROVE  FlowOK'
<1>1. \A p \in Peers : flows[p] # None => flows[p] \in Locals
  BY DEF TypeOK
<1> QED
  BY <1>1 DEF FlowOK, FlowIsRead

(* ... and so does one that goes and is forgotten.                          *)
LEMMA FlowGone ==
  ASSUME TypeOK, FlowOK, run' = run, NEW l \in Locals, flows' = forget(l, flows),
         ~locals'[l].open, \A k \in Locals : k # l => locals'[k] = locals[k]
  PROVE  FlowOK' /\ flows' \in [Peers -> Locals \cup {None}]
<1>1. /\ flows' \in [Peers -> Locals \cup {None}]
      /\ \A p \in Peers : flows'[p] = IF flows[p] = l THEN None ELSE flows[p]
  BY DEF TypeOK, forget
<1>2. l # None
  OBVIOUS
<1>3. \A p \in Peers : flows[p] # None => flows[p] \in Locals
  BY DEF TypeOK
<1>4. ASSUME NEW p \in Peers, flows'[p] # None
      PROVE  flows'[p] = flows[p] /\ flows[p] # l /\ locals'[flows[p]] = locals[flows[p]]
  BY <1>1, <1>3, <1>4
<1>5. ASSUME NEW p \in Peers, NEW k \in Locals
      PROVE  (locals'[k].peer = p /\ locals'[k].open) <=> flows'[p] = k
  <2>1. CASE k = l
    BY <1>1, <1>2, <2>1
  <2>2. CASE k # l
    BY <1>1, <2>2 DEF FlowOK, FlowIsRead
  <2> QED
    BY <2>1, <2>2
<1> QED
  BY <1>1, <1>4, <1>5 DEF FlowOK, FlowIsRead

-----------------------------------------------------------------------------
(* The steps. *)

LEMMA RequestType == ASSUME TypeOK, Request PROVE reqNewConnChan' \in 0 .. ChannelSize
BY DEF TypeOK, Request

LEMMA ReleaseType == ASSUME TypeOK, release(1) PROVE active' \in Int
BY DEF TypeOK, release

(* Whatever stands still: the queues, hands and sessions hold what they     *)
(* held as long as what they hold stays where it is.                        *)
LEMMA PlacesStay ==
  ASSUME TypeOK, QueueOK, HandOK, SessionOK, transport' = transport,
         localChannel' = localChannel, tunnelChannel' = tunnelChannel, hands' = hands, tunnels' = tunnels,
         \A l \in Locals : locals[l].st \in {"queued", "held"} => locals'[l].st = locals[l].st
  PROVE  QueueOK' /\ HandOK' /\ SessionOK'
<1>1. Elems(localChannel) \subseteq Locals
  BY DEF Elems, TypeOK
<1>2. \A h \in Handlers : hands[h] # None => hands[h] \in Locals
  BY DEF TypeOK
<1>3. \A t \in Tunnels : tunnels[t].local # None => tunnels[t].local \in Locals
  BY DEF TypeOK, TunnelType
<1>4. QueueOK'
  BY <1>1 DEF QueueOK
<1>5. HandOK'
  BY <1>2 DEF HandOK
<1>6. SessionOK'
  BY <1>3 DEF SessionOK
<1> QED
  BY <1>4, <1>5, <1>6

(* A connection or a flow is let in: it was nobody's, and now it waits.     *)
LEMMA EnqueueKeeps ==
  ASSUME IInv, NEW l \in Locals, NEW p \in Peers \cup {"tcp"}, Enqueue(l, p),
         reqNewConnChan' \in 0 .. ChannelSize, streamCounter' \in Int,
         \/ p = "tcp" /\ flows' = flows
         \/ p \in Peers /\ flows[p] = None /\ flows' = [flows EXCEPT ![p] = l]
  PROVE  IInv'
<1> DEFINE d == Filed(p)
<1>1. /\ d \in LocalType /\ d.st = "queued" /\ d.peer = p /\ d.open /\ d.via = None
  BY DEF Filed, LocalType
<1>2. locals' = [locals EXCEPT ![l] = d]
  BY DEF Enqueue
<1> HIDE DEF d
<1>3. /\ locals' \in [Locals -> LocalType]
      /\ locals'[l] = d /\ \A k \in Locals : k # l => locals'[k] = locals[k]
      /\ Counted' = Counted \cup {l} /\ Holders' = Holders \cup {l}
      /\ \A t \in Tunnels : Via(t)' = Via(t) \ {l}
  BY <1>1, <1>2, OneLocal DEF IInv
<1>4. /\ locals[l].st = "free" /\ run = "up" /\ mayAcquire /\ acquire
      /\ UNCHANGED <<transport, run, tunnelChannel, tunnels, hands, sessionCounter, restarts>>
      /\ localChannel' = Append(localChannel, l) /\ Len(localChannel) < ChannelSize
  BY DEF Enqueue
<1>5. l \notin Elems(localChannel) /\ localChannel \in Seq(Locals)
  BY <1>4 DEF IInv, QueueOK, TypeOK
<1>6. /\ localChannel' \in Seq(Locals) /\ Len(localChannel') = Len(localChannel) + 1
      /\ Distinct(localChannel') /\ Elems(localChannel') = Elems(localChannel) \cup {l}
  BY <1>4, <1>5, Appended DEF IInv, QueueOK
<1>7. TypeOK'
  <2>1. active' \in Int
    BY <1>4 DEF IInv, TypeOK, acquire
  <2>2. flows' \in [Peers -> Locals \cup {None}]
    BY DEF IInv, TypeOK
  <2>3. Len(localChannel') <= ChannelSize
    BY <1>4, <1>6 DEF IInv, TypeOK
  <2> QED
    BY <1>3, <1>4, <1>6, <2>1, <2>2, <2>3 DEF IInv, TypeOK
<1>8. QueueOK'
  <2>1. Elems(localChannel) \subseteq Locals
    BY DEF IInv, TypeOK, Elems
  <2> QED
    BY <1>1, <1>3, <1>4, <1>6, <2>1 DEF IInv, QueueOK
<1>9. HandOK' /\ SessionOK'
  <2>1. \A h \in Handlers : hands[h] # None => hands[h] \in Locals /\ hands[h] # l
    BY <1>4 DEF IInv, HandOK, TypeOK
  <2>2. \A t \in Tunnels : tunnels[t].local # None => tunnels[t].local \in Locals /\ tunnels[t].local # l
    BY <1>4 DEF IInv, SessionOK, TypeOK, TunnelType
  <2>3. HandOK'
    BY <1>3, <1>4, <2>1 DEF IInv, HandOK
  <2>4. SessionOK'
    BY <1>3, <1>4, <2>2 DEF IInv, SessionOK
  <2> QED
    BY <2>3, <2>4
<1>10. RecordOK'
  BY <1>1, <1>3 DEF IInv, RecordOK
<1>11. FlowOK'
  <2>1. \A q \in Peers : flows[q] # None => flows[q] \in Locals
    BY DEF IInv, TypeOK
  <2>2. \A q \in Peers : flows[q] # l
    BY <1>4 DEF IInv, FlowOK, FlowIsRead
  <2>3. CASE p = "tcp"
    BY <1>1, <1>3, <1>4, <2>1, <2>2, <2>3 DEF IInv, FlowOK, FlowIsRead
  <2>4. CASE p \in Peers
    <3>1. flows[p] = None /\ flows' = [flows EXCEPT ![p] = l] /\ flows \in [Peers -> Locals \cup {None}]
      BY <2>4 DEF IInv, TypeOK
    <3>2. \A q \in Peers : flows'[q] = IF q = p THEN l ELSE flows[q]
      BY <3>1
    <3>3. \A q \in Peers, k \in Locals : (locals'[k].peer = q /\ locals'[k].open) <=> flows'[q] = k
      BY <1>1, <1>3, <2>2, <3>1, <3>2 DEF IInv, FlowOK, FlowIsRead
    <3>4. \A q \in Peers : flows'[q] # None => locals'[flows'[q]].st \in {"queued", "held", "carried"}
      BY <1>1, <1>3, <2>1, <2>2, <3>2 DEF IInv, FlowOK, FlowIsRead
    <3> QED
      BY <1>4, <3>3, <3>4 DEF FlowOK, FlowIsRead
  <2> QED
    BY <2>3, <2>4
<1>12. CapOK'
  <2>1. l \notin Counted
    BY <1>4 DEF Counted
  <2> QED
    BY <1>3, <1>4, <2>1, CapUp DEF IInv
<1>13. StreamOK'
  BY <1>3, <1>4, StreamStays DEF IInv, TypeOK, TunnelType
<1> QED
  BY <1>7, <1>8, <1>9, <1>10, <1>11, <1>12, <1>13 DEF IInv

LEMMA acceptLocalConnKeeps == ASSUME IInv, NEW l \in Locals, acceptLocalConn(l) PROVE IInv'
<1>1. Enqueue(l, "tcp") /\ flows' = flows
  BY DEF acceptLocalConn, TcpAcceptLocalConn, WsAcceptLocalConn, QuicAcceptLocalConn, TcpMuxAcceptLocalConn,
         KcpAcceptLocalConn, WsMuxAcceptLocalConn, AcceptAndAsk, AcceptAndCount
<1>2. Request \/ reqNewConnChan' = reqNewConnChan
  BY DEF acceptLocalConn, TcpAcceptLocalConn, WsAcceptLocalConn, QuicAcceptLocalConn, TcpMuxAcceptLocalConn,
         KcpAcceptLocalConn, WsMuxAcceptLocalConn, AcceptAndAsk, AcceptAndCount
<1>3. streamCounter' \in {streamCounter, streamCounter + 1}
  BY DEF acceptLocalConn, TcpAcceptLocalConn, WsAcceptLocalConn, QuicAcceptLocalConn, TcpMuxAcceptLocalConn,
         KcpAcceptLocalConn, WsMuxAcceptLocalConn, AcceptAndAsk, AcceptAndCount
<1>4. reqNewConnChan' \in 0 .. ChannelSize /\ streamCounter' \in Int
  BY <1>2, <1>3, RequestType DEF IInv, TypeOK
<1> QED
  BY <1>1, <1>4, EnqueueKeeps

LEMMA udpAdmitterKeeps == ASSUME IInv, NEW l \in Locals, NEW p \in Peers, udpAdmitter(l, p) PROVE IInv'
<1>1. /\ Enqueue(l, p) /\ flows[p] = None /\ flows' = [flows EXCEPT ![p] = l] /\ Request
      /\ streamCounter' = streamCounter
  BY DEF udpAdmitter, newFlow
<1>2. reqNewConnChan' \in 0 .. ChannelSize /\ streamCounter' \in Int
  BY <1>1, RequestType DEF IInv, TypeOK
<1> QED
  BY <1>1, <1>2, EnqueueKeeps

LEMMA RaiseTooFarKeeps == ASSUME IInv, NEW l \in Locals, RaiseTooFar(l) PROVE IInv'
<1> DEFINE d == [locals[l] EXCEPT !.st = "refused"]
<1>1. /\ locals[l].st = "free" /\ acquire /\ locals' = [locals EXCEPT ![l] = d]
      /\ UNCHANGED <<transport, run, queues, tunnels, hands, counters, flows, restarts>>
  BY DEF RaiseTooFar
<1>0. locals[l] \in LocalType
  BY DEF IInv, TypeOK
<1>2. /\ d \in LocalType /\ d.st = "refused" /\ d.peer = locals[l].peer /\ d.open = locals[l].open
      /\ d.via = locals[l].via
  BY <1>0 DEF LocalType
<1> HIDE DEF d
<1>3. /\ locals' \in [Locals -> LocalType]
      /\ locals'[l] = d /\ \A k \in Locals : k # l => locals'[k] = locals[k]
      /\ Counted' = Counted \cup {l} /\ Holders' = Holders \ {l}
      /\ \A t \in Tunnels : Via(t)' = Via(t)
  BY <1>1, <1>2, OneLocal DEF IInv
<1>5. l \notin Counted /\ Holders' = Holders
  BY <1>1, <1>3 DEF Counted, Holders
<1>6. TypeOK'
  <2>1. active' \in Int
    BY <1>1 DEF IInv, TypeOK, acquire
  <2> QED
    BY <1>1, <1>3, <2>1 DEF IInv, TypeOK, queues, counters
<1>7. QueueOK' /\ HandOK' /\ SessionOK'
  BY <1>1, <1>3, PlacesStay DEF IInv, queues
<1>8. RecordOK'
  BY <1>1, <1>2, <1>3 DEF IInv, RecordOK
<1>9. FlowOK'
  BY <1>1, <1>2, <1>3, FlowStays DEF IInv
<1>10. CapOK'
  BY <1>1, <1>3, <1>5, CapUp DEF IInv
<1>11. StreamOK'
  BY <1>1, <1>3, StreamStays DEF IInv, TypeOK, TunnelType
<1> QED
  BY <1>6, <1>7, <1>8, <1>9, <1>10, <1>11 DEF IInv

LEMMA LowerAgainKeeps == ASSUME IInv, NEW l \in Locals, LowerAgain(l) PROVE IInv'
<1>1. /\ locals[l].st = "refused" /\ release(1) /\ locals' = [locals EXCEPT ![l] = FreeLocal]
      /\ UNCHANGED <<transport, run, queues, tunnels, hands, counters, flows, restarts>>
  BY DEF LowerAgain
<1>2. /\ locals' \in [Locals -> LocalType]
      /\ locals'[l] = FreeLocal /\ \A k \in Locals : k # l => locals'[k] = locals[k]
      /\ Counted' = Counted \ {l} /\ Holders' = Holders \ {l}
      /\ \A t \in Tunnels : Via(t)' = Via(t) \ {l}
  BY <1>1, FreeTypes, OneLocal DEF IInv
<1>3. l \in Counted
  BY <1>1 DEF Counted
<1>4. TypeOK'
  BY <1>1, <1>2, ReleaseType DEF IInv, TypeOK, queues, counters
<1>5. QueueOK' /\ HandOK' /\ SessionOK'
  BY <1>1, <1>2, PlacesStay DEF IInv, queues
<1>6. RecordOK'
  BY <1>2, FreeTypes DEF IInv, RecordOK
<1>7. FlowOK'
  BY <1>1, <1>2, FreeTypes, FlowStays DEF IInv, RecordOK
<1>8. CapOK'
  BY <1>1, <1>2, <1>3, CapDown DEF IInv
<1>9. StreamOK'
  BY <1>1, <1>2, StreamStays DEF IInv, TypeOK, TunnelType
<1> QED
  BY <1>4, <1>5, <1>6, <1>7, <1>8, <1>9 DEF IInv

(* Closed and forgotten.                                                    *)
LEMMA GoneFacts ==
  ASSUME IInv, NEW l \in Locals, locals' = Gone(l)
  PROVE  /\ locals' \in [Locals -> LocalType] /\ RecordOK'
         /\ locals'[l] = FreeLocal /\ \A k \in Locals : k # l => locals'[k] = locals[k]
         /\ Counted' = Counted \ {l} /\ Holders' = Holders \ {l}
         /\ \A t \in Tunnels : Via(t)' = Via(t) \ {l}
<1>1. /\ locals' \in [Locals -> LocalType]
      /\ locals'[l] = FreeLocal /\ \A k \in Locals : k # l => locals'[k] = locals[k]
      /\ Counted' = Counted \ {l} /\ Holders' = Holders \ {l}
      /\ \A t \in Tunnels : Via(t)' = Via(t) \ {l}
  BY FreeTypes, OneLocal DEF IInv, Gone
<1>2. RecordOK'
  BY <1>1, FreeTypes DEF IInv, RecordOK
<1> QED
  BY <1>1, <1>2

(* One field of a connection changes and neither its place nor its carrier. *)
LEMMA MarkedKeeps ==
  ASSUME IInv, NEW l \in Locals, NEW d \in LocalType, locals' = [locals EXCEPT ![l] = d],
         d.st = locals[l].st, d.via = locals[l].via, d.peer = locals[l].peer,
         locals[l].st \notin {"free", "refused", "left"},
         flows' \in [Peers -> Locals \cup {None}], FlowOK',
         UNCHANGED <<transport, run, active, queues, tunnels, hands, counters, restarts>>
  PROVE  IInv'
<1>1. /\ locals' \in [Locals -> LocalType]
      /\ locals'[l] = d /\ \A k \in Locals : k # l => locals'[k] = locals[k]
      /\ \A t \in Tunnels : Via(t)' = Via(t)
  BY OneLocal DEF IInv
<1>2. Counted' = Counted /\ Holders' = Holders
  BY <1>1 DEF Counted, Holders
<1>3. TypeOK'
  BY <1>1 DEF IInv, TypeOK, queues, counters
<1>4. QueueOK' /\ HandOK' /\ SessionOK'
  BY <1>1, PlacesStay DEF IInv, queues
<1>5. RecordOK'
  BY <1>1 DEF IInv, RecordOK
<1>6. CapOK'
  BY <1>2, CapStays DEF IInv
<1>7. StreamOK'
  BY <1>1, StreamStays DEF IInv, TypeOK, TunnelType
<1> QED
  BY <1>3, <1>4, <1>5, <1>6, <1>7 DEF IInv

LEMMA reapKeeps == ASSUME IInv, NEW l \in Locals, reap(l) PROVE IInv'
<1> DEFINE d == [locals[l] EXCEPT !.open = FALSE]
<1>1. /\ locals[l].peer \in Peers /\ locals' = [locals EXCEPT ![l] = d] /\ flows' = forget(l, flows)
      /\ UNCHANGED <<transport, run, active, queues, tunnels, hands, counters, restarts>>
  BY DEF reap
<1>2. locals[l] \in LocalType
  BY DEF IInv, TypeOK
<1>3. d \in LocalType /\ ~d.open /\ d.st = locals[l].st /\ d.via = locals[l].via /\ d.peer = locals[l].peer
  BY <1>2 DEF LocalType
<1> HIDE DEF d
<1>4. locals[l].st \notin {"free", "refused", "left"}
  BY <1>1 DEF IInv, RecordOK
<1>5. locals'[l] = d /\ \A k \in Locals : k # l => locals'[k] = locals[k]
  BY <1>1, <1>3, OneLocal DEF IInv
<1>6. FlowOK' /\ flows' \in [Peers -> Locals \cup {None}]
  BY <1>1, <1>3, <1>5, FlowGone DEF IInv
<1> QED
  BY <1>1, <1>3, <1>4, <1>6, MarkedKeeps

LEMMA AgeKeeps == ASSUME IInv, NEW l \in Locals, Age(l) PROVE IInv'
<1> DEFINE d == [locals[l] EXCEPT !.old = TRUE]
<1>1. /\ locals[l].st \in {"queued", "held"} /\ locals' = [locals EXCEPT ![l] = d] /\ flows' = flows
      /\ UNCHANGED <<transport, run, active, queues, tunnels, hands, counters, restarts>>
  BY DEF Age
<1>2. locals[l] \in LocalType
  BY DEF IInv, TypeOK
<1>3. d \in LocalType /\ d.open = locals[l].open /\ d.st = locals[l].st /\ d.via = locals[l].via /\ d.peer = locals[l].peer
  BY <1>2 DEF LocalType
<1> HIDE DEF d
<1>4. locals'[l] = d /\ \A k \in Locals : k # l => locals'[k] = locals[k]
  BY <1>1, <1>3, OneLocal DEF IInv
<1>5. FlowOK' /\ flows' \in [Peers -> Locals \cup {None}]
  <2>1. FlowOK'
    BY <1>1, <1>3, <1>4, FlowStays DEF IInv
  <2> QED
    BY <1>1, <2>1 DEF IInv, TypeOK
<1> QED
  BY <1>1, <1>3, <1>5, MarkedKeeps

(* A relay ends: its slot comes back, and its stream's place or its pool    *)
(* connection goes.                                                         *)
LEMMA RelayEndsKeeps == ASSUME IInv, NEW l \in Locals, RelayEnds(l) PROVE IInv'
<1> DEFINE v == locals[l].via
<1>1. /\ locals[l].st = "carried" /\ release(1) /\ locals' = Gone(l) /\ flows' = forget(l, flows)
      /\ UNCHANGED <<transport, run, queues, hands, sessionCounter, restarts>>
      /\ streamCounter' \in {streamCounter, streamCounter - 1}
  BY DEF RelayEnds
<1>2. /\ locals' \in [Locals -> LocalType] /\ RecordOK'
      /\ locals'[l] = FreeLocal /\ \A k \in Locals : k # l => locals'[k] = locals[k]
      /\ Counted' = Counted \ {l} /\ Holders' = Holders \ {l}
      /\ \A t \in Tunnels : Via(t)' = Via(t) \ {l}
  BY <1>1, GoneFacts
<1>3. FlowOK' /\ flows' \in [Peers -> Locals \cup {None}]
  BY <1>1, <1>2, FreeTypes, FlowGone DEF IInv
<1>4. CapOK'
  <2>1. l \in Counted
    BY <1>1 DEF Counted
  <2> QED
    BY <1>1, <1>2, <2>1, CapDown DEF IInv
<1>5. \A t \in Tunnels : /\ tunnels[t] \in TunnelType
                         /\ IsFiniteSet(Via(t)) /\ Cardinality(Via(t)) \in Nat
                         /\ Cardinality(Via(t)') = IF t = v THEN Cardinality(Via(t)) - 1 ELSE Cardinality(Via(t))
                         /\ Cardinality(Via(t)') \in Nat
                         /\ t # v => Via(t)' = Via(t)
  <2> SUFFICES ASSUME NEW t \in Tunnels
               PROVE  /\ tunnels[t] \in TunnelType
                      /\ IsFiniteSet(Via(t)) /\ Cardinality(Via(t)) \in Nat
                      /\ Cardinality(Via(t)') = IF t = v THEN Cardinality(Via(t)) - 1 ELSE Cardinality(Via(t))
                      /\ Cardinality(Via(t)') \in Nat
                      /\ t # v => Via(t)' = Via(t)
    OBVIOUS
  <2>1. IsFiniteSet(Via(t)) /\ Cardinality(Via(t)) \in Nat
    BY ViaFinite DEF IInv
  <2>2. l \in Via(t) <=> t = v
    BY DEF Via
  <2>3. Via(t)' = Via(t) \ {l}
    BY <1>2
  <2>4. /\ IsFiniteSet(Via(t)')
        /\ Cardinality(Via(t)') = IF l \in Via(t) THEN Cardinality(Via(t)) - 1 ELSE Cardinality(Via(t))
    <3>1. /\ IsFiniteSet(Via(t) \ {l})
          /\ Cardinality(Via(t) \ {l}) = IF l \in Via(t) THEN Cardinality(Via(t)) - 1 ELSE Cardinality(Via(t))
      BY <2>1, FS_RemoveElement, Zenon
    <3> QED
      BY <2>3, <3>1, Zenon
  <2>5. Cardinality(Via(t)') \in Nat
    BY <2>4, FS_CardinalityType
  <2>6. tunnels[t] \in TunnelType
    BY DEF IInv, TypeOK
  <2> QED
    BY <2>1, <2>2, <2>3, <2>4, <2>5, <2>6
<1> HIDE DEF v
<1>6. CASE transport \in Mux
  <2>1. tunnels' = [t \in Tunnels |-> IF t = v THEN [tunnels[t] EXCEPT !.count = @ - 1] ELSE tunnels[t]]
    BY <1>6 DEF RelayEnds, v
  <2>2. ASSUME NEW t \in Tunnels
        PROVE  /\ tunnels'[t] \in TunnelType /\ tunnels'[t].st = tunnels[t].st /\ tunnels'[t].local = tunnels[t].local
               /\ tunnels'[t].count = IF t = v THEN tunnels[t].count - 1 ELSE tunnels[t].count
               /\ Cardinality(Via(t)') <= tunnels'[t].count
    <3>1. tunnels[t] \in TunnelType /\ Cardinality(Via(t)) <= tunnels[t].count
      BY <1>5, <1>6 DEF IInv, StreamOK
    <3>2. tunnels[t].count \in 0 .. MuxCon /\ (t = v => tunnels[t].count >= 1)
      BY <1>5, <3>1 DEF TunnelType
    <3>3. CASE t = v
      <4> DEFINE d == [tunnels[t] EXCEPT !.count = @ - 1]
      <4>1. d \in TunnelType /\ d.st = tunnels[t].st /\ d.local = tunnels[t].local /\ d.count = tunnels[t].count - 1
        BY <3>1, <3>2, <3>3 DEF TunnelType
      <4>2. tunnels'[t] = d
        BY <2>1, <3>3
      <4> HIDE DEF d
      <4> QED
        BY <1>5, <3>1, <3>2, <3>3, <4>1, <4>2
    <3>4. CASE t # v
      BY <1>5, <2>1, <3>1, <3>4
    <3> QED
      BY <3>3, <3>4
  <2>3. tunnels' \in [Tunnels -> TunnelType]
    BY <2>1, <2>2
  <2>4. TypeOK'
    BY <1>1, <1>2, <1>3, <2>3, ReleaseType DEF IInv, TypeOK, queues
  <2>5. StreamOK'
    BY <1>1, <1>6, <2>2 DEF StreamOK
  <2>6. QueueOK'
    <3>1. Elems(localChannel) \subseteq Locals /\ Elems(tunnelChannel) \subseteq Tunnels
      BY DEF IInv, TypeOK, Elems
    <3> QED
      BY <1>1, <1>2, <2>2, <3>1 DEF IInv, QueueOK, queues
  <2>7. HandOK'
    BY <1>1, <1>6 DEF IInv, HandOK
  <2>8. SessionOK'
    <3>1. \A t \in Tunnels : tunnels[t].local # None => tunnels[t].local \in Locals \ {l}
      BY <1>1, <1>5 DEF IInv, SessionOK, TunnelType
    <3> QED
      BY <1>1, <1>2, <2>2, <3>1 DEF IInv, SessionOK
  <2> QED
    BY <1>2, <1>3, <1>4, <2>4, <2>5, <2>6, <2>7, <2>8 DEF IInv
<1>7. CASE transport \notin Mux
  <2>1. tunnels' = [t \in Tunnels |-> IF t = v THEN FreeTunnel ELSE tunnels[t]]
    BY <1>7 DEF RelayEnds, v
  <2>2. tunnels' \in [Tunnels -> TunnelType]
    BY <1>5, <2>1, FreeTypes
  <2>3. TypeOK'
    BY <1>1, <1>2, <1>3, <2>2, ReleaseType DEF IInv, TypeOK, queues
  <2>4. ASSUME NEW t \in Tunnels, t = v PROVE Via(t)' = {} /\ tunnels[t].st = "serving"
    <3>1. l \in Via(t) /\ Cardinality(Via(t)) <= 1
      BY <1>7, <2>4 DEF Via, v, IInv, StreamOK
    <3>2. Cardinality(Via(t)') = 0 /\ IsFiniteSet(Via(t)')
      BY <1>2, <1>5, <2>4, <3>1, FS_RemoveElement
    <3> QED
      BY <1>7, <3>1, <3>2, FS_EmptySet DEF IInv, StreamOK
  <2>5. StreamOK'
    <3>1. Cardinality({}) = 0
      BY FS_EmptySet
    <3>2. \A t \in Tunnels : t # v => tunnels'[t] = tunnels[t]
      BY <2>1
    <3> QED
      BY <1>1, <1>5, <1>7, <2>4, <3>1, <3>2 DEF IInv, StreamOK
  <2>6. QueueOK'
    <3>1. Elems(localChannel) \subseteq Locals /\ Elems(tunnelChannel) \subseteq Tunnels
      BY DEF IInv, TypeOK, Elems
    <3>2. \A t \in Elems(tunnelChannel) : t # v
      BY <2>4, <3>1 DEF IInv, QueueOK
    <3> QED
      BY <1>1, <1>2, <2>1, <3>1, <3>2 DEF IInv, QueueOK, queues
  <2>7. HandOK'
    <3>1. \A h \in Handlers : hands[h] # None => hands[h] \in Locals \ {l}
      BY <1>1 DEF IInv, HandOK, TypeOK
    <3> QED
      BY <1>1, <1>2, <3>1 DEF IInv, HandOK
  <2>8. SessionOK'
    BY <1>1, <1>7, <2>1, FreeTypes DEF IInv, SessionOK
  <2> QED
    BY <1>2, <1>3, <1>4, <2>3, <2>5, <2>6, <2>7, <2>8 DEF IInv
<1> QED
  BY <1>6, <1>7

-----------------------------------------------------------------------------
(* handleLoop of the transports that pair one to one. *)

(* What a loop takes from the queue: it was queued, and in no other place.  *)
LEMMA HeadFacts ==
  ASSUME IInv, localChannel # <<>>, localChannel' = Tail(localChannel)
  PROVE  LET l == Head(localChannel)
         IN  /\ l \in Locals /\ locals[l].st = "queued" /\ locals[l].via = None /\ l \in Counted /\ l \in Holders
             /\ localChannel' \in Seq(Locals) /\ Len(localChannel') <= ChannelSize
             /\ Distinct(localChannel') /\ Elems(localChannel') \subseteq Locals \ {l}
             /\ \A k \in Elems(localChannel') : locals[k].st = "queued"
             /\ \A h \in Handlers : hands[h] # None => hands[h] \in Locals \ {l}
             /\ \A t \in Tunnels : tunnels[t].local # None => tunnels[t].local \in Locals \ {l}
<1> DEFINE l == Head(localChannel)
<1>1. localChannel \in Seq(Locals) /\ Distinct(localChannel) /\ Len(localChannel) <= ChannelSize
  BY DEF IInv, TypeOK, QueueOK
<1>2. /\ localChannel' \in Seq(Locals) /\ Len(localChannel') = Len(localChannel) - 1
      /\ Distinct(localChannel') /\ Elems(localChannel') = Elems(localChannel) \ {l}
      /\ l \in Locals /\ l \in Elems(localChannel)
  BY <1>1, Tailed
<1> HIDE DEF l
<1>3. locals[l].st = "queued" /\ \A k \in Elems(localChannel') : locals[k].st = "queued"
  BY <1>2 DEF IInv, QueueOK
<1>4. l \in Counted /\ l \in Holders
  BY <1>2, <1>3 DEF Counted, Holders
<1>5. Elems(localChannel') \subseteq Locals \ {l}
  <2>1. Elems(localChannel) \subseteq Locals
    BY <1>1 DEF Elems
  <2> QED
    BY <1>2, <2>1
<1>6. \A h \in Handlers : hands[h] # None => hands[h] \in Locals \ {l}
  BY <1>3 DEF IInv, TypeOK, HandOK
<1>7. \A t \in Tunnels : tunnels[t].local # None => tunnels[t].local \in Locals \ {l}
  BY <1>3 DEF IInv, TypeOK, TunnelType, SessionOK
<1>8. locals[l].via = None
  BY <1>2, <1>3 DEF IInv, RecordOK
<1>9. Len(localChannel') <= ChannelSize
  BY <1>1, <1>2
<1> QED
  BY <1>2, <1>3, <1>4, <1>5, <1>6, <1>7, <1>8, <1>9 DEF l

(* A connection leaves its place for good, with its slot or without.        *)
LEMMA LeavesKeeps ==
  ASSUME IInv, NEW l \in Locals, l \in Counted, locals' = Gone(l),
         run' = run, transport' = transport, tunnels' \in [Tunnels -> TunnelType],
         localChannel' \in Seq(Locals), Len(localChannel') <= ChannelSize,
         tunnelChannel' \in Seq(Tunnels), Len(tunnelChannel') <= ChannelSize,
         reqNewConnChan' \in 0 .. ChannelSize, hands' \in [Handlers -> Locals \cup {None}],
         streamCounter' \in Int, sessionCounter' = sessionCounter, restarts' = restarts,
         flows' \in [Peers -> Locals \cup {None}], FlowOK', StreamOK', release(1) \/ active' = active
  PROVE  TypeOK' /\ RecordOK' /\ FlowOK' /\ CapOK' /\ StreamOK'
<1>1. /\ locals' \in [Locals -> LocalType] /\ RecordOK'
      /\ Counted' = Counted \ {l} /\ Holders' = Holders \ {l}
  BY GoneFacts
<1>2. CapOK'
  BY <1>1, CapDown, CapStays DEF IInv
<1>3. active' \in Int
  BY ReleaseType DEF IInv, TypeOK
<1>4. TypeOK'
  BY <1>1, <1>3 DEF IInv, TypeOK
<1> QED
  BY <1>1, <1>2, <1>4

LEMMA TakeLocalKeeps ==
  ASSUME IInv, NEW h \in Handlers, NEW r, NEW a, TakeLocal(h, r, a), transport \notin Mux PROVE IInv'
<1> DEFINE l == Head(localChannel)
<1>1. /\ run = "up" /\ hands[h] = None /\ localChannel # <<>> /\ localChannel' = Tail(localChannel)
      /\ UNCHANGED <<transport, run, tunnelChannel, tunnels, counters, restarts>>
  BY DEF TakeLocal
<1>2. /\ l \in Locals /\ locals[l].st = "queued" /\ locals[l].via = None /\ l \in Counted /\ l \in Holders
      /\ localChannel' \in Seq(Locals) /\ Len(localChannel') <= ChannelSize
      /\ Distinct(localChannel') /\ Elems(localChannel') \subseteq Locals \ {l}
      /\ \A k \in Elems(localChannel') : locals[k].st = "queued"
      /\ \A g \in Handlers : hands[g] # None => hands[g] \in Locals \ {l}
      /\ \A t \in Tunnels : tunnels[t].local # None => tunnels[t].local \in Locals \ {l}
  BY <1>1, HeadFacts
<1>3. \/ /\ locals' = Gone(l) /\ flows' = forget(l, flows) /\ (release(1) \/ active' = active)
         /\ UNCHANGED <<hands, reqNewConnChan>>
      \/ /\ locals' = [locals EXCEPT ![l].st = "held"] /\ hands' = [hands EXCEPT ![h] = l]
         /\ Request \/ reqNewConnChan' = reqNewConnChan
         /\ UNCHANGED <<active, flows>>
  BY DEF TakeLocal
<1> HIDE DEF l
<1>4. CASE /\ locals' = Gone(l) /\ flows' = forget(l, flows) /\ (release(1) \/ active' = active)
           /\ UNCHANGED <<hands, reqNewConnChan>>
  <2>1. /\ locals'[l] = FreeLocal /\ \A k \in Locals : k # l => locals'[k] = locals[k]
        /\ \A t \in Tunnels : Via(t)' = Via(t) \ {l}
    BY <1>2, <1>4, GoneFacts
  <2>2. FlowOK' /\ flows' \in [Peers -> Locals \cup {None}]
    BY <1>1, <1>2, <1>4, <2>1, FreeTypes, FlowGone DEF IInv
  <2>3. StreamOK'
    BY <1>1, <2>1, StreamStays DEF IInv, TypeOK, TunnelType
  <2>4. TypeOK' /\ RecordOK' /\ FlowOK' /\ CapOK' /\ StreamOK'
    <3>1. /\ tunnels' \in [Tunnels -> TunnelType] /\ tunnelChannel' \in Seq(Tunnels) /\ Len(tunnelChannel') <= ChannelSize
          /\ reqNewConnChan' \in 0 .. ChannelSize /\ hands' \in [Handlers -> Locals \cup {None}]
          /\ streamCounter' \in Int /\ sessionCounter' = sessionCounter
      BY <1>1, <1>4 DEF IInv, TypeOK, counters
    <3> QED
      BY <1>1, <1>2, <1>4, <2>2, <2>3, <3>1, LeavesKeeps
  <2>5. QueueOK'
    BY <1>1, <1>2, <2>1 DEF IInv, QueueOK
  <2>6. HandOK' /\ SessionOK'
    BY <1>1, <1>2, <1>4, <2>1 DEF IInv, HandOK, SessionOK
  <2> QED
    BY <2>4, <2>5, <2>6 DEF IInv
<1>5. CASE /\ locals' = [locals EXCEPT ![l].st = "held"] /\ hands' = [hands EXCEPT ![h] = l]
           /\ Request \/ reqNewConnChan' = reqNewConnChan
           /\ UNCHANGED <<active, flows>>
  <2> DEFINE d == [locals[l] EXCEPT !.st = "held"]
  <2>1. locals[l] \in LocalType
    BY <1>2 DEF IInv, TypeOK
  <2>2. d \in LocalType /\ d.st = "held" /\ d.via = locals[l].via /\ d.peer = locals[l].peer /\ d.open = locals[l].open
    BY <2>1 DEF LocalType
  <2>3. locals' = [locals EXCEPT ![l] = d]
    BY <1>5
  <2> HIDE DEF d
  <2>4. /\ locals' \in [Locals -> LocalType]
        /\ locals'[l] = d /\ \A k \in Locals : k # l => locals'[k] = locals[k]
        /\ Counted' = Counted \cup {l} /\ Holders' = Holders \cup {l}
        /\ \A t \in Tunnels : Via(t)' = Via(t)
    BY <1>2, <2>2, <2>3, OneLocal DEF IInv
  <2>5. hands' \in [Handlers -> Locals \cup {None}] /\ hands'[h] = l /\ \A g \in Handlers : g # h => hands'[g] = hands[g]
    BY <1>2, <1>5 DEF IInv, TypeOK
  <2>6. TypeOK'
    <3>1. reqNewConnChan' \in 0 .. ChannelSize
      BY <1>5, RequestType DEF IInv, TypeOK
    <3> QED
      BY <1>1, <1>2, <1>5, <2>4, <2>5, <3>1 DEF IInv, TypeOK, counters
  <2>7. QueueOK'
    BY <1>1, <1>2, <2>4 DEF IInv, QueueOK
  <2>8. HandOK'
    BY <1>1, <1>2, <2>2, <2>4, <2>5 DEF IInv, HandOK
  <2>9. SessionOK'
    BY <1>1, <1>2, <2>4 DEF IInv, SessionOK
  <2>10. RecordOK'
    BY <1>2, <2>2, <2>4 DEF IInv, RecordOK
  <2>11. FlowOK'
    BY <1>1, <1>2, <1>5, <2>2, <2>4, FlowStays DEF IInv
  <2>12. CapOK'
    BY <1>2, <1>5, <2>4, CapStays DEF IInv
  <2>13. StreamOK'
    BY <1>1, <2>4, StreamStays DEF IInv, TypeOK, TunnelType
  <2> QED
    BY <2>6, <2>7, <2>8, <2>9, <2>10, <2>11, <2>12, <2>13 DEF IInv
<1> QED
  BY <1>3, <1>4, <1>5

(* The same of a pool connection.                                           *)
LEMMA PoolHeadFacts ==
  ASSUME IInv, tunnelChannel # <<>>, tunnelChannel' = Tail(tunnelChannel)
  PROVE  LET t == Head(tunnelChannel)
         IN  /\ t \in Tunnels /\ tunnels[t].st = "pooled" /\ tunnels[t].local = None
             /\ tunnelChannel' \in Seq(Tunnels) /\ Len(tunnelChannel') <= ChannelSize
             /\ Distinct(tunnelChannel') /\ Elems(tunnelChannel') \subseteq Tunnels \ {t}
             /\ \A s \in Elems(tunnelChannel') : tunnels[s].st = "pooled"
<1> DEFINE t == Head(tunnelChannel)
<1>1. tunnelChannel \in Seq(Tunnels) /\ Distinct(tunnelChannel) /\ Len(tunnelChannel) <= ChannelSize
  BY DEF IInv, TypeOK, QueueOK
<1>2. /\ tunnelChannel' \in Seq(Tunnels) /\ Len(tunnelChannel') = Len(tunnelChannel) - 1
      /\ Distinct(tunnelChannel') /\ Elems(tunnelChannel') = Elems(tunnelChannel) \ {t}
      /\ t \in Tunnels /\ t \in Elems(tunnelChannel)
  BY <1>1, Tailed
<1> HIDE DEF t
<1>3. tunnels[t].st = "pooled" /\ \A s \in Elems(tunnelChannel') : tunnels[s].st = "pooled"
  BY <1>2 DEF IInv, QueueOK
<1>4. Elems(tunnelChannel') \subseteq Tunnels \ {t}
  <2>1. Elems(tunnelChannel) \subseteq Tunnels
    BY <1>1 DEF Elems
  <2> QED
    BY <1>2, <2>1
<1>5. tunnels[t].local = None
  BY <1>2, <1>3 DEF IInv, SessionOK
<1>6. Len(tunnelChannel') <= ChannelSize
  BY <1>1, <1>2
<1> QED
  BY <1>2, <1>3, <1>4, <1>5, <1>6 DEF t

(* What a loop has in its hand is in no other hand and in no queue.         *)
LEMMA InHand ==
  ASSUME IInv, NEW h \in Handlers, hands[h] # None
  PROVE  /\ hands[h] \in Locals /\ locals[hands[h]].st = "held" /\ transport \notin Mux
         /\ hands[h] \in Counted /\ hands[h] \in Holders /\ locals[hands[h]].via = None
         /\ \A g \in Handlers : g # h => hands[g] # hands[h]
         /\ Elems(localChannel) \subseteq Locals \ {hands[h]}
         /\ \A t \in Tunnels : tunnels[t].local = None
<1>1. hands[h] \in Locals /\ locals[hands[h]].st = "held" /\ transport \notin Mux
  BY DEF IInv, TypeOK, HandOK
<1>2. hands[h] \in Counted /\ hands[h] \in Holders
  BY <1>1 DEF Counted, Holders
<1>3. \A g \in Handlers : g # h => hands[g] # hands[h]
  BY DEF IInv, HandOK
<1>4. Elems(localChannel) \subseteq Locals \ {hands[h]}
  <2>1. Elems(localChannel) \subseteq Locals
    BY DEF IInv, TypeOK, Elems
  <2> QED
    BY <1>1, <2>1 DEF IInv, QueueOK
<1>5. \A t \in Tunnels : tunnels[t].local = None
  BY <1>1 DEF IInv, SessionOK
<1>6. locals[hands[h]].via = None
  BY <1>1 DEF IInv, RecordOK
<1> QED
  BY <1>1, <1>2, <1>3, <1>4, <1>5, <1>6

(* A connection that had no carrier gets t.                                 *)
LEMMA GetsCarrier ==
  ASSUME NEW l \in Locals, NEW t \in Tunnels, locals[l].via = None, locals'[l].via = t,
         \A k \in Locals : k # l => locals'[k] = locals[k]
  PROVE  Via(t)' = Via(t) \cup {l} /\ l \notin Via(t) /\ \A s \in Tunnels : s # t => Via(s)' = Via(s)
<1>1. t # None
  OBVIOUS
<1>2. ASSUME NEW s \in Tunnels, s # t PROVE Via(s)' = Via(s)
  <2>1. ASSUME NEW k \in Locals PROVE locals'[k].via = s <=> locals[k].via = s
    BY <1>2
  <2> QED
    BY <2>1 DEF Via
<1>3. Via(t)' = Via(t) \cup {l} /\ l \notin Via(t)
  BY <1>1 DEF Via
<1> QED
  BY <1>2, <1>3

LEMMA PairKeeps ==
  ASSUME IInv, NEW h \in Handlers, NEW r, NEW c, NEW a, Pair(h, r, c, a) PROVE IInv'
<1>1. /\ run = "up" /\ hands[h] # None /\ tunnelChannel # <<>> /\ tunnelChannel' = Tail(tunnelChannel)
      /\ UNCHANGED <<transport, run, localChannel, counters, restarts>>
  BY DEF Pair
<1>l. PICK l \in Locals : l = hands[h]
  BY <1>1, InHand
<1>t. PICK t \in Tunnels : t = Head(tunnelChannel)
  BY <1>1, PoolHeadFacts
<1>2. /\ l \in Locals /\ locals[l].st = "held" /\ transport \notin Mux
      /\ l \in Counted /\ l \in Holders /\ locals[l].via = None
      /\ \A g \in Handlers : g # h => hands[g] # l
      /\ Elems(localChannel) \subseteq Locals \ {l}
      /\ \A s \in Tunnels : tunnels[s].local = None
  BY <1>1, <1>l, InHand
<1>3. /\ t \in Tunnels /\ tunnels[t].st = "pooled" /\ tunnels[t].local = None
      /\ tunnelChannel' \in Seq(Tunnels) /\ Len(tunnelChannel') <= ChannelSize
      /\ Distinct(tunnelChannel') /\ Elems(tunnelChannel') \subseteq Tunnels \ {t}
      /\ \A s \in Elems(tunnelChannel') : tunnels[s].st = "pooled"
  BY <1>1, <1>t, PoolHeadFacts
<1>4. \/ /\ locals' = [locals EXCEPT ![l].st = "carried", ![l].via = t, ![l].old = FALSE]
         /\ tunnels' = [tunnels EXCEPT ![t].st = "serving"]
         /\ hands' = [hands EXCEPT ![h] = None]
         /\ UNCHANGED <<active, reqNewConnChan, flows>>
      \/ /\ tunnels' = [tunnels EXCEPT ![t] = FreeTunnel]
         /\ Request \/ reqNewConnChan' = reqNewConnChan
         /\ \/ /\ locals' = Gone(l) /\ flows' = forget(l, flows)
               /\ hands' = [hands EXCEPT ![h] = None]
               /\ release(1) \/ active' = active
            \/ UNCHANGED <<locals, flows, hands, active>>
  BY <1>l, <1>t DEF Pair
<1>5. Via(t) = {}
  BY <1>2, <1>3 DEF IInv, StreamOK
<1>6. hands' = [hands EXCEPT ![h] = None] => /\ hands' \in [Handlers -> Locals \cup {None}] /\ hands'[h] = None
                                             /\ \A g \in Handlers : g # h => hands'[g] = hands[g]
  BY DEF IInv, TypeOK
<1>7. CASE /\ locals' = [locals EXCEPT ![l].st = "carried", ![l].via = t, ![l].old = FALSE]
           /\ tunnels' = [tunnels EXCEPT ![t].st = "serving"]
           /\ hands' = [hands EXCEPT ![h] = None]
           /\ UNCHANGED <<active, reqNewConnChan, flows>>
  <2> DEFINE d == [locals[l] EXCEPT !.st = "carried", !.via = t, !.old = FALSE]
             e == [tunnels[t] EXCEPT !.st = "serving"]
  <2>1. locals[l] \in LocalType /\ tunnels[t] \in TunnelType
    BY <1>2, <1>3 DEF IInv, TypeOK
  <2>2. d \in LocalType /\ d.st = "carried" /\ d.via = t /\ d.peer = locals[l].peer /\ d.open = locals[l].open
    BY <1>3, <2>1 DEF LocalType
  <2>3. e \in TunnelType /\ e.st = "serving" /\ e.local = tunnels[t].local /\ e.count = tunnels[t].count
    BY <2>1 DEF TunnelType
  <2>4. locals' = [locals EXCEPT ![l] = d] /\ tunnels' = [tunnels EXCEPT ![t] = e]
    BY <1>2, <1>3, <1>7 DEF IInv, TypeOK
  <2> HIDE DEF d, e
  <2>5. /\ locals' \in [Locals -> LocalType]
        /\ locals'[l] = d /\ \A k \in Locals : k # l => locals'[k] = locals[k]
        /\ Counted' = Counted \cup {l} /\ Holders' = Holders \cup {l}
    BY <1>2, <1>3, <2>2, <2>4, OneLocal DEF IInv
  <2>6. /\ tunnels' \in [Tunnels -> TunnelType]
        /\ tunnels'[t] = e /\ \A s \in Tunnels : s # t => tunnels'[s] = tunnels[s]
    BY <1>3, <2>3, <2>4, OneTunnel DEF IInv
  <2>7. TypeOK'
    BY <1>1, <1>3, <1>6, <1>7, <2>5, <2>6 DEF IInv, TypeOK, counters
  <2>8. QueueOK'
    BY <1>1, <1>2, <1>3, <2>5, <2>6 DEF IInv, QueueOK
  <2>9. HandOK'
    <3>1. \A g \in Handlers : hands[g] # None => hands[g] \in Locals
      BY DEF IInv, TypeOK
    <3> QED
      BY <1>1, <1>2, <1>6, <1>7, <2>5, <3>1 DEF IInv, HandOK
  <2>10. SessionOK'
    BY <1>2, <2>3, <2>6 DEF SessionOK
  <2>11. RecordOK'
    BY <2>2, <2>5 DEF IInv, RecordOK
  <2>12. FlowOK'
    BY <1>1, <1>2, <1>7, <2>2, <2>5, FlowStays DEF IInv
  <2>13. CapOK'
    BY <1>2, <1>7, <2>5, CapStays DEF IInv
  <2>14. StreamOK'
    <3>1. Via(t)' = Via(t) \cup {l} /\ \A s \in Tunnels : s # t => Via(s)' = Via(s)
      BY <1>2, <1>3, <2>2, <2>5, GetsCarrier
    <3>2. Cardinality(Via(t)') = 1
      <4>1. Via(t)' = {l}
        BY <1>5, <3>1
      <4> QED
        BY <4>1, FS_Singleton
    <3>3. ASSUME NEW s \in Tunnels
          PROVE  Cardinality(Via(s)') <= 1 /\ (Via(s)' # {} => tunnels'[s].st = "serving")
      <4>1. CASE s = t
        BY <2>3, <2>6, <3>2, <4>1
      <4>2. CASE s # t
        BY <1>2, <2>6, <3>1, <4>2 DEF IInv, StreamOK
      <4> QED
        BY <4>1, <4>2
    <3> QED
      BY <1>1, <1>2, <3>3 DEF StreamOK
  <2> QED
    BY <2>7, <2>8, <2>9, <2>10, <2>11, <2>12, <2>13, <2>14 DEF IInv
<1>8. CASE /\ tunnels' = [tunnels EXCEPT ![t] = FreeTunnel]
           /\ Request \/ reqNewConnChan' = reqNewConnChan
           /\ \/ /\ locals' = Gone(l) /\ flows' = forget(l, flows)
                 /\ hands' = [hands EXCEPT ![h] = None]
                 /\ release(1) \/ active' = active
              \/ UNCHANGED <<locals, flows, hands, active>>
  <2>1. /\ tunnels' \in [Tunnels -> TunnelType]
        /\ tunnels'[t] = FreeTunnel /\ \A s \in Tunnels : s # t => tunnels'[s] = tunnels[s]
    BY <1>3, <1>8, FreeTypes, OneTunnel DEF IInv
  <2>2. reqNewConnChan' \in 0 .. ChannelSize
    BY <1>8, RequestType DEF IInv, TypeOK
  <2>3. SessionOK'
    BY <1>2, <2>1, FreeTypes DEF SessionOK
  <2>4. CASE UNCHANGED <<locals, flows, hands, active>>
    <3>1. TypeOK'
      BY <1>1, <1>3, <2>1, <2>2, <2>4 DEF IInv, TypeOK, counters
    <3>2. QueueOK'
      BY <1>1, <1>2, <1>3, <2>1, <2>4 DEF IInv, QueueOK
    <3>3. HandOK'
      BY <1>1, <2>4 DEF IInv, HandOK
    <3>4. RecordOK' /\ FlowOK'
      BY <1>1, <2>4 DEF IInv, RecordOK, FlowOK, FlowIsRead
    <3>5. Counted' = Counted /\ Holders' = Holders /\ \A s \in Tunnels : Via(s)' = Via(s)
      BY <2>4 DEF Counted, Holders, Via
    <3>6. CapOK'
      BY <2>4, <3>5, CapStays DEF IInv
    <3>7. StreamOK'
      BY <1>1, <1>2, <1>5, <2>1, <3>5, StreamStays DEF IInv
    <3> QED
      BY <2>3, <3>1, <3>2, <3>3, <3>4, <3>6, <3>7 DEF IInv
  <2>5. CASE /\ locals' = Gone(l) /\ flows' = forget(l, flows)
             /\ hands' = [hands EXCEPT ![h] = None]
             /\ release(1) \/ active' = active
    <3>1. /\ locals'[l] = FreeLocal /\ \A k \in Locals : k # l => locals'[k] = locals[k]
          /\ \A s \in Tunnels : Via(s)' = Via(s) \ {l}
      BY <1>2, <2>5, GoneFacts
    <3>2. FlowOK' /\ flows' \in [Peers -> Locals \cup {None}]
      BY <1>1, <1>2, <2>5, <3>1, FreeTypes, FlowGone DEF IInv
    <3>3. StreamOK'
      BY <1>1, <1>2, <1>5, <2>1, <3>1, StreamStays DEF IInv
    <3>4. TypeOK' /\ RecordOK' /\ FlowOK' /\ CapOK' /\ StreamOK'
      <4>1. /\ localChannel' \in Seq(Locals) /\ Len(localChannel') <= ChannelSize
            /\ streamCounter' \in Int /\ sessionCounter' = sessionCounter
        BY <1>1 DEF IInv, TypeOK, counters
      <4> QED
        BY <1>1, <1>2, <1>3, <1>6, <2>1, <2>2, <2>5, <3>2, <3>3, <4>1, LeavesKeeps
    <3>5. QueueOK'
      BY <1>1, <1>2, <1>3, <2>1, <3>1 DEF IInv, QueueOK
    <3>6. HandOK'
      <4>1. \A g \in Handlers : hands[g] # None => hands[g] \in Locals
        BY DEF IInv, TypeOK
      <4> QED
        BY <1>1, <1>2, <1>6, <2>5, <3>1, <4>1 DEF IInv, HandOK
    <3> QED
      BY <2>3, <3>4, <3>5, <3>6 DEF IInv
  <2> QED
    BY <1>8, <2>4, <2>5
<1> QED
  BY <1>4, <1>7, <1>8

(* The run is over: no flow is left to forget.                              *)
LEMMA LoopEndsKeeps == ASSUME IInv, NEW h \in Handlers, NEW r \in BOOLEAN, LoopEnds(h, r) PROVE IInv'
<1> DEFINE l == hands[h]
           d == IF r THEN FreeLocal ELSE Abandoned
<1>1. /\ run = "stopping" /\ hands[h] # None /\ locals' = [locals EXCEPT ![l] = d] /\ hands' = [hands EXCEPT ![h] = None]
      /\ UNCHANGED <<transport, run, queues, tunnels, counters, flows, restarts>>
  BY DEF LoopEnds
<1>2. /\ l \in Locals /\ locals[l].st = "held" /\ transport \notin Mux
      /\ l \in Counted /\ l \in Holders /\ locals[l].via = None
      /\ \A g \in Handlers : g # h => hands[g] # l
      /\ Elems(localChannel) \subseteq Locals \ {l}
      /\ \A s \in Tunnels : tunnels[s].local = None
  BY <1>1, InHand
<1>3. /\ d \in LocalType /\ d.peer = None /\ ~d.open /\ d.via = None /\ d.st = IF r THEN "free" ELSE "left"
  BY FreeTypes
<1>4. (r => release(1)) /\ (~r => active' = active)
  BY DEF LoopEnds
<1> HIDE DEF l, d
<1>5. /\ locals' \in [Locals -> LocalType] /\ locals'[l] = d /\ \A k \in Locals : k # l => locals'[k] = locals[k]
      /\ \A s \in Tunnels : Via(s)' = Via(s) \ {l}
      /\ r => Counted' = Counted \ {l} /\ Holders' = Holders \ {l}
      /\ ~r => Counted' = Counted \cup {l} /\ Holders' = Holders \cup {l}
  BY <1>1, <1>2, <1>3, OneLocal DEF IInv
<1>6. /\ hands' \in [Handlers -> Locals \cup {None}] /\ hands'[h] = None
      /\ \A g \in Handlers : g # h => hands'[g] = hands[g]
  BY <1>1 DEF IInv, TypeOK
<1>7. active' \in Int /\ CapOK'
  <2>1. CASE r
    BY <1>2, <1>4, <1>5, <2>1, CapDown, ReleaseType DEF IInv
  <2>2. CASE ~r
    <3>1. Counted' = Counted /\ Holders' = Holders
      BY <1>2, <1>5, <2>2
    <3> QED
      BY <1>4, <2>2, <3>1, CapStays DEF IInv, TypeOK
  <2> QED
    BY <2>1, <2>2
<1>8. FlowOK'
  <2>1. \A p \in Peers : flows'[p] = None
    BY <1>1 DEF IInv, FlowOK
  <2>2. \A k \in Locals, p \in Peers : ~(locals'[k].peer = p /\ locals'[k].open)
    BY <1>1, <1>3, <1>5 DEF IInv, FlowOK, FlowIsRead
  <2> QED
    BY <1>1, <2>1, <2>2 DEF FlowOK, FlowIsRead
<1>9. StreamOK'
  BY <1>1, <1>5, StreamStays DEF IInv, TypeOK, TunnelType
<1>10. TypeOK'
  BY <1>1, <1>5, <1>6, <1>7 DEF IInv, TypeOK, counters, queues
<1>11. RecordOK'
  BY <1>3, <1>5 DEF IInv, RecordOK
<1>12. QueueOK'
  BY <1>1, <1>2, <1>5 DEF IInv, QueueOK, queues
<1>13. HandOK'
  <2>1. \A g \in Handlers : hands[g] # None => hands[g] \in Locals
    BY DEF IInv, TypeOK
  <2> QED
    BY <1>1, <1>2, <1>5, <1>6, <2>1 DEF IInv, HandOK
<1>14. SessionOK'
  BY <1>1, <1>2 DEF SessionOK
<1> QED
  BY <1>7, <1>8, <1>9, <1>10, <1>11, <1>12, <1>13, <1>14 DEF IInv

LEMMA handleLoopKeeps == ASSUME IInv, NEW h \in Handlers, handleLoop(h) PROVE IInv'
<1>1. {"tcp", "ws", "quic"} \cap Mux = {}
  BY DEF Mux
<1>2. CASE TcpTakeLocal(h) \/ WsTakeLocal(h) \/ QuicTakeLocal(h)
  BY <1>1, <1>2, TakeLocalKeeps DEF TcpTakeLocal, WsTakeLocal, QuicTakeLocal
<1>3. CASE TcpPair(h) \/ WsPair(h) \/ QuicPair(h)
  BY <1>3, PairKeeps DEF TcpPair, WsPair, QuicPair
<1>4. (transport = "quic") \in BOOLEAN
  OBVIOUS
<1> QED
  BY <1>2, <1>3, <1>4, LoopEndsKeeps DEF handleLoop

-----------------------------------------------------------------------------
(* The pool. *)

(* A pool connection moves on and the local connections stay as they are.   *)
LEMMA TunnelKeeps ==
  ASSUME IInv, NEW t \in Tunnels, NEW e \in TunnelType, tunnels' = [tunnels EXCEPT ![t] = e],
         e.local = tunnels[t].local, e.count = tunnels[t].count,
         tunnels[t].local # None => e.st \in {"serving", "failing"},
         transport \notin Mux /\ tunnels[t].st = "serving" => e.st = "serving",
         tunnelChannel' \in Seq(Tunnels), Len(tunnelChannel') <= ChannelSize, Distinct(tunnelChannel'),
         \A s \in Elems(tunnelChannel') : s \in Tunnels /\ IF s = t THEN e.st = "pooled" ELSE tunnels[s].st = "pooled",
         sessionCounter' \in Int,
         UNCHANGED <<transport, run, active, locals, localChannel, reqNewConnChan, hands, streamCounter, flows, restarts>>
  PROVE  IInv'
<1>1. /\ tunnels' \in [Tunnels -> TunnelType]
      /\ tunnels'[t] = e /\ \A s \in Tunnels : s # t => tunnels'[s] = tunnels[s]
  BY OneTunnel DEF IInv
<1>2. TypeOK'
  BY <1>1 DEF IInv, TypeOK
<1>3. QueueOK'
  BY <1>1 DEF IInv, QueueOK
<1>4. HandOK' /\ RecordOK'
  BY DEF IInv, HandOK, RecordOK
<1>5. FlowOK'
  BY DEF IInv, FlowOK, FlowIsRead
<1>6. SessionOK'
  BY <1>1 DEF IInv, SessionOK
<1>7. Counted' = Counted /\ Holders' = Holders /\ \A s \in Tunnels : Via(s)' = Via(s)
  BY DEF Counted, Holders, Via
<1>8. CapOK'
  BY <1>7, CapStays DEF IInv
<1>9. StreamOK'
  <2>1. \A s \in Tunnels : transport \notin Mux /\ Via(s)' # {} => tunnels'[s].st \in {tunnels[s].st, "serving"}
    BY <1>1, <1>7 DEF IInv, StreamOK
  <2>2. \A s \in Tunnels : tunnels'[s].count = tunnels[s].count /\ tunnels[s].count \in Int
    BY <1>1 DEF IInv, TypeOK, TunnelType
  <2> QED
    BY <1>1, <1>7, <2>1, <2>2, StreamStays DEF IInv
<1> QED
  BY <1>2, <1>3, <1>4, <1>5, <1>6, <1>8, <1>9 DEF IInv

LEMMA deliverTunnelConnKeeps == ASSUME IInv, NEW t \in Tunnels, deliverTunnelConn(t) PROVE IInv'
<1> DEFINE e == [tunnels[t] EXCEPT !.st = "pooled"]
<1>1. /\ tunnels[t].st = "free" /\ Len(tunnelChannel) < ChannelSize
      /\ tunnelChannel' = Append(tunnelChannel, t) /\ tunnels' = [tunnels EXCEPT ![t] = e]
      /\ UNCHANGED <<transport, run, active, locals, localChannel, reqNewConnChan, hands, counters, flows, restarts>>
  BY DEF deliverTunnelConn
<1>2. tunnels[t] \in TunnelType
  BY DEF IInv, TypeOK
<1>3. e \in TunnelType /\ e.st = "pooled" /\ e.local = tunnels[t].local /\ e.count = tunnels[t].count
  BY <1>2 DEF TunnelType
<1> HIDE DEF e
<1>4. tunnels[t].local = None /\ t \notin Elems(tunnelChannel) /\ tunnelChannel \in Seq(Tunnels)
  BY <1>1 DEF IInv, SessionOK, QueueOK, TypeOK
<1>5. /\ tunnelChannel' \in Seq(Tunnels) /\ Len(tunnelChannel') = Len(tunnelChannel) + 1
      /\ Distinct(tunnelChannel') /\ Elems(tunnelChannel') = Elems(tunnelChannel) \cup {t}
  BY <1>1, <1>4, Appended DEF IInv, QueueOK
<1>6. Elems(tunnelChannel) \subseteq Tunnels
  BY <1>4 DEF Elems
<1>7. Len(tunnelChannel') <= ChannelSize /\ sessionCounter' \in Int
  BY <1>1, <1>4, <1>5 DEF IInv, TypeOK, counters
<1>8. \A s \in Elems(tunnelChannel') : s \in Tunnels /\ IF s = t THEN e.st = "pooled" ELSE tunnels[s].st = "pooled"
  BY <1>3, <1>5, <1>6 DEF IInv, QueueOK
<1> QED
  BY <1>1, <1>3, <1>4, <1>5, <1>7, <1>8, TunnelKeeps DEF counters

LEMMA TakeSessionKeeps == ASSUME IInv, TakeSession PROVE IInv'
<1>1. /\ transport \in Mux /\ tunnelChannel # <<>> /\ tunnelChannel' = Tail(tunnelChannel)
      /\ sessionCounter' = sessionCounter + 1
      /\ UNCHANGED <<transport, run, active, locals, localChannel, reqNewConnChan, hands, streamCounter, flows, restarts>>
  BY DEF TakeSession
<1>t. PICK t \in Tunnels : t = Head(tunnelChannel)
  BY <1>1, PoolHeadFacts
<1> DEFINE e == [tunnels[t] EXCEPT !.st = "serving"]
<1>2. tunnels[t] \in TunnelType
  BY DEF IInv, TypeOK
<1>3. e \in TunnelType /\ e.st = "serving" /\ e.local = tunnels[t].local /\ e.count = tunnels[t].count
  BY <1>2 DEF TunnelType
<1>4. tunnels' = [tunnels EXCEPT ![t] = e]
  BY <1>t DEF TakeSession
<1> HIDE DEF e
<1>5. /\ tunnels[t].st = "pooled" /\ tunnels[t].local = None
      /\ tunnelChannel' \in Seq(Tunnels) /\ Len(tunnelChannel') <= ChannelSize
      /\ Distinct(tunnelChannel') /\ Elems(tunnelChannel') \subseteq Tunnels \ {t}
      /\ \A s \in Elems(tunnelChannel') : tunnels[s].st = "pooled"
  BY <1>1, <1>t, PoolHeadFacts
<1>6. sessionCounter' \in Int
  BY <1>1 DEF IInv, TypeOK
<1>7. \A s \in Elems(tunnelChannel') : s \in Tunnels /\ IF s = t THEN e.st = "pooled" ELSE tunnels[s].st = "pooled"
  BY <1>5
<1> QED
  BY <1>1, <1>3, <1>4, <1>5, <1>6, <1>7, TunnelKeeps

LEMMA BreakTunnelKeeps == ASSUME IInv, NEW t \in Tunnels, BreakTunnel(t) PROVE IInv'
<1> DEFINE e == [tunnels[t] EXCEPT !.broken = TRUE]
<1>1. /\ tunnels' = [tunnels EXCEPT ![t] = e]
      /\ UNCHANGED <<transport, run, active, locals, queues, hands, counters, flows, restarts>>
  BY DEF BreakTunnel
<1>2. tunnels[t] \in TunnelType
  BY DEF IInv, TypeOK
<1>3. e \in TunnelType /\ e.st = tunnels[t].st /\ e.local = tunnels[t].local /\ e.count = tunnels[t].count
  BY <1>2 DEF TunnelType
<1> HIDE DEF e
<1>4. tunnelChannel' \in Seq(Tunnels) /\ Len(tunnelChannel') <= ChannelSize /\ Distinct(tunnelChannel') /\ sessionCounter' \in Int
  BY <1>1 DEF IInv, TypeOK, QueueOK, queues, counters
<1>5. \A s \in Elems(tunnelChannel') : s \in Tunnels /\ IF s = t THEN e.st = "pooled" ELSE tunnels[s].st = "pooled"
  <2>1. Elems(tunnelChannel) \subseteq Tunnels
    BY DEF IInv, TypeOK, Elems
  <2> QED
    BY <1>1, <1>3, <2>1 DEF IInv, QueueOK, queues
<1>6. tunnels[t].local # None => e.st \in {"serving", "failing"}
  BY <1>3 DEF IInv, SessionOK
<1> QED
  BY <1>1, <1>3, <1>4, <1>5, <1>6, TunnelKeeps DEF queues, counters

LEMMA SendRequestKeeps == ASSUME IInv, SendRequest PROVE IInv'
<1>1. /\ reqNewConnChan > 0 /\ reqNewConnChan' = reqNewConnChan - 1
      /\ UNCHANGED <<transport, run, active, locals, localChannel, tunnelChannel, tunnels, hands, counters, flows, restarts>>
  BY DEF SendRequest
<1>2. TypeOK'
  BY <1>1 DEF IInv, TypeOK, counters
<1>3. QueueOK' /\ HandOK' /\ SessionOK' /\ RecordOK'
  BY <1>1 DEF IInv, QueueOK, HandOK, SessionOK, RecordOK
<1>4. FlowOK'
  BY <1>1 DEF IInv, FlowOK, FlowIsRead
<1>5. CapOK' /\ StreamOK'
  BY <1>1 DEF IInv, CapOK, StreamOK, Counted, Holders, Via
<1> QED
  BY <1>2, <1>3, <1>4, <1>5 DEF IInv

-----------------------------------------------------------------------------
(* Sessions. *)

LEMMA NoHandInMux == ASSUME IInv, transport \in Mux PROVE \A h \in Handlers : hands[h] = None
BY DEF IInv, HandOK

LEMMA handleSessionKeeps == ASSUME IInv, NEW t \in Tunnels, handleSession(t), transport \in Mux PROVE IInv'
<1>1. /\ tunnels[t].st = "serving" /\ tunnels[t].local = None /\ tunnels[t].count < MuxCon
      /\ localChannel # <<>> /\ localChannel' = Tail(localChannel)
      /\ UNCHANGED <<transport, run, active, reqNewConnChan, tunnelChannel, hands, restarts>>
  BY DEF handleSession, hasRoom
<1>l. PICK l \in Locals : l = Head(localChannel)
  BY <1>1, HeadFacts
<1>2. /\ locals[l].st = "queued" /\ locals[l].via = None /\ l \in Counted /\ l \in Holders
      /\ localChannel' \in Seq(Locals) /\ Len(localChannel') <= ChannelSize
      /\ Distinct(localChannel') /\ Elems(localChannel') \subseteq Locals \ {l}
      /\ \A k \in Elems(localChannel') : locals[k].st = "queued"
      /\ \A s \in Tunnels : tunnels[s].local # None => tunnels[s].local \in Locals \ {l}
  BY <1>1, <1>l, HeadFacts
<1>3. \/ /\ locals' = Gone(l) /\ flows' = forget(l, flows) /\ streamCounter' = streamCounter - 1
         /\ UNCHANGED <<tunnels, sessionCounter>>
      \/ /\ locals' = [locals EXCEPT ![l].st = "carried", ![l].via = t]
         /\ tunnels' = [tunnels EXCEPT ![t].count = @ + 1]
         /\ UNCHANGED <<streamCounter, sessionCounter, flows>>
      \/ /\ locals' = [locals EXCEPT ![l].st = "held"]
         /\ \/ /\ tunnels' = [tunnels EXCEPT ![t].st = "failing", ![t].local = l]
               /\ sessionCounter' = sessionCounter - 1
            \/ /\ tunnels' = [tunnels EXCEPT ![t].count = @ + 1, ![t].local = l]
               /\ UNCHANGED sessionCounter
         /\ UNCHANGED <<streamCounter, flows>>
  BY <1>l DEF handleSession
<1>4. hands' = hands /\ \A h \in Handlers : hands'[h] = None
  BY <1>1, NoHandInMux
<1>5. HandOK'
  BY <1>4 DEF HandOK
<1>6. locals[l] \in LocalType /\ tunnels[t] \in TunnelType
  BY DEF IInv, TypeOK
<1>7. t \notin Elems(tunnelChannel) /\ Elems(tunnelChannel) \subseteq Tunnels
  BY <1>1 DEF IInv, QueueOK, TypeOK, Elems
<1>8. tunnels[t].count \in 0 .. MuxCon /\ tunnels[t].count + 1 \in 0 .. MuxCon
  BY <1>1, <1>6 DEF TunnelType
<1>9. CASE /\ locals' = Gone(l) /\ flows' = forget(l, flows) /\ streamCounter' = streamCounter - 1
           /\ UNCHANGED <<tunnels, sessionCounter>>
  <2>1. /\ locals'[l] = FreeLocal /\ \A k \in Locals : k # l => locals'[k] = locals[k]
        /\ \A s \in Tunnels : Via(s)' = Via(s) \ {l}
    BY <1>9, GoneFacts
  <2>2. FlowOK' /\ flows' \in [Peers -> Locals \cup {None}]
    BY <1>1, <1>9, <2>1, FreeTypes, FlowGone DEF IInv
  <2>3. StreamOK'
    BY <1>1, <1>9, <2>1, StreamStays DEF IInv, TypeOK, TunnelType
  <2>4. TypeOK' /\ RecordOK' /\ FlowOK' /\ CapOK' /\ StreamOK'
    <3>1. /\ tunnels' \in [Tunnels -> TunnelType] /\ tunnelChannel' \in Seq(Tunnels) /\ Len(tunnelChannel') <= ChannelSize
          /\ reqNewConnChan' \in 0 .. ChannelSize /\ hands' \in [Handlers -> Locals \cup {None}]
          /\ streamCounter' \in Int /\ sessionCounter' = sessionCounter
      BY <1>1, <1>9 DEF IInv, TypeOK
    <3> QED
      BY <1>1, <1>2, <1>9, <2>2, <2>3, <3>1, LeavesKeeps
  <2>5. QueueOK'
    BY <1>1, <1>2, <1>9, <2>1 DEF IInv, QueueOK
  <2>6. SessionOK'
    BY <1>1, <1>2, <1>9, <2>1 DEF IInv, SessionOK
  <2> QED
    BY <1>5, <2>4, <2>5, <2>6 DEF IInv
<1>10. CASE /\ locals' = [locals EXCEPT ![l].st = "carried", ![l].via = t]
            /\ tunnels' = [tunnels EXCEPT ![t].count = @ + 1]
            /\ UNCHANGED <<streamCounter, sessionCounter, flows>>
  <2> DEFINE d == [locals[l] EXCEPT !.st = "carried", !.via = t]
             e == [tunnels[t] EXCEPT !.count = @ + 1]
  <2>1. d \in LocalType /\ d.st = "carried" /\ d.via = t /\ d.peer = locals[l].peer /\ d.open = locals[l].open
    BY <1>6 DEF LocalType
  <2>2. e \in TunnelType /\ e.st = tunnels[t].st /\ e.local = tunnels[t].local /\ e.count = tunnels[t].count + 1
    BY <1>6, <1>8 DEF TunnelType
  <2>3. locals' = [locals EXCEPT ![l] = d] /\ tunnels' = [tunnels EXCEPT ![t] = e]
    BY <1>10 DEF IInv, TypeOK
  <2> HIDE DEF d, e
  <2>4. /\ locals' \in [Locals -> LocalType]
        /\ locals'[l] = d /\ \A k \in Locals : k # l => locals'[k] = locals[k]
        /\ Counted' = Counted \cup {l} /\ Holders' = Holders \cup {l}
    BY <2>1, <2>3, OneLocal DEF IInv
  <2>5. /\ tunnels' \in [Tunnels -> TunnelType]
        /\ tunnels'[t] = e /\ \A s \in Tunnels : s # t => tunnels'[s] = tunnels[s]
    BY <2>2, <2>3, OneTunnel DEF IInv
  <2>6. TypeOK'
    BY <1>1, <1>2, <1>10, <2>4, <2>5 DEF IInv, TypeOK
  <2>7. QueueOK'
    BY <1>1, <1>2, <1>7, <2>4, <2>5 DEF IInv, QueueOK
  <2>8. SessionOK'
    BY <1>1, <1>2, <2>2, <2>4, <2>5 DEF IInv, SessionOK
  <2>9. RecordOK'
    BY <2>1, <2>4 DEF IInv, RecordOK
  <2>10. FlowOK'
    BY <1>1, <1>10, <2>1, <2>4, FlowStays DEF IInv
  <2>11. CapOK'
    BY <1>1, <1>2, <2>4, CapStays DEF IInv
  <2>12. StreamOK'
    <3>1. Via(t)' = Via(t) \cup {l} /\ l \notin Via(t) /\ \A s \in Tunnels : s # t => Via(s)' = Via(s)
      BY <1>2, <2>1, <2>4, GetsCarrier
    <3>2. Cardinality(Via(t)') = Cardinality(Via(t)) + 1 /\ Cardinality(Via(t)) \in Nat
      <4>1. IsFiniteSet(Via(t)) /\ Cardinality(Via(t)) \in Nat
        BY ViaFinite DEF IInv
      <4> QED
        BY <3>1, <4>1, FS_AddElement
    <3>3. ASSUME NEW s \in Tunnels PROVE Cardinality(Via(s)') <= tunnels'[s].count
      <4>1. CASE s = t
        BY <1>8, <2>2, <2>5, <3>2, <4>1 DEF IInv, StreamOK
      <4>2. CASE s # t
        BY <2>5, <3>1, <4>2 DEF IInv, StreamOK
      <4> QED
        BY <4>1, <4>2
    <3> QED
      BY <1>1, <3>3 DEF StreamOK
  <2> QED
    BY <1>5, <2>6, <2>7, <2>8, <2>9, <2>10, <2>11, <2>12 DEF IInv
<1>11. CASE /\ locals' = [locals EXCEPT ![l].st = "held"]
            /\ \/ /\ tunnels' = [tunnels EXCEPT ![t].st = "failing", ![t].local = l]
                  /\ sessionCounter' = sessionCounter - 1
               \/ /\ tunnels' = [tunnels EXCEPT ![t].count = @ + 1, ![t].local = l]
                  /\ UNCHANGED sessionCounter
            /\ UNCHANGED <<streamCounter, flows>>
  <2> DEFINE d  == [locals[l] EXCEPT !.st = "held"]
             e1 == [tunnels[t] EXCEPT !.st = "failing", !.local = l]
             e2 == [tunnels[t] EXCEPT !.count = @ + 1, !.local = l]
  <2>1. d \in LocalType /\ d.st = "held" /\ d.via = locals[l].via /\ d.peer = locals[l].peer /\ d.open = locals[l].open
    BY <1>6 DEF LocalType
  <2>2. e1 \in TunnelType /\ e1.st = "failing" /\ e1.local = l /\ e1.count = tunnels[t].count
    BY <1>6 DEF TunnelType
  <2>3. e2 \in TunnelType /\ e2.st = "serving" /\ e2.local = l /\ e2.count = tunnels[t].count + 1
    BY <1>1, <1>6, <1>8 DEF TunnelType
  <2>4. /\ locals' = [locals EXCEPT ![l] = d]
        /\ tunnels' = [tunnels EXCEPT ![t] = e1] \/ tunnels' = [tunnels EXCEPT ![t] = e2]
    BY <1>11 DEF IInv, TypeOK
  <2> HIDE DEF d, e1, e2
  <2>5. PICK e \in {e1, e2} : tunnels' = [tunnels EXCEPT ![t] = e]
    BY <2>4
  <2>6. e \in TunnelType /\ e.st \in {"serving", "failing"} /\ e.local = l /\ e.count >= tunnels[t].count
    BY <1>8, <2>2, <2>3, <2>5
  <2>7. /\ tunnels' \in [Tunnels -> TunnelType]
        /\ tunnels'[t] = e /\ \A s \in Tunnels : s # t => tunnels'[s] = tunnels[s]
    BY <2>5, <2>6, OneTunnel DEF IInv
  <2>8. /\ locals' \in [Locals -> LocalType]
        /\ locals'[l] = d /\ \A k \in Locals : k # l => locals'[k] = locals[k]
        /\ Counted' = Counted \cup {l} /\ Holders' = Holders \cup {l}
        /\ \A s \in Tunnels : Via(s)' = Via(s)
    BY <2>1, <2>4, OneLocal DEF IInv
  <2>9. TypeOK'
    BY <1>1, <1>2, <1>11, <2>7, <2>8 DEF IInv, TypeOK
  <2>10. QueueOK'
    BY <1>1, <1>2, <1>7, <2>7, <2>8 DEF IInv, QueueOK
  <2>11. SessionOK'
    BY <1>1, <1>2, <2>1, <2>6, <2>7, <2>8 DEF IInv, SessionOK
  <2>12. RecordOK'
    BY <1>2, <2>1, <2>8 DEF IInv, RecordOK
  <2>13. FlowOK'
    BY <1>1, <1>11, <2>1, <2>8, FlowStays DEF IInv
  <2>14. CapOK'
    BY <1>1, <1>2, <2>8, CapStays DEF IInv
  <2>15. StreamOK'
    <3>1. \A s \in Tunnels : tunnels'[s].count >= tunnels[s].count
      <4>1. \A s \in Tunnels : tunnels[s].count \in Int
        BY DEF IInv, TypeOK, TunnelType
      <4> QED
        BY <2>6, <2>7, <4>1
    <3> QED
      BY <1>1, <2>7, <2>8, <3>1, StreamStays DEF IInv
  <2> QED
    BY <1>5, <2>9, <2>10, <2>11, <2>12, <2>13, <2>14, <2>15 DEF IInv
<1> QED
  BY <1>3, <1>9, <1>10, <1>11

(* What a failed session has in its hands is in no other place.             *)
LEMMA InSession ==
  ASSUME IInv, NEW t \in Tunnels, tunnels[t].local # None
  PROVE  /\ tunnels[t].local \in Locals /\ locals[tunnels[t].local].st = "held" /\ transport \in Mux
         /\ locals[tunnels[t].local].via = None
         /\ \A s \in Tunnels : s # t => tunnels[s].local # tunnels[t].local
         /\ tunnels[t].local \notin Elems(localChannel) /\ t \notin Elems(tunnelChannel)
<1>1. tunnels[t].local \in Locals /\ locals[tunnels[t].local].st = "held" /\ transport \in Mux
  BY DEF IInv, TypeOK, TunnelType, SessionOK
<1>2. locals[tunnels[t].local].via = None
  BY <1>1 DEF IInv, RecordOK
<1>3. \A s \in Tunnels : s # t => tunnels[s].local # tunnels[t].local
  BY DEF IInv, SessionOK
<1>4. tunnels[t].local \notin Elems(localChannel) /\ t \notin Elems(tunnelChannel)
  BY <1>1 DEF IInv, QueueOK, SessionOK
<1> QED
  BY <1>1, <1>2, <1>3, <1>4

(* A session gives back what it has in hand, and keeps or loses its         *)
(* streams.                                                                 *)
LEMMA PutBackKeeps ==
  ASSUME IInv, NEW t \in Tunnels, PutBack(t), NEW l \in Locals, l = tunnels[t].local,
         locals' \in [Locals -> LocalType], locals'[l].st = "queued",
         \A k \in Locals : /\ k # l => locals'[k].st = locals[k].st
                           /\ locals'[k].peer = locals[k].peer /\ (locals'[k].open <=> locals[k].open)
                           /\ locals'[k].via \in {locals[k].via, None},
         NEW e \in TunnelType, tunnels' = [tunnels EXCEPT ![t] = e], e.local = None,
         Via(t)' = {} \/ e.count = tunnels[t].count,
         reqNewConnChan' \in 0 .. ChannelSize
  PROVE  IInv'
<1>1. /\ tunnels[t].local # None /\ Len(localChannel) < ChannelSize /\ localChannel' = Append(localChannel, l)
      /\ UNCHANGED <<transport, run, active, tunnelChannel, hands, counters, flows, restarts>>
  BY DEF PutBack
<1>2. /\ locals[l].st = "held" /\ transport \in Mux /\ locals[l].via = None
      /\ \A s \in Tunnels : s # t => tunnels[s].local # l
      /\ l \notin Elems(localChannel) /\ t \notin Elems(tunnelChannel)
  BY <1>1, InSession
<1>3. /\ tunnels' \in [Tunnels -> TunnelType]
      /\ tunnels'[t] = e /\ \A s \in Tunnels : s # t => tunnels'[s] = tunnels[s]
  BY OneTunnel DEF IInv
<1>4. /\ localChannel' \in Seq(Locals) /\ Len(localChannel') = Len(localChannel) + 1
      /\ Distinct(localChannel') /\ Elems(localChannel') = Elems(localChannel) \cup {l}
  BY <1>1, <1>2, Appended DEF IInv, TypeOK, QueueOK
<1>5. TypeOK'
  <2>1. Len(localChannel') <= ChannelSize
    BY <1>1, <1>4 DEF IInv, TypeOK
  <2> QED
    BY <1>1, <1>3, <1>4, <2>1 DEF IInv, TypeOK, counters
<1>6. QueueOK'
  <2>1. Elems(localChannel) \subseteq Locals /\ Elems(tunnelChannel) \subseteq Tunnels
    BY DEF IInv, TypeOK, Elems
  <2>2. \A k \in Elems(localChannel') : locals'[k].st = "queued"
    BY <1>2, <1>4, <2>1 DEF IInv, QueueOK
  <2>3. \A s \in Elems(tunnelChannel') : tunnels'[s].st = "pooled"
    BY <1>1, <1>2, <1>3, <2>1 DEF IInv, QueueOK
  <2> QED
    BY <1>1, <1>4, <2>2, <2>3 DEF IInv, QueueOK
<1>7. HandOK'
  BY <1>1, <1>2, NoHandInMux DEF HandOK
<1>8. SessionOK'
  <2>1. \A s \in Tunnels : tunnels[s].local # None => tunnels[s].local \in Locals
    BY DEF IInv, TypeOK, TunnelType
  <2> QED
    BY <1>1, <1>2, <1>3, <2>1 DEF IInv, SessionOK
<1>9. RecordOK'
  BY <1>2 DEF IInv, RecordOK
<1>10. FlowOK'
  <2>1. \A k \in Locals : locals[k].st \in {"queued", "held", "carried"} => locals'[k].st \in {"queued", "held", "carried"}
    OBVIOUS
  <2> QED
    BY <1>1, <2>1, FlowStays DEF IInv
<1>11. CapOK'
  <2>1. Counted' = Counted /\ Holders' = Holders
    BY <1>2 DEF Counted, Holders
  <2> QED
    BY <1>1, <2>1, CapStays DEF IInv
<1>12. StreamOK'
  <2>1. \A s \in Tunnels : Via(s)' \subseteq Via(s)
    BY DEF Via
  <2>2. \A s \in Tunnels : tunnels[s].count \in Int
    BY DEF IInv, TypeOK, TunnelType
  <2> QED
    BY <1>1, <1>2, <1>3, <2>1, <2>2, StreamStays DEF IInv
<1> QED
  BY <1>5, <1>6, <1>7, <1>8, <1>9, <1>10, <1>11, <1>12 DEF IInv

LEMMA SendFailedKeeps == ASSUME IInv, NEW t \in Tunnels, SendFailed(t) PROVE IInv'
<1>1. PutBack(t) /\ tunnels[t].local # None /\ reqNewConnChan' = reqNewConnChan
  BY DEF SendFailed, PutBack
<1>l. PICK l \in Locals : l = tunnels[t].local
  BY <1>1, InSession
<1> DEFINE d == [locals[l] EXCEPT !.st = "queued"]
           e == [tunnels[t] EXCEPT !.local = None]
<1>2. locals[l] \in LocalType /\ tunnels[t] \in TunnelType
  BY DEF IInv, TypeOK
<1>3. d \in LocalType /\ d.st = "queued" /\ d.via = locals[l].via /\ d.peer = locals[l].peer /\ d.open = locals[l].open
  BY <1>2 DEF LocalType
<1>4. e \in TunnelType /\ e.local = None /\ e.count = tunnels[t].count
  BY <1>2 DEF TunnelType
<1>5. locals' = [locals EXCEPT ![l] = d] /\ tunnels' = [tunnels EXCEPT ![t] = e]
  BY <1>l DEF SendFailed
<1> HIDE DEF d, e
<1>6. /\ locals' \in [Locals -> LocalType]
      /\ locals'[l] = d /\ \A k \in Locals : k # l => locals'[k] = locals[k]
  BY <1>3, <1>5, OneLocal DEF IInv
<1>7. reqNewConnChan' \in 0 .. ChannelSize
  BY <1>1 DEF IInv, TypeOK
<1>8. \A k \in Locals : /\ k # l => locals'[k].st = locals[k].st
                        /\ locals'[k].peer = locals[k].peer /\ (locals'[k].open <=> locals[k].open)
                        /\ locals'[k].via \in {locals[k].via, None}
  BY <1>3, <1>6
<1>9. locals'[l].st = "queued"
  BY <1>3, <1>6
<1>10. PICK f \in TunnelType : f = e
  BY <1>4
<1> QED
  BY <1>1, <1>l, <1>4, <1>5, <1>6, <1>7, <1>8, <1>9, <1>10, PutBackKeeps

(* The streams of a session that returns lose it, and nothing else.         *)
LEMMA Orphaned ==
  ASSUME IInv, NEW t \in Tunnels
  PROVE  /\ Orphan(t) \in [Locals -> LocalType]
         /\ \A k \in Locals : /\ Orphan(t)[k].st = locals[k].st /\ Orphan(t)[k].peer = locals[k].peer
                              /\ Orphan(t)[k].open = locals[k].open
                              /\ Orphan(t)[k].via = IF locals[k].via = t THEN None ELSE locals[k].via
                              /\ locals[k].via # t => Orphan(t)[k] = locals[k]
<1> DEFINE d(k) == [locals[k] EXCEPT !.via = None]
<1>1. ASSUME NEW k \in Locals
      PROVE  /\ d(k) \in LocalType /\ d(k).via = None /\ d(k).st = locals[k].st
             /\ d(k).peer = locals[k].peer /\ d(k).open = locals[k].open
  <2>1. locals[k] \in LocalType
    BY DEF IInv, TypeOK
  <2> QED
    BY <2>1 DEF LocalType
<1>2. Orphan(t) = [k \in Locals |-> IF locals[k].via = t THEN d(k) ELSE locals[k]]
  BY DEF Orphan
<1>3. \A k \in Locals : locals[k] \in LocalType
  BY DEF IInv, TypeOK
<1> HIDE DEF d
<1> QED
  BY <1>1, <1>2, <1>3

LEMMA handleSessionErrorKeeps == ASSUME IInv, NEW t \in Tunnels, handleSessionError(t) PROVE IInv'
<1>1. PutBack(t) /\ tunnels[t].local # None /\ Request /\ tunnels' = [tunnels EXCEPT ![t] = FreeTunnel]
  BY DEF handleSessionError, PutBack
<1>l. PICK l \in Locals : l = tunnels[t].local
  BY <1>1, InSession
<1>2. /\ Orphan(t) \in [Locals -> LocalType]
      /\ \A k \in Locals : /\ Orphan(t)[k].st = locals[k].st /\ Orphan(t)[k].peer = locals[k].peer
                           /\ Orphan(t)[k].open = locals[k].open
                           /\ Orphan(t)[k].via = IF locals[k].via = t THEN None ELSE locals[k].via
  BY Orphaned
<1> DEFINE o == Orphan(t)
           d == [o[l] EXCEPT !.st = "queued"]
<1>3. o[l] \in LocalType
  BY <1>2
<1>4. d \in LocalType /\ d.st = "queued" /\ d.via = o[l].via /\ d.peer = o[l].peer /\ d.open = o[l].open
  BY <1>3 DEF LocalType
<1>5. locals' = [o EXCEPT ![l] = d]
  BY <1>l DEF handleSessionError
<1> HIDE DEF d
<1>6. locals' \in [Locals -> LocalType] /\ locals'[l] = d /\ \A k \in Locals : k # l => locals'[k] = o[k]
  BY <1>2, <1>4, <1>5
<1>7. \A k \in Locals : /\ k # l => locals'[k].st = locals[k].st
                        /\ locals'[k].peer = locals[k].peer /\ (locals'[k].open <=> locals[k].open)
                        /\ locals'[k].via = IF locals[k].via = t THEN None ELSE locals[k].via
  BY <1>2, <1>4, <1>6
<1>8. Via(t)' = {}
  BY <1>7 DEF Via
<1>9. reqNewConnChan' \in 0 .. ChannelSize
  BY <1>1, RequestType DEF IInv
<1>10. \A k \in Locals : locals'[k].via \in {locals[k].via, None}
  BY <1>7
<1> QED
  BY <1>1, <1>l, <1>4, <1>6, <1>7, <1>8, <1>9, <1>10, FreeTypes, PutBackKeeps

LEMMA SessionEndsKeeps == ASSUME IInv, NEW t \in Tunnels, SessionEnds(t) PROVE IInv'
<1>1. /\ transport \in Mux /\ tunnels[t].st = "serving" /\ tunnels' = [tunnels EXCEPT ![t] = FreeTunnel]
      /\ locals' = Orphan(t)
      /\ UNCHANGED <<transport, run, active, queues, hands, counters, flows, restarts>>
  BY DEF SessionEnds
<1>2. /\ locals' \in [Locals -> LocalType]
      /\ \A k \in Locals : /\ locals'[k].st = locals[k].st /\ locals'[k].peer = locals[k].peer
                           /\ locals'[k].open = locals[k].open
                           /\ locals'[k].via = IF locals[k].via = t THEN None ELSE locals[k].via
  BY <1>1, Orphaned
<1>3. /\ tunnels' \in [Tunnels -> TunnelType]
      /\ tunnels'[t] = FreeTunnel /\ \A s \in Tunnels : s # t => tunnels'[s] = tunnels[s]
  BY <1>1, FreeTypes, OneTunnel DEF IInv
<1>4. TypeOK'
  BY <1>1, <1>2, <1>3 DEF IInv, TypeOK, queues, counters
<1>5. QueueOK'
  <2>1. Elems(localChannel) \subseteq Locals /\ Elems(tunnelChannel) \subseteq Tunnels
    BY DEF IInv, TypeOK, Elems
  <2>2. t \notin Elems(tunnelChannel)
    BY <1>1 DEF IInv, QueueOK
  <2> QED
    BY <1>1, <1>2, <1>3, <2>1, <2>2 DEF IInv, QueueOK, queues
<1>6. HandOK'
  BY <1>1, NoHandInMux DEF HandOK
<1>7. SessionOK'
  <2>1. \A s \in Tunnels : tunnels[s].local # None => tunnels[s].local \in Locals
    BY DEF IInv, TypeOK, TunnelType
  <2> QED
    BY <1>1, <1>2, <1>3, <2>1, FreeTypes DEF IInv, SessionOK
<1>8. RecordOK'
  BY <1>2 DEF IInv, RecordOK
<1>9. FlowOK'
  BY <1>1, <1>2, FlowStays DEF IInv
<1>10. CapOK'
  <2>1. Counted' = Counted /\ Holders' = Holders
    BY <1>2 DEF Counted, Holders
  <2> QED
    BY <1>1, <2>1, CapStays DEF IInv
<1>11. StreamOK'
  <2>1. Via(t)' = {} /\ \A s \in Tunnels : Via(s)' \subseteq Via(s)
    BY <1>2 DEF Via
  <2>2. \A s \in Tunnels : tunnels[s].count \in Int
    BY DEF IInv, TypeOK, TunnelType
  <2> QED
    BY <1>1, <1>3, <2>1, <2>2, StreamStays DEF IInv
<1> QED
  BY <1>4, <1>5, <1>6, <1>7, <1>8, <1>9, <1>10, <1>11 DEF IInv

LEMMA SessionStepKeeps == ASSUME IInv, NEW t \in Tunnels, SessionStep(t) PROVE IInv'
<1>1. CASE TcpMuxSession(t) \/ KcpSession(t) \/ WsMuxSession(t)
  BY <1>1, handleSessionKeeps DEF TcpMuxSession, KcpSession, WsMuxSession, Mux
<1>2. CASE TcpMuxSessionError(t) \/ KcpSessionError(t) \/ WsMuxSessionError(t)
  BY <1>2, handleSessionErrorKeeps DEF TcpMuxSessionError, KcpSessionError, WsMuxSessionError
<1> QED
  BY <1>1, <1>2, SendFailedKeeps, SessionEndsKeeps DEF SessionStep

-----------------------------------------------------------------------------
(* Restart. *)

LEMMA RestartStopsKeeps == ASSUME IInv, RestartStops PROVE IInv'
<1>1. /\ run = "up" /\ restarts < MaxRestarts /\ restarts' = restarts + 1 /\ run' = "stopping"
      /\ flows' = [p \in Peers |-> None]
      /\ UNCHANGED <<transport, active, queues, tunnels, hands, counters>>
  BY DEF RestartStops
<1> DEFINE d(k) == [locals[k] EXCEPT !.open = FALSE]
<1>2. ASSUME NEW k \in Locals
      PROVE  /\ d(k) \in LocalType /\ d(k).via = locals[k].via /\ d(k).st = locals[k].st
             /\ d(k).peer = locals[k].peer /\ ~d(k).open
  <2>1. locals[k] \in LocalType
    BY DEF IInv, TypeOK
  <2> QED
    BY <2>1 DEF LocalType
<1>3. locals' = [k \in Locals |-> IF locals[k].peer \in Peers THEN d(k) ELSE locals[k]]
  BY DEF RestartStops
<1>4. \A k \in Locals : locals[k] \in LocalType
  BY DEF IInv, TypeOK
<1> HIDE DEF d
<1>5. /\ locals' \in [Locals -> LocalType]
      /\ \A k \in Locals : /\ locals'[k].st = locals[k].st /\ locals'[k].peer = locals[k].peer
                           /\ locals'[k].via = locals[k].via
                           /\ locals[k].peer \in Peers => ~locals'[k].open
                           /\ locals[k].peer \notin Peers => locals'[k] = locals[k]
  BY <1>2, <1>3, <1>4
<1>6. flows' \in [Peers -> Locals \cup {None}] /\ \A p \in Peers : flows'[p] = None
  BY <1>1
<1>7. TypeOK'
  BY <1>1, <1>5, <1>6 DEF IInv, TypeOK, queues, counters
<1>8. QueueOK' /\ HandOK' /\ SessionOK'
  BY <1>1, <1>5, PlacesStay DEF IInv, queues
<1>9. RecordOK'
  BY <1>5 DEF IInv, RecordOK
<1>10. FlowOK'
  BY <1>5, <1>6 DEF FlowOK, FlowIsRead
<1>11. Counted' = Counted /\ Holders' = Holders /\ \A s \in Tunnels : Via(s)' = Via(s)
  BY <1>5 DEF Counted, Holders, Via
<1>12. CapOK'
  BY <1>1, <1>11, CapStays DEF IInv
<1>13. StreamOK'
  BY <1>1, <1>11, StreamStays DEF IInv, TypeOK, TunnelType
<1> QED
  BY <1>7, <1>8, <1>9, <1>10, <1>12, <1>13 DEF IInv

LEMMA RestartStartsKeeps == ASSUME IInv, NEW c, RestartStarts(c) PROVE IInv'
<1>1. /\ run = "stopping" /\ run' = "up" /\ \A h \in Handlers : hands[h] = None
      /\ localChannel' = <<>> /\ reqNewConnChan' = 0 /\ tunnelChannel' = <<>>
      /\ locals' = [l \in Locals |-> Replaced(l)] /\ tunnels' = [t \in Tunnels |-> FreeTunnel]
      /\ UNCHANGED <<transport, active, hands, flows, restarts>>
  BY DEF RestartStarts
<1>2. streamCounter' \in Int /\ sessionCounter' \in Int
  BY DEF RestartStarts, counters, IInv, TypeOK
<1> DEFINE d(k) == [locals[k] EXCEPT !.old = FALSE, !.via = None]
<1>3. ASSUME NEW k \in Locals
      PROVE  /\ locals[k] \in LocalType
             /\ d(k) \in LocalType /\ d(k).via = None /\ d(k).st = locals[k].st
             /\ d(k).peer = locals[k].peer /\ d(k).open = locals[k].open
  <2>1. locals[k] \in LocalType
    BY DEF IInv, TypeOK
  <2> QED
    BY <2>1 DEF LocalType
<1>4. \A k \in Locals : locals'[k] = IF locals[k].st \in {"queued", "held"} THEN Abandoned
                                     ELSE IF locals[k].st = "carried" THEN d(k) ELSE locals[k]
  BY <1>1 DEF Replaced
<1>5. DOMAIN locals' = Locals /\ locals' = [l \in Locals |-> locals'[l]]
  BY <1>1
<1> HIDE DEF d
<1>6. locals' \in [Locals -> LocalType]
  BY <1>3, <1>4, <1>5, FreeTypes
<1>7. \A k \in Locals : locals'[k].via = None
  BY <1>3, <1>4, FreeTypes DEF IInv, RecordOK
<1>8. \A p \in Peers : flows[p] = None
  BY <1>1 DEF IInv, FlowOK
<1>9. TypeOK'
  <2>1. tunnels' \in [Tunnels -> TunnelType]
    BY <1>1, FreeTypes
  <2>2. localChannel' \in Seq(Locals) /\ Len(localChannel') <= ChannelSize
        /\ tunnelChannel' \in Seq(Tunnels) /\ Len(tunnelChannel') <= ChannelSize
    BY <1>1
  <2> QED
    BY <1>1, <1>2, <1>6, <2>1, <2>2 DEF IInv, TypeOK
<1>10. QueueOK'
  BY <1>1, EmptyQueue DEF QueueOK
<1>11. HandOK'
  BY <1>1 DEF HandOK
<1>12. SessionOK'
  <2>1. \A t \in Tunnels : tunnels'[t].local = None
    BY <1>1, FreeTypes
  <2> QED
    BY <2>1 DEF SessionOK
<1>13. RecordOK'
  BY <1>3, <1>4, <1>7, FreeTypes DEF IInv, RecordOK
<1>14. FlowOK'
  <2>1. \A k \in Locals, p \in Peers : ~(locals[k].peer = p /\ locals[k].open)
    BY <1>8 DEF IInv, FlowOK, FlowIsRead
  <2>2. \A k \in Locals, p \in Peers : ~(locals'[k].peer = p /\ locals'[k].open)
    BY <1>3, <1>4, <2>1, FreeTypes
  <2>3. \A p \in Peers : flows'[p] = None
    BY <1>1, <1>8
  <2> QED
    BY <2>2, <2>3 DEF FlowOK, FlowIsRead
<1>15. CapOK'
  <2>1. Counted' \subseteq Counted /\ Holders' \subseteq Holders
    BY <1>3, <1>4, FreeTypes DEF Counted, Holders
  <2> QED
    BY <1>1, <2>1, CapStays DEF IInv
<1>16. StreamOK'
  <2>1. \A t \in Tunnels : Via(t)' = {}
    BY <1>7 DEF Via
  <2>2. tunnels' \in [Tunnels -> TunnelType]
    BY <1>9 DEF TypeOK
  <2> QED
    BY <1>1, <2>1, <2>2, StreamStays DEF IInv
<1> QED
  BY <1>9, <1>10, <1>11, <1>12, <1>13, <1>14, <1>15, <1>16 DEF IInv

(* What a run left behind is closed, and its slot is not returned.          *)
LEMMA CollectedKeeps == ASSUME IInv, NEW l \in Locals, Collected(l) PROVE IInv'
<1>1. /\ locals[l].st = "left" /\ locals' = Gone(l)
      /\ UNCHANGED <<transport, run, active, queues, tunnels, hands, counters, flows, restarts>>
  BY DEF Collected
<1>2. /\ locals' \in [Locals -> LocalType] /\ RecordOK'
      /\ locals'[l] = FreeLocal /\ \A k \in Locals : k # l => locals'[k] = locals[k]
      /\ Counted' = Counted \ {l} /\ Holders' = Holders \ {l}
      /\ \A t \in Tunnels : Via(t)' = Via(t) \ {l}
  BY <1>1, GoneFacts
<1>3. TypeOK'
  BY <1>1, <1>2 DEF IInv, TypeOK, queues, counters
<1>4. QueueOK' /\ HandOK' /\ SessionOK'
  BY <1>1, <1>2, PlacesStay DEF IInv, queues
<1>5. FlowOK'
  BY <1>1, <1>2, FreeTypes, FlowStays DEF IInv, RecordOK
<1>6. CapOK'
  BY <1>1, <1>2, CapStays DEF IInv
<1>7. StreamOK'
  BY <1>1, <1>2, StreamStays DEF IInv, TypeOK, TunnelType
<1> QED
  BY <1>2, <1>3, <1>4, <1>5, <1>6, <1>7 DEF IInv

-----------------------------------------------------------------------------
LEMMA InitHolds == ASSUME Init PROVE IInv
<1>1. /\ \A l \in Locals : locals[l] = FreeLocal
      /\ \A t \in Tunnels : tunnels[t] = FreeTunnel
      /\ \A p \in Peers : flows[p] = None
      /\ \A h \in Handlers : hands[h] = None
  BY DEF Init
<1>2. TypeOK
  <2>1. locals \in [Locals -> LocalType] /\ tunnels \in [Tunnels -> TunnelType]
    BY FreeTypes DEF Init
  <2> QED
    BY <2>1 DEF Init, TypeOK
<1>3. QueueOK
  BY EmptyQueue DEF Init, QueueOK
<1>4. HandOK /\ SessionOK /\ RecordOK
  BY <1>1, FreeTypes DEF HandOK, SessionOK, RecordOK
<1>5. FlowOK
  BY <1>1, FreeTypes DEF Init, FlowOK, FlowIsRead
<1>6. Counted = {} /\ Holders = {} /\ \A t \in Tunnels : Via(t) = {}
  BY <1>1, FreeTypes DEF Counted, Holders, Via
<1>7. IsFiniteSet({}) /\ Cardinality({}) = 0
  BY FS_EmptySet
<1>8. CapOK
  BY <1>6, <1>7 DEF Init, CapOK
<1>9. StreamOK
  BY <1>1, <1>6, <1>7, FreeTypes DEF StreamOK
<1> QED
  BY <1>2, <1>3, <1>4, <1>5, <1>8, <1>9 DEF IInv

LEMMA StutterKeeps == ASSUME IInv, UNCHANGED vars PROVE IInv'
<1>1. UNCHANGED <<transport, run, active, locals, localChannel, reqNewConnChan, tunnelChannel, tunnels, hands,
                  streamCounter, sessionCounter, flows, restarts>>
  BY DEF vars, queues, counters
<1>2. TypeOK' /\ QueueOK' /\ HandOK' /\ SessionOK' /\ RecordOK'
  BY <1>1 DEF IInv, TypeOK, QueueOK, HandOK, SessionOK, RecordOK
<1>3. FlowOK'
  BY <1>1 DEF IInv, FlowOK, FlowIsRead
<1>4. CapOK' /\ StreamOK'
  BY <1>1 DEF IInv, CapOK, StreamOK, Counted, Holders, Via
<1> QED
  BY <1>2, <1>3, <1>4 DEF IInv

LEMMA Inductive == ASSUME IInv, [Next]_vars PROVE IInv'
<1>1. ASSUME NEW l \in Locals,
             \/ acceptLocalConn(l) \/ RaiseTooFar(l) \/ LowerAgain(l) \/ reap(l) \/ Age(l)
             \/ RelayEnds(l) \/ Collected(l) \/ \E p \in Peers : udpAdmitter(l, p)
      PROVE  IInv'
  BY <1>1, acceptLocalConnKeeps, RaiseTooFarKeeps, LowerAgainKeeps, reapKeeps, AgeKeeps, RelayEndsKeeps, CollectedKeeps,
     udpAdmitterKeeps
<1>2. ASSUME NEW t \in Tunnels, SessionStep(t) \/ deliverTunnelConn(t) \/ BreakTunnel(t) PROVE IInv'
  BY <1>2, SessionStepKeeps, deliverTunnelConnKeeps, BreakTunnelKeeps
<1>3. ASSUME Restart PROVE IInv'
  BY <1>3, RestartStartsKeeps DEF Restart, TcpRestart, WsRestart, QuicRestart, TcpMuxRestart, KcpRestart, WsMuxRestart
<1> QED
  BY <1>1, <1>2, <1>3, handleLoopKeeps, SendRequestKeeps, TakeSessionKeeps, RestartStopsKeeps, StutterKeeps DEF Next

LEMMA Invariant == Spec => []IInv
<1>1. Init => IInv
  BY InitHolds
<1>2. IInv /\ [Next]_vars => IInv'
  BY Inductive
<1> QED
  BY <1>1, <1>2, PTL DEF Spec

(* What the session's counter allows is what its streams keep to.           *)
LEMMA StreamsCounted == ASSUME IInv PROVE StreamsWithinLimit
<1> SUFFICES ASSUME NEW t \in Tunnels
             PROVE  Cardinality(Via(t)) <= IF transport \in Mux THEN MuxCon ELSE 1
  BY DEF StreamsWithinLimit, Via
<1>1. tunnels[t].count \in 0 .. MuxCon
  BY DEF IInv, TypeOK, TunnelType
<1>2. Cardinality(Via(t)) \in Nat
  BY ViaFinite DEF IInv
<1> QED
  BY <1>1, <1>2 DEF IInv, StreamOK

(* The state has its type: no queue past its capacity, no session's counter *)
(* outside 0 .. MuxCon, whatever order the loops, the sessions, the client  *)
(* and Restart run in.                                                      *)
THEOREM ForwardTypeCorrect == Spec => []TypeOK
<1>1. IInv => TypeOK
  BY DEF IInv
<1> QED
  BY <1>1, Invariant, PTL

(* The three promises of the forwarding side: the connection limit, a       *)
(* reader for every UDP flow, and the streams of a session.                 *)
THEOREM ForwardingHolds == Spec => [](CapHolds /\ FlowIsRead /\ StreamsWithinLimit)
<1>1. IInv => CapHolds /\ FlowIsRead /\ StreamsWithinLimit
  BY StreamsCounted DEF IInv, CapOK, FlowOK, CapHolds
<1> QED
  BY <1>1, Invariant, PTL

=============================================================================
