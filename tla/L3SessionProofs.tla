-------------------------- MODULE L3SessionProofs --------------------------
(***************************************************************************)
(* What L3Session keeps, for any number of ids, keys and addresses, any    *)
(* timers and any number of restarts and moves: its types, that the        *)
(* reported peer is honest, that ends with different encapsulations never  *)
(* come up, that confirmed keys are the keys the other end installed, and  *)
(* that a handshake message alone diverts nothing.  Before it, the parts   *)
(* that carry its packets: Multipath shares writes evenly, and Fec hands   *)
(* up what was sent, once, and all it can rebuild.                         *)
(***************************************************************************)
EXTENDS MCL3Session, FiniteSetTheorems, SequenceTheorems, TLAPS

-----------------------------------------------------------------------------
(* Multipath. *)

(* A path whose turn has come in the round of the counter that is under way *)
Ahead(p) == IF p < Turn(mnext) THEN 1 ELSE 0

Wraps == mwrites \div MCounter

(* An earlier path may be ahead by one for each wrap, which cuts a round    *)
(* short; a later path never is; and the round under way adds its own one.  *)
Shares ==
  \A p, q \in Paths :
    msent[p] - msent[q] <= (IF p < q THEN Wraps ELSE 0) + Ahead(p) - Ahead(q)

MpTypes ==
  /\ MpTypeOK
  /\ msent \in [Paths -> Nat] /\ mwrites \in Nat
  /\ mnext = mwrites % MCounter

MpInv == MpTypes /\ Shares

(* Division and remainder are the only ones.                                *)
LEMMA DivUnique ==
  ASSUME NEW n \in Nat, NEW m \in Nat \ {0}, NEW a \in Nat, NEW r \in 0 .. m - 1,
         n = m * a + r
  PROVE  n \div m = a /\ n % m = r
<1> DEFINE b == n \div m
           s == n % m
<1>1. b \in Int /\ s \in 0 .. m - 1 /\ n = m * b + s
  OBVIOUS
<1> HIDE DEF b, s
<1>2. m * a - m * b = s - r
  BY <1>1
<1>3. CASE a >= b + 1
  <2>1. m * a >= m * b + m
    BY <1>1, <1>3
  <2> QED
    BY <1>1, <1>2, <2>1
<1>4. CASE b >= a + 1
  <2>1. m * b >= m * a + m
    BY <1>1, <1>4
  <2> QED
    BY <1>1, <1>2, <2>1
<1>5. a = b
  BY <1>1, <1>3, <1>4
<1> QED
  BY <1>1, <1>2, <1>5 DEF b, s

(* One more either stays in the round or begins the next.                   *)
LEMMA DivNext ==
  ASSUME NEW n \in Nat, NEW m \in Nat \ {0}
  PROVE  /\ n % m \in 0 .. m - 1 /\ n \div m \in Nat
         /\ (n % m) + 1 < m => (n + 1) % m = (n % m) + 1 /\ (n + 1) \div m = n \div m
         /\ (n % m) + 1 = m => (n + 1) % m = 0 /\ (n + 1) \div m = n \div m + 1
<1> DEFINE a == n \div m
           r == n % m
<1>1. a \in Int /\ r \in 0 .. m - 1 /\ n = m * a + r
  OBVIOUS
<1> HIDE DEF a, r
<1>2. a \in Nat
  <2>1. CASE a <= -1
    <3>1. m * a <= -m
      BY <1>1, <2>1
    <3> QED
      BY <1>1, <3>1
  <2> QED
    BY <1>1, <2>1
<1>0. n + 1 \in Nat
  OBVIOUS
<1>3. ASSUME r + 1 < m PROVE (n + 1) % m = r + 1 /\ (n + 1) \div m = a
  <2>1. n + 1 = m * a + (r + 1) /\ r + 1 \in 0 .. m - 1
    BY <1>1, <1>3
  <2> QED
    BY <1>0, <1>2, <2>1, DivUnique, Zenon
<1>4. ASSUME r + 1 = m PROVE (n + 1) % m = 0 /\ (n + 1) \div m = a + 1
  <2>1. m * (a + 1) = m * a + m
    BY <1>1
  <2>2. n + 1 = m * (a + 1) + 0
    BY <1>1, <1>4, <2>1
  <2>3. a + 1 \in Nat /\ 0 \in 0 .. m - 1
    BY <1>2
  <2> QED
    BY <1>0, <1>2, <2>2, <2>3, DivUnique, Zenon
<1> QED
  BY <1>1, <1>2, <1>3, <1>4 DEF a, r

LEMMA MpStarts == ASSUME MpInit PROVE MpInv
<1>1. 0 % MCounter = 0 /\ 0 \div MCounter = 0 /\ 0 % MPaths = 0
  <2>1. 0 = MCounter * 0 + 0 /\ 0 = MPaths * 0 + 0
    BY PathsAssumption
  <2> QED
    BY <2>1, PathsAssumption, DivUnique
<1>2. MpTypes
  <2>1. mclosed \in BOOLEAN
    BY Zenon DEF MpInit
  <2> QED
    BY <1>1, <2>1, PathsAssumption DEF MpInit, MpTypes, MpTypeOK
<1>3. Shares
  BY <1>1, PathsAssumption DEF MpInit, Shares, Ahead, Turn, Wraps, Paths
<1> QED
  BY <1>2, <1>3 DEF MpInv

(* A write moves the turn on; a wrap starts it over.                        *)
LEMMA MpWriteKeeps == ASSUME MpInv, MpWriteTo PROVE MpInv'
<1> DEFINE k == Turn(mnext)
           W == Wraps
<1>0. /\ mnext \in 0 .. MCounter - 1 /\ mnext \in Nat /\ mwrites \in Nat
      /\ mnext = mwrites % MCounter /\ msent \in [Paths -> Nat]
  BY PathsAssumption DEF MpInv, MpTypes, MpTypeOK
<1>1. k \in Paths /\ k \in Nat /\ W \in Nat
  <2>1. mnext % MPaths \in 0 .. MPaths - 1 /\ mwrites \div MCounter \in Nat
    BY <1>0, DivNext, PathsAssumption
  <2> QED
    BY <2>1, PathsAssumption DEF Turn, Wraps, Paths
<1>2. /\ mwrites' = mwrites + 1 /\ mnext' = (mnext + 1) % MCounter
      /\ msent' = [msent EXCEPT ![k] = @ + 1]
  BY DEF MpWriteTo
<1>3. ASSUME mnext + 1 < MCounter
      PROVE  /\ mnext' = mnext + 1 /\ mnext' = mwrites' % MCounter /\ Wraps' = W
  <2>1. (mwrites + 1) % MCounter = mnext + 1 /\ (mwrites + 1) \div MCounter = W
    BY <1>0, <1>3, DivNext, PathsAssumption DEF Wraps
  <2>2. (mnext + 1) % MCounter = mnext + 1
    <3>1. mnext + 1 = MCounter * 0 + (mnext + 1) /\ mnext + 1 \in 0 .. MCounter - 1
      BY <1>0, <1>3, PathsAssumption
    <3> QED
      BY <3>1, <1>0, DivUnique, PathsAssumption
  <2> QED
    BY <1>2, <2>1, <2>2 DEF Wraps
<1>4. ASSUME mnext + 1 = MCounter
      PROVE  /\ mnext' = 0 /\ mnext' = mwrites' % MCounter /\ Wraps' = W + 1
  <2>1. (mwrites + 1) % MCounter = 0 /\ (mwrites + 1) \div MCounter = W + 1
    BY <1>0, <1>4, DivNext, PathsAssumption DEF Wraps
  <2>2. (mnext + 1) % MCounter = 0
    <3>1. mnext + 1 = MCounter * 1 + 0
      BY <1>0, <1>4, PathsAssumption
    <3> QED
      BY <3>1, <1>0, DivUnique, PathsAssumption
  <2> QED
    BY <1>2, <2>1, <2>2 DEF Wraps
<1>5. mnext + 1 < MCounter \/ mnext + 1 = MCounter
  BY <1>0, PathsAssumption
<1>6. MpTypes'
  <2>1. mnext' \in 0 .. MCounter - 1 /\ mnext' = mwrites' % MCounter
    BY <1>0, <1>3, <1>4, <1>5, PathsAssumption
  <2>2. msent' \in [Paths -> Nat] /\ mwrites' \in Nat
    BY <1>0, <1>1, <1>2
  <2> QED
    BY <2>1, <2>2 DEF MpInv, MpTypes, MpTypeOK, MpWriteTo
<1> HIDE DEF k, W
<1>7. ASSUME NEW p \in Paths, NEW q \in Paths
      PROVE  msent'[p] - msent'[q] <= (IF p < q THEN Wraps' ELSE 0) + Ahead(p)' - Ahead(q)'
  <2> DEFINE B(x) == IF x < k THEN 1 ELSE 0
             C(x) == IF x < k + 1 THEN 1 ELSE 0
  <2>0. p \in Nat /\ q \in Nat /\ p < MPaths /\ q < MPaths /\ k < MPaths
    BY <1>1, PathsAssumption DEF Paths
  <2>1. msent[p] - msent[q] <= (IF p < q THEN W ELSE 0) + B(p) - B(q)
    BY DEF MpInv, Shares, Ahead, k, W
  <2>2. /\ msent'[p] = msent[p] + (C(p) - B(p)) /\ msent'[q] = msent[q] + (C(q) - B(q))
        /\ msent[p] \in Nat /\ msent[q] \in Nat
    <3>1. \A x \in Paths : msent'[x] = msent[x] + (C(x) - B(x)) /\ msent[x] \in Nat
      <4> SUFFICES ASSUME NEW x \in Paths PROVE msent'[x] = msent[x] + (C(x) - B(x)) /\ msent[x] \in Nat
        OBVIOUS
      <4>1. msent[x] \in Nat /\ x \in Nat
        BY <1>0, PathsAssumption DEF Paths
      <4>2. CASE x = k
        BY <4>1, <4>2, <1>0, <1>1, <1>2
      <4>3. CASE x # k
        <5>1. C(x) = B(x)
          BY <4>1, <4>3, <1>1
        <5>2. msent'[x] = msent[x]
          BY <4>3, <1>0, <1>2
        <5> QED
          BY <4>1, <5>1, <5>2
      <4> QED
        BY <4>2, <4>3
    <3> QED
      BY <3>1
  <2>3. msent'[p] - msent'[q] <= (IF p < q THEN W ELSE 0) + C(p) - C(q)
    BY <1>1, <2>0, <2>1, <2>2
  <2>4. CASE mnext + 1 < MCounter
    <3>1. Wraps' = W /\ mnext' = mnext + 1
      BY <1>3, <2>4
    <3>2. CASE k + 1 < MPaths
      <4>1. Turn(mnext') = k + 1
        BY <3>1, <3>2, <1>0, DivNext, PathsAssumption DEF Turn, k
      <4>2. Ahead(p)' = C(p) /\ Ahead(q)' = C(q)
        BY <4>1 DEF Ahead, Turn
      <4> QED
        BY <2>3, <3>1, <4>2
    <3>3. CASE k + 1 = MPaths
      <4>1. Turn(mnext') = 0
        BY <3>1, <3>3, <1>0, DivNext, PathsAssumption DEF Turn, k
      <4>2. Ahead(p)' = 0 /\ Ahead(q)' = 0 /\ C(p) = 1 /\ C(q) = 1
        BY <4>1, <2>0, <3>3 DEF Ahead, Turn
      <4> QED
        BY <2>3, <3>1, <4>2, <1>1, <2>0
    <3> QED
      BY <3>2, <3>3, <2>0, <1>1, PathsAssumption
  <2>5. CASE mnext + 1 = MCounter
    <3>1. Wraps' = W + 1 /\ mnext' = 0
      BY <1>4, <2>5
    <3>2. Turn(mnext') = 0
      <4>1. 0 = MPaths * 0 + 0
        BY PathsAssumption
      <4> QED
        BY <3>1, <4>1, DivUnique, PathsAssumption DEF Turn
    <3>3. Ahead(p)' = 0 /\ Ahead(q)' = 0
      BY <3>2, <2>0 DEF Ahead, Turn
    <3>4. msent'[p] \in Int /\ msent'[q] \in Int
      BY <2>2, <1>1, <2>0
    <3>5. C(p) - C(q) <= (IF p < q THEN 1 ELSE 0)
      BY <1>1, <2>0
    <3>6. C(p) \in 0 .. 1 /\ C(q) \in 0 .. 1
      BY <1>1, <2>0
    <3> HIDE DEF C, B
    <3> QED
      BY <2>3, <3>1, <3>3, <3>4, <3>5, <3>6, <1>1, <2>0
  <2> QED
    BY <1>5, <2>4, <2>5
<1> QED
  BY <1>6, <1>7 DEF MpInv, Shares

LEMMA MpStepKeeps == ASSUME MpInv, MpNext PROVE MpInv'
<1>1. CASE MpWriteTo
  BY <1>1, MpWriteKeeps
<1>2. ASSUME UNCHANGED <<mnext, msent, mwrites>>, min' \in 0 .. MQueue, mclosed' \in BOOLEAN,
             mpump' \in [Paths -> {"running", "failed", "ended"}]
      PROVE  MpInv'
  BY <1>2 DEF MpInv, MpTypes, MpTypeOK, Shares, Ahead, Wraps, Turn
<1>3. CASE MpReadFrom
  BY <1>2, <1>3, PathsAssumption DEF MpReadFrom, MpInv, MpTypes, MpTypeOK
<1>4. CASE MpClose
  <2>1. mclosed' \in BOOLEAN
    BY <1>4, Zenon DEF MpClose
  <2> QED
    BY <1>2, <1>4, <2>1 DEF MpClose, MpInv, MpTypes, MpTypeOK
<1>5. ASSUME NEW p \in Paths, MpArrives(p) \/ pump(p) \/ PumpEnds(p) PROVE MpInv'
  <2>1. mclosed' \in BOOLEAN
    BY <1>5, Zenon DEF MpArrives, pump, PumpEnds, MpInv, MpTypes, MpTypeOK
  <2>2. min' \in 0 .. MQueue
    BY <1>5, PathsAssumption DEF MpArrives, pump, PumpEnds, MpInv, MpTypes, MpTypeOK
  <2>3. mpump' \in [Paths -> {"running", "failed", "ended"}]
    BY <1>5 DEF MpArrives, pump, PumpEnds, MpInv, MpTypes, MpTypeOK
  <2> QED
    BY <1>2, <1>5, <2>1, <2>2, <2>3 DEF MpArrives, pump, PumpEnds
<1> QED
  BY <1>1, <1>3, <1>4, <1>5 DEF MpNext

LEMMA MpGives == ASSUME MpInv PROVE SharedEvenly
<1> SUFFICES ASSUME NEW p \in Paths, NEW q \in Paths
             PROVE  msent[p] - msent[q] <= 1 + Wraps
  BY DEF SharedEvenly, Wraps
<1>1. Wraps \in Nat /\ msent[p] \in Nat /\ msent[q] \in Nat
  BY DivNext, PathsAssumption DEF MpInv, MpTypes, Wraps
<1>2. Ahead(p) \in 0 .. 1 /\ Ahead(q) \in 0 .. 1
  BY DEF Ahead
<1>3. msent[p] - msent[q] <= (IF p < q THEN Wraps ELSE 0) + Ahead(p) - Ahead(q)
  BY DEF MpInv, Shares
<1> QED
  BY <1>1, <1>2, <1>3

-----------------------------------------------------------------------------
(* Fec. *)

Shards == [inc : Nat, grp : Nat, idx : Nat]
DataIdx == 0 .. FData - 1

(* A shard the sender has sent, in this incarnation or an earlier one.      *)
SentShard(p) ==
  /\ p \in Shards /\ p.inc \in 1 .. finc /\ p.grp \in FGroups /\ p.idx \in FIndices
  /\ p.inc = finc => p.grp < sendGrp \/ (p.grp = sendGrp /\ p.idx < sendIdx)

(* What may be handed up: a packet that was sent, or one garbled.           *)
Genuine(p) == (SentShard(p) /\ p.idx < FData) \/ (p = Garbled /\ finc > 1)

GroupType == [held : BOOLEAN, shards : [FIndices -> Nat], delivered : SUBSET DataIdx,
              sized : BOOLEAN, done : BOOLEAN]

(* Group g in state r, when the packets of U have been handed up or wait to *)
(* be, and the sender is in its n-th incarnation.  A group that is held has *)
(* a shard; a data shard that is there was delivered; the width is known    *)
(* from a parity shard; a group of one incarnation was rebuilt as soon as   *)
(* it could be, and what it delivered were that one's packets; what any     *)
(* group delivered was some incarnation's packet, or garbled.               *)
GroupOK(g, r, U, n) ==
  /\ (r.held /\ Incs(r) # {}) \/ r = NoGroup
  /\ \A i \in DataIdx : r.shards[i] # 0 => i \in r.delivered
  /\ r.sized <=> \E i \in FIndices : i >= FData /\ r.shards[i] # 0
  /\ \A k \in Incs(r) : Incs(r) = {k} =>
       /\ \A i \in r.delivered : Packet(k, g, i) \in U
       /\ ~CanRebuild(r)
       /\ r.done => r.delivered = DataIdx
  /\ \A i \in r.delivered : \/ \E p \in U : p.grp = g /\ p.idx = i
                            \/ n > 1 /\ Garbled \in U

FecTypes ==
  /\ finc \in 1 .. FMaxInc /\ sendGrp \in 0 .. FMaxGroup /\ sendIdx \in DataIdx
  /\ ffaults \in 0 .. FMaxFaults
  /\ fgroups \in [FGroups -> GroupType]
  /\ fpending \in Seq(Shards)

(* The order lists the groups that are held, each once.                     *)
OrderOK ==
  /\ forder \in Seq(FGroups) /\ Len(forder) <= FWindow
  /\ \A i, j \in 1 .. Len(forder) : forder[i] = forder[j] => i = j
  /\ \A g \in FGroups : fgroups[g].held <=> \E i \in 1 .. Len(forder) : forder[i] = g

Given == fup \cup ToSet(fpending)

WireOK  == \A s \in fwire : SentShard(s)
GivenOK == \A p \in Given : Genuine(p)

(* With one incarnation, a packet that was handed up or waits to be is      *)
(* marked in its group until that is evicted, and none waits twice.         *)
OnceOK ==
  finc = 1 =>
    /\ \A p \in Given : p.grp \in fevicted \/ p.idx \in fgroups[p.grp].delivered
    /\ \A i \in 1 .. Len(fpending) : fpending[i] \in fup => fpending[i].grp \in fevicted
    /\ \A i, j \in 1 .. Len(fpending) : fpending[i] = fpending[j] => i = j

AgainOK == \A p \in fagain : p.grp \in fevicted \/ finc > 1

(* A shard that is there was sent.                                          *)
StoredOK ==
  \A g \in FGroups : \A i \in FIndices :
    fgroups[g].shards[i] # 0 => SentShard(Packet(fgroups[g].shards[i], g, i))

GroupsOK == \A g \in FGroups : GroupOK(g, fgroups[g], Given, finc)

FecInv ==
  FecTypes /\ OrderOK /\ WireOK /\ GivenOK /\ StoredOK /\ GroupsOK /\ OnceOK /\ AgainOK /\ SwallowedByTwin

LEMMA FecConstants ==
  /\ FData \in Nat /\ FData > 0 /\ FParity \in Nat /\ FTotal \in Nat /\ FTotal >= FData
  /\ DataIdx \subseteq FIndices /\ FIndices \subseteq Nat /\ FGroups \subseteq Nat
  /\ IsFiniteSet(FIndices) /\ IsFiniteSet(DataIdx) /\ Cardinality(DataIdx) = FData
<1>1. FData \in Nat /\ FData > 0 /\ FParity \in Nat /\ FTotal \in Nat /\ FTotal >= FData
  BY SchemeAssumption DEF FTotal
<1>2. IsFiniteSet(FIndices) /\ IsFiniteSet(DataIdx) /\ Cardinality(DataIdx) = FData
  BY <1>1, FS_Interval DEF FIndices, DataIdx
<1> QED
  BY <1>1, <1>2, FecAssumption DEF FIndices, DataIdx, FGroups

(* A shard is known by its incarnation, group and index.                    *)
LEMMA PacketIs ==
  /\ \A p \in Shards : p = Packet(p.inc, p.grp, p.idx)
  /\ \A k, g, i \in Nat : /\ Packet(k, g, i) \in Shards /\ Packet(k, g, i).inc = k
                          /\ Packet(k, g, i).grp = g /\ Packet(k, g, i).idx = i
  /\ Garbled \in Shards /\ Garbled.inc = 0
BY DEF Shards, Packet, Garbled

LEMMA SeqElems ==
  ASSUME NEW S, NEW q \in Seq(S)
  PROVE  /\ ToSet(q) = {q[i] : i \in 1 .. Len(q)} /\ ToSet(q) \subseteq S
         /\ \A x : Contains(q, x) <=> x \in ToSet(q)
<1>1. DOMAIN q = 1 .. Len(q) /\ \A i \in 1 .. Len(q) : q[i] \in S
  OBVIOUS
<1> QED
  BY <1>1 DEF ToSet, Contains

LEMMA NothingWaits == ToSet(<<>>) = {}
  BY DEF ToSet

(* What the sender sent stays sent.                                         *)
LEMMA SentStays ==
  ASSUME FecTypes, NEW p, SentShard(p),
         \/ finc' = finc /\ sendGrp' = sendGrp /\ sendIdx' = sendIdx
         \/ finc' = finc /\ sendGrp' = sendGrp /\ sendIdx' = sendIdx + 1
         \/ finc' = finc /\ sendGrp' = sendGrp + 1
         \/ finc' = finc + 1
  PROVE  SentShard(p)'
<1>1. /\ finc \in Nat /\ sendGrp \in Nat /\ sendIdx \in Nat
      /\ p.inc \in Nat /\ p.grp \in Nat /\ p.idx \in Nat /\ p.inc \in 1 .. finc
  BY FecConstants, FecAssumption DEF FecTypes, SentShard, FGroups, FIndices, DataIdx
<1>2. p.inc \in 1 .. finc'
  BY <1>1
<1>3. p.inc = finc' => p.grp < sendGrp' \/ (p.grp = sendGrp' /\ p.idx < sendIdx')
  BY <1>1 DEF SentShard
<1> QED
  BY <1>2, <1>3 DEF SentShard

(* A group stays right when more is handed up and the sender goes on.       *)
LEMMA GroupStays ==
  ASSUME NEW g, NEW r, NEW U, NEW V, NEW n \in Nat, NEW m \in Nat,
         GroupOK(g, r, U, n), U \subseteq V, n <= m
  PROVE  GroupOK(g, r, V, m)
BY DEF GroupOK

LEMMA EmptyGroup ==
  /\ NoGroup \in GroupType /\ NoGroup.held = FALSE /\ NoGroup.delivered = {}
  /\ \A i \in FIndices : NoGroup.shards[i] = 0
  /\ \A g, U, n : GroupOK(g, NoGroup, U, n)
<1>1. NoGroup \in GroupType
  <2>1. FALSE \in BOOLEAN
    BY Zenon
  <2> QED
    BY <2>1 DEF NoGroup, GroupType
<1>2. /\ NoGroup.held = FALSE /\ NoGroup.delivered = {} /\ NoGroup.sized = FALSE
      /\ \A i \in FIndices : NoGroup.shards[i] = 0
  BY DEF NoGroup
<1>3. Incs(NoGroup) = {}
  BY <1>2 DEF Incs, HaveTotal
<1>4. \A i \in DataIdx : NoGroup.shards[i] = 0
  BY <1>2, FecConstants
<1> QED
  BY <1>1, <1>2, <1>3, <1>4 DEF GroupOK

LEMMA FecStarts == ASSUME FecInit PROVE FecInv
<1>1. FecTypes
  <2>1. fgroups \in [FGroups -> GroupType]
    BY EmptyGroup DEF FecInit
  <2> QED
    BY <2>1, FecConstants, FecAssumption DEF FecInit, FecTypes, DataIdx
<1>2. Given = {}
  BY NothingWaits DEF FecInit, Given
<1>3. OrderOK
  <2>1. forder = <<>> /\ Len(forder) = 0 /\ forder \in Seq(FGroups)
    BY DEF FecInit
  <2>2. \A g \in FGroups : fgroups[g].held = FALSE
    BY EmptyGroup DEF FecInit
  <2> QED
    BY <2>1, <2>2, SchemeAssumption DEF OrderOK
<1>4. StoredOK /\ GroupsOK
  BY EmptyGroup DEF FecInit, StoredOK, GroupsOK
<1>5. OnceOK
  BY <1>2 DEF FecInit, OnceOK
<1> QED
  BY <1>1, <1>2, <1>3, <1>4, <1>5 DEF FecInit, FecInv, WireOK, GivenOK, AgainOK, SwallowedByTwin

-----------------------------------------------------------------------------
(* The sender and the wire. *)

(* The receiver stands still while the sender goes on.                      *)
LEMMA ReceiverStays ==
  ASSUME FecInv, FecTypes', WireOK', finc <= finc',
         UNCHANGED <<fgroups, forder, fpending, fup, fagain, fevicted, flost>>,
         \A p : SentShard(p) => SentShard(p)'
  PROVE  FecInv'
<1>0. finc \in Nat /\ finc' \in Nat /\ finc >= 1
  BY FecAssumption DEF FecInv, FecTypes
<1>1. Given' = Given
  BY DEF Given
<1>2. OrderOK'
  BY DEF FecInv, OrderOK
<1>3. GivenOK'
  <2>1. \A p : Genuine(p) => Genuine(p)'
    BY <1>0 DEF Genuine
  <2> QED
    BY <1>1, <2>1 DEF FecInv, GivenOK
<1>4. StoredOK'
  BY DEF FecInv, StoredOK
<1>5. GroupsOK'
  <2>1. ASSUME NEW g \in FGroups PROVE GroupOK(g, fgroups'[g], Given', finc')
    BY <1>0, <1>1, GroupStays DEF FecInv, GroupsOK
  <2> QED
    BY <2>1 DEF GroupsOK
<1>6. OnceOK' /\ AgainOK' /\ SwallowedByTwin'
  <2>1. finc' = 1 => finc = 1
    BY <1>0
  <2>2. finc > 1 => finc' > 1
    BY <1>0
  <2>3. OnceOK'
    BY <1>1, <2>1 DEF FecInv, OnceOK
  <2>4. AgainOK'
    BY <2>2 DEF FecInv, AgainOK
  <2>5. SwallowedByTwin'
    BY <2>2 DEF FecInv, SwallowedByTwin
  <2> QED
    BY <2>3, <2>4, <2>5
<1> QED
  BY <1>2, <1>3, <1>4, <1>5, <1>6 DEF FecInv

LEMMA WriteKeeps == ASSUME FecInv, WriteTo PROVE FecInv'
<1>0. /\ finc \in Nat /\ finc >= 1 /\ sendGrp \in Nat /\ sendIdx \in Nat /\ sendIdx \in DataIdx
      /\ sendGrp \in FGroups /\ sendIdx \in FIndices /\ FecTypes
      /\ finc' = finc /\ finc \in 1 .. finc
  BY FecConstants, FecAssumption DEF WriteTo, FecInv, FecTypes, FGroups, DataIdx
<1> DEFINE sent == fwire \cup {Packet(finc, sendGrp, sendIdx)}
<1>1. CASE sendIdx + 1 = FData
  <2>1. /\ fwire' = sent \cup {Packet(finc, sendGrp, i) : i \in FData .. FTotal - 1}
        /\ sendGrp' = sendGrp + 1 /\ sendIdx' = 0
    BY <1>1 DEF WriteTo, flushParity
  <2>2. \A p : SentShard(p) => SentShard(p)'
    BY <1>0, <2>1, SentStays
  <2>3. ASSUME NEW i \in FIndices, NEW p, p = Packet(finc, sendGrp, i) PROVE SentShard(p)'
    <3>1. i \in Nat
      BY FecConstants
    <3>2. p \in Shards /\ p.inc = finc /\ p.grp = sendGrp /\ p.idx = i
      BY <1>0, <2>3, <3>1, PacketIs
    <3> QED
      BY <1>0, <2>1, <3>2 DEF SentShard
  <2>4. WireOK'
    <3>1. FData .. FTotal - 1 \subseteq FIndices
      BY FecConstants DEF FIndices
    <3> QED
      BY <1>0, <2>1, <2>2, <2>3, <3>1, Zenon DEF FecInv, WireOK
  <2>5. FecTypes'
    BY <1>0, <2>1, FecConstants, FecAssumption DEF WriteTo, FecTypes, DataIdx
  <2> QED
    BY <1>0, <2>2, <2>4, <2>5, ReceiverStays DEF WriteTo, fhist
<1>2. CASE sendIdx + 1 # FData
  <2>1. fwire' = sent /\ sendGrp' = sendGrp /\ sendIdx' = sendIdx + 1
    BY <1>2 DEF WriteTo
  <2>2. \A p : SentShard(p) => SentShard(p)'
    BY <1>0, <2>1, SentStays
  <2>3. ASSUME NEW p, p = Packet(finc, sendGrp, sendIdx) PROVE SentShard(p)'
    <3>1. p \in Shards /\ p.inc = finc /\ p.grp = sendGrp /\ p.idx = sendIdx
      BY <1>0, <2>3, PacketIs
    <3> QED
      BY <1>0, <2>1, <3>1 DEF SentShard
  <2>4. WireOK'
    BY <2>1, <2>2, <2>3, Zenon DEF FecInv, WireOK
  <2>5. FecTypes'
    BY <1>0, <1>2, <2>1, FecConstants, FecAssumption DEF WriteTo, FecTypes, DataIdx
  <2> QED
    BY <1>0, <2>2, <2>4, <2>5, ReceiverStays DEF WriteTo, fhist
<1> QED
  BY <1>1, <1>2

LEMMA SenderRestartKeeps == ASSUME FecInv, SenderRestarts PROVE FecInv'
<1>0. finc \in Nat /\ finc' = finc + 1 /\ FecTypes
  BY FecAssumption DEF FecInv, FecTypes, SenderRestarts
<1>1. FecTypes'
  BY <1>0, FecConstants, FecAssumption DEF SenderRestarts, FecTypes, DataIdx
<1>2. \A p : SentShard(p) => SentShard(p)'
  BY <1>0, SentStays
<1>3. WireOK'
  BY <1>2 DEF FecInv, WireOK, SenderRestarts
<1> QED
  BY <1>0, <1>1, <1>2, <1>3, ReceiverStays DEF SenderRestarts, fhist

LEMMA LossKeeps == ASSUME FecInv, ShardLost PROVE FecInv'
<1>0. UNCHANGED <<finc, sendGrp, sendIdx>> /\ finc \in Nat /\ FecTypes
  BY FecAssumption DEF FecInv, FecTypes, ShardLost, fsend
<1>1. FecTypes'
  BY <1>0, FecAssumption DEF ShardLost, FecTypes
<1>2. \A p : SentShard(p) => SentShard(p)'
  BY <1>0, SentStays
<1>3. WireOK'
  BY <1>2 DEF FecInv, WireOK, ShardLost
<1> QED
  BY <1>0, <1>1, <1>2, <1>3, ReceiverStays DEF ShardLost, fhist

-----------------------------------------------------------------------------
(* One group. *)

(* Shards of two incarnations are there.                                    *)
Mixed(r) == \E i, j \in FIndices : r.shards[i] # 0 /\ r.shards[j] # 0 /\ r.shards[i] # r.shards[j]

LEMMA IncsFinite ==
  ASSUME NEW r
  PROVE  /\ IsFiniteSet(HaveTotal(r)) /\ IsFiniteSet(HaveData(r)) /\ IsFiniteSet(Incs(r))
         /\ Cardinality(HaveTotal(r)) \in Nat /\ Cardinality(HaveData(r)) \in Nat
         /\ Cardinality(Incs(r)) = 1 <=> \E k : Incs(r) = {k}
<1>1. IsFiniteSet(HaveTotal(r))
  BY FecConstants, FS_Subset DEF HaveTotal
<1>2. IsFiniteSet(HaveData(r))
  BY <1>1, FS_Subset DEF HaveData
<1>3. IsFiniteSet(Incs(r))
  <2> DEFINE f == [i \in HaveTotal(r) |-> r.shards[i]]
  <2>1. f \in Surjection(HaveTotal(r), Incs(r))
    BY DEF Surjection, Incs
  <2> QED
    BY <1>1, <2>1, FS_Surjection
<1> QED
  BY <1>1, <1>2, <1>3, FS_CardinalityType, FS_Singleton

(* Several incarnations, or one.                                            *)
LEMMA IncsAre ==
  ASSUME NEW r \in GroupType, Incs(r) # {}
  PROVE  /\ Cardinality(Incs(r)) # 1 => Mixed(r)
         /\ \A k : Incs(r) = {k} => ~Mixed(r) /\ k \in Nat /\ k # 0
         /\ Cardinality(Incs(r)) = 1 => \E k \in Nat \ {0} : Incs(r) = {k}
<1>1. \A k \in Incs(r) : k \in Nat /\ k # 0 /\ \E i \in FIndices : r.shards[i] = k
  BY DEF Incs, HaveTotal, GroupType
<1>2. \A i \in FIndices : r.shards[i] # 0 => r.shards[i] \in Incs(r)
  BY DEF Incs, HaveTotal
<1>3. ASSUME Cardinality(Incs(r)) # 1 PROVE Mixed(r)
  <2>1. PICK a \in Incs(r) : TRUE
    OBVIOUS
  <2>2. Incs(r) # {a}
    BY <1>3, IncsFinite
  <2>3. PICK b \in Incs(r) : b # a
    BY <2>1, <2>2
  <2> QED
    BY <1>1, <2>1, <2>3 DEF Mixed
<1>4. ASSUME NEW k, Incs(r) = {k} PROVE ~Mixed(r) /\ k \in Nat /\ k # 0
  BY <1>1, <1>2, <1>4 DEF Mixed
<1> QED
  BY <1>3, <1>4, IncsFinite

(* A finite set is listed whole and without repeats.                        *)
LEMMA Listed ==
  ASSUME NEW S, IsFiniteSet(S)
  PROVE  /\ SetToSeq(S) \in Seq(S) /\ ToSet(SetToSeq(S)) = S
         /\ \A i, j \in 1 .. Len(SetToSeq(S)) : SetToSeq(S)[i] = SetToSeq(S)[j] => i = j
<1> DEFINE n == Cardinality(S)
           q == SetToSeq(S)
<1>1. n \in Nat /\ ExistsBijection(1 .. n, S)
  BY FS_CardinalityType
<1>2. \E f \in [1 .. n -> S] : IsInjective(f)
  BY <1>1 DEF ExistsBijection, Bijection, Injection, IsInjective
<1>3. q \in [1 .. n -> S] /\ IsInjective(q)
  BY <1>2 DEF SetToSeq
<1> HIDE DEF n, q
<1>4. q \in Seq(S) /\ Len(q) = n /\ DOMAIN q = 1 .. n
  BY <1>1, <1>3
<1>5. \A i, j \in 1 .. Len(q) : q[i] = q[j] => i = j
  BY <1>3, <1>4 DEF IsInjective
<1>6. ToSet(q) = S
  <2>1. q \in Injection(1 .. n, S)
    BY <1>3, <1>4 DEF Injection, IsInjective
  <2>2. IsFiniteSet(1 .. n) /\ Cardinality(1 .. n) = n
    BY <1>1, FS_Interval
  <2>3. q \in Surjection(1 .. n, S)
    BY <2>1, <2>2, FS_Injection DEF n
  <2> QED
    BY <1>4, <2>3 DEF Surjection, ToSet
<1> QED
  BY <1>4, <1>5, <1>6 DEF q

(* The group after a shard was filed and, if it is due, handed up.          *)
Taken(old, s) ==
  LET r == Filed(old, s)
  IN IF HandsUp(r, s) THEN [r EXCEPT !.delivered = @ \cup {s.idx}] ELSE r

LEMMA TakenIs ==
  ASSUME NEW old \in GroupType, NEW s \in Shards, s.idx \in FIndices
  PROVE  LET t == Taken(old, s) IN
         /\ t \in GroupType /\ t.held = TRUE /\ t.done = old.done
         /\ \A i \in FIndices : t.shards[i] = IF i = s.idx /\ old.shards[i] = 0 THEN s.inc ELSE old.shards[i]
         /\ t.sized <=> old.sized \/ (s.idx >= FData /\ old.shards[s.idx] = 0)
         /\ t.delivered = old.delivered \cup (IF s.idx < FData THEN {s.idx} ELSE {})
         /\ HandsUp(Filed(old, s), s) <=> s.idx < FData /\ s.idx \notin old.delivered
<1> DEFINE r == Filed(old, s)
           t == Taken(old, s)
<1>0. s.inc \in Nat /\ s.idx \in Nat /\ (s.idx < FData => s.idx \in DataIdx)
  BY FecConstants DEF Shards, DataIdx
<1>1. /\ old.held \in BOOLEAN /\ old.shards \in [FIndices -> Nat] /\ old.delivered \in SUBSET DataIdx
      /\ old.sized \in BOOLEAN /\ old.done \in BOOLEAN
      /\ old = [held |-> old.held, shards |-> old.shards, delivered |-> old.delivered,
                sized |-> old.sized, done |-> old.done]
  BY DEF GroupType
<1>2. r = [held |-> TRUE,
           shards |-> [old.shards EXCEPT ![s.idx] = IF @ = 0 THEN s.inc ELSE @],
           delivered |-> old.delivered,
           sized |-> (old.sized \/ (s.idx >= FData /\ old.shards[s.idx] = 0)),
           done |-> old.done]
  <2> DEFINE z  == old.sized \/ (s.idx >= FData /\ old.shards[s.idx] = 0)
             sh == [old.shards EXCEPT ![s.idx] = IF @ = 0 THEN s.inc ELSE @]
  <2>1. r = [old EXCEPT !.held = TRUE, !.shards = sh, !.sized = z]
    BY <1>1 DEF Filed
  <2> HIDE DEF z, sh, r
  <2>2. r = [held |-> TRUE, shards |-> sh, delivered |-> old.delivered, sized |-> z, done |-> old.done]
    BY <1>1, <2>1
  <2> QED
    BY <2>2 DEF z, sh
<1>3. [old.shards EXCEPT ![s.idx] = IF @ = 0 THEN s.inc ELSE @] \in [FIndices -> Nat]
  BY <1>0, <1>1
<1>4. HandsUp(r, s) <=> s.idx < FData /\ s.idx \notin old.delivered
  BY <1>2 DEF HandsUp
<1>5. t = [held |-> TRUE,
           shards |-> [old.shards EXCEPT ![s.idx] = IF @ = 0 THEN s.inc ELSE @],
           delivered |-> old.delivered \cup (IF s.idx < FData THEN {s.idx} ELSE {}),
           sized |-> (old.sized \/ (s.idx >= FData /\ old.shards[s.idx] = 0)),
           done |-> old.done]
  <2>1. CASE HandsUp(r, s)
    <3>1. t = [r EXCEPT !.delivered = @ \cup {s.idx}]
      BY <2>1 DEF Taken
    <3> HIDE DEF t, r
    <3> QED
      BY <1>2, <1>4, <2>1, <3>1
  <2>2. CASE ~HandsUp(r, s)
    <3>1. t = r
      BY <2>2 DEF Taken
    <3>2. old.delivered = old.delivered \cup (IF s.idx < FData THEN {s.idx} ELSE {})
      BY <1>4, <2>2
    <3> HIDE DEF t, r
    <3> QED
      BY <1>2, <3>1, <3>2
  <2> QED
    BY <2>1, <2>2
<1> HIDE DEF t
<1>6. t \in GroupType
  <2>1. TRUE \in BOOLEAN /\ (old.sized \/ (s.idx >= FData /\ old.shards[s.idx] = 0)) \in BOOLEAN
    BY Zenon
  <2>2. old.delivered \cup (IF s.idx < FData THEN {s.idx} ELSE {}) \in SUBSET DataIdx
    BY <1>0, <1>1
  <2> QED
    BY <1>1, <1>3, <1>5, <2>1, <2>2 DEF GroupType
<1>7. \A i \in FIndices : t.shards[i] = IF i = s.idx /\ old.shards[i] = 0 THEN s.inc ELSE old.shards[i]
  BY <1>1, <1>5
<1>8. /\ t.held = TRUE /\ t.done = old.done
      /\ t.delivered = old.delivered \cup (IF s.idx < FData THEN {s.idx} ELSE {})
  BY <1>5
<1>9. t.sized <=> old.sized \/ (s.idx >= FData /\ old.shards[s.idx] = 0)
  <2> DEFINE z == old.sized \/ (s.idx >= FData /\ old.shards[s.idx] = 0)
  <2>1. z \in BOOLEAN
    BY Zenon
  <2> HIDE DEF z
  <2>2. t.sized = z
    BY <1>5 DEF z
  <2> QED
    BY <2>1, <2>2 DEF z
<1> QED
  BY <1>4, <1>6, <1>7, <1>8, <1>9, Zenon DEF t

(* What rebuild does to a group: nothing; the packets of its one            *)
(* incarnation that are missing, each once; or, when it is mixed, nothing   *)
(* or garbled packets.                                                      *)
Rebuilt(g, t, q, r) ==
  /\ r \in GroupType /\ r.held = t.held /\ r.shards = t.shards /\ r.sized = t.sized
  /\ q \in Seq(Shards)
  /\ \/ q = <<>> /\ r = t /\ ~CanRebuild(t)
     \/ Mixed(t) /\ q = <<>> /\ r.delivered = t.delivered
     \/ /\ Mixed(t) /\ r.delivered = DataIdx
        /\ ToSet(q) = (IF DataIdx \ t.delivered = {} THEN {} ELSE {Garbled})
     \/ /\ CanRebuild(t) /\ r.done = TRUE /\ r.delivered = DataIdx
        /\ \E k \in Nat \ {0} : /\ Incs(t) = {k}
                               /\ ToSet(q) = {Packet(k, g, i) : i \in DataIdx \ t.delivered}
        /\ \A i, j \in 1 .. Len(q) : q[i] = q[j] => i = j

LEMMA RebuildIs ==
  ASSUME NEW g \in FGroups, NEW t \in GroupType, NEW out \in Rebuilds(g, t)
  PROVE  Rebuilt(g, t, out[1], out[2])
<1> DEFINE missing == {i \in DataIdx : i \notin t.delivered}
           whole   == [t EXCEPT !.done = TRUE, !.delivered = DataIdx]
           half    == [t EXCEPT !.done = TRUE]
           bad     == [i \in 1 .. Cardinality(missing) |-> Garbled]
           good    == SetToSeq({Packet(CHOOSE k \in Incs(t) : TRUE, g, i) : i \in missing})
<1>0. missing = DataIdx \ t.delivered /\ IsFiniteSet(missing) /\ missing \subseteq Nat /\ g \in Nat
  BY FecConstants, FS_Subset
<1>1. /\ whole \in GroupType /\ whole.held = t.held /\ whole.shards = t.shards
      /\ whole.sized = t.sized /\ whole.done = TRUE /\ whole.delivered = DataIdx
  <2>1. TRUE \in BOOLEAN /\ DataIdx \in SUBSET DataIdx
    BY Zenon
  <2> QED
    BY <2>1 DEF GroupType
<1>2. /\ half \in GroupType /\ half.held = t.held /\ half.shards = t.shards
      /\ half.sized = t.sized /\ half.delivered = t.delivered
  <2>1. TRUE \in BOOLEAN
    BY Zenon
  <2> QED
    BY <2>1 DEF GroupType
<1>3. out \in (IF ~CanRebuild(t) THEN {<<<<>>, t>>}
               ELSE IF Cardinality(Incs(t)) = 1 THEN {<<good, whole>>}
               ELSE {<<<<>>, t>>, <<<<>>, half>>, <<bad, whole>>})
  BY DEF Rebuilds, DataIdx
<1> HIDE DEF missing, whole, half, bad, good
<1>4. <<>> \in Seq(Shards)
  OBVIOUS
<1>5. CASE ~CanRebuild(t)
  <2>1. out = <<<<>>, t>>
    BY <1>3, <1>5
  <2>2. out[1] = <<>> /\ out[2] = t
    BY <2>1
  <2> QED
    BY <1>4, <1>5, <2>2 DEF Rebuilt
<1>6. ASSUME CanRebuild(t) PROVE Incs(t) # {}
  <2>1. Cardinality(HaveTotal(t)) >= FData /\ Cardinality(HaveTotal(t)) \in Nat
    BY <1>6, IncsFinite DEF CanRebuild
  <2>2. HaveTotal(t) # {}
    BY <2>1, FecConstants, FS_EmptySet
  <2> QED
    BY <2>2 DEF Incs
<1>7. CASE CanRebuild(t) /\ Cardinality(Incs(t)) = 1
  <2>1. PICK k \in Nat \ {0} : Incs(t) = {k}
    BY <1>6, <1>7, IncsAre
  <2> DEFINE P == {Packet(k, g, i) : i \in missing}
  <2>2. good = SetToSeq(P)
    <3>1. (CHOOSE x \in Incs(t) : TRUE) = k
      BY <2>1
    <3> QED
      BY <3>1 DEF good
  <2>3. IsFiniteSet(P)
    <3> DEFINE f == [i \in missing |-> Packet(k, g, i)]
    <3>1. f \in Surjection(missing, P)
      BY DEF Surjection
    <3> QED
      BY <1>0, <3>1, FS_Surjection
  <2>4. P \subseteq Shards
    BY <1>0, PacketIs
  <2> HIDE DEF P
  <2>5. /\ good \in Seq(P) /\ ToSet(good) = P
        /\ \A i, j \in 1 .. Len(good) : good[i] = good[j] => i = j
    BY <2>2, <2>3, Listed
  <2>6. good \in Seq(Shards)
    BY <2>4, <2>5
  <2>7. out = <<good, whole>>
    BY <1>3, <1>7
  <2>8. out[1] = good /\ out[2] = whole
    BY <2>7
  <2>9. ToSet(out[1]) = {Packet(k, g, i) : i \in DataIdx \ t.delivered}
    BY <1>0, <2>5, <2>8 DEF P
  <2> QED
    BY <1>1, <1>7, <2>1, <2>5, <2>6, <2>8, <2>9 DEF Rebuilt
<1>8. CASE CanRebuild(t) /\ Cardinality(Incs(t)) # 1
  <2>1. Mixed(t)
    BY <1>6, <1>8, IncsAre
  <2>2. out \in {<<<<>>, t>>, <<<<>>, half>>, <<bad, whole>>}
    BY <1>3, <1>8
  <2>3. CASE out = <<<<>>, t>>
    <3>1. out[1] = <<>> /\ out[2] = t
      BY <2>3
    <3> QED
      BY <1>4, <2>1, <3>1 DEF Rebuilt
  <2>4. CASE out = <<<<>>, half>>
    <3>1. out[1] = <<>> /\ out[2] = half
      BY <2>4
    <3> QED
      BY <1>2, <1>4, <2>1, <3>1 DEF Rebuilt
  <2>5. CASE out = <<bad, whole>>
    <3>1. out[1] = bad /\ out[2] = whole
      BY <2>5
    <3>2. Cardinality(missing) \in Nat /\ (Cardinality(missing) = 0 <=> missing = {})
      BY <1>0, FS_CardinalityType, FS_EmptySet
    <3>3. bad \in Seq(Shards) /\ DOMAIN bad = 1 .. Cardinality(missing)
          /\ \A i \in 1 .. Cardinality(missing) : bad[i] = Garbled
      <4>1. bad \in [1 .. Cardinality(missing) -> Shards] /\ \A i \in 1 .. Cardinality(missing) : bad[i] = Garbled
        BY PacketIs DEF bad
      <4> QED
        BY <3>2, <4>1
    <3>4. ToSet(bad) = (IF missing = {} THEN {} ELSE {Garbled})
      <4>1. CASE missing = {}
        BY <3>2, <3>3, <4>1 DEF ToSet
      <4>2. CASE missing # {}
        <5>1. 1 \in 1 .. Cardinality(missing)
          BY <3>2, <4>2
        <5> QED
          BY <3>3, <4>2, <5>1 DEF ToSet
      <4> QED
        BY <4>1, <4>2
    <3> QED
      BY <1>0, <1>1, <2>1, <3>1, <3>3, <3>4 DEF Rebuilt
  <2> QED
    BY <2>2, <2>3, <2>4, <2>5
<1> QED
  BY <1>5, <1>7, <1>8

(* A shard that arrives leaves its group right.                             *)
LEMMA ArrivalKeepsGroup ==
  ASSUME NEW g \in FGroups, NEW old \in GroupType, NEW U, NEW n \in Nat, GroupOK(g, old, U, n),
         NEW s \in Shards, s.grp = g, s.idx \in FIndices, s.inc # 0,
         NEW out \in Rebuilds(g, Taken(old, s)),
         Mixed(Taken(old, s)) => n > 1,
         NEW V, U \subseteq V, ToSet(out[1]) \subseteq V,
         HandsUp(Filed(old, s), s) => s \in V
  PROVE  GroupOK(g, out[2], V, n)
<1> DEFINE t == Taken(old, s)
           r == out[2]
<1>1. /\ t \in GroupType /\ t.held = TRUE /\ t.done = old.done
      /\ \A i \in FIndices : t.shards[i] = IF i = s.idx /\ old.shards[i] = 0 THEN s.inc ELSE old.shards[i]
      /\ t.sized <=> old.sized \/ (s.idx >= FData /\ old.shards[s.idx] = 0)
      /\ t.delivered = old.delivered \cup (IF s.idx < FData THEN {s.idx} ELSE {})
      /\ HandsUp(Filed(old, s), s) <=> s.idx < FData /\ s.idx \notin old.delivered
  BY TakenIs
<1> HIDE DEF t
<1>2. Rebuilt(g, t, out[1], r)
  BY <1>1, RebuildIs DEF t
<1> HIDE DEF r
<1>3. t.delivered \subseteq r.delivered /\ r.delivered \subseteq DataIdx /\ old.delivered \subseteq t.delivered
  BY <1>1, <1>2 DEF Rebuilt, GroupType
<1>4. \A i \in FIndices : old.shards[i] # 0 => t.shards[i] = old.shards[i]
  BY <1>1
<1>5. t.shards[s.idx] # 0 /\ (s.idx \notin old.delivered /\ s.idx < FData => t.shards[s.idx] = s.inc)
  <2>1. s.idx < FData => s.idx \in DataIdx
    BY FecConstants DEF DataIdx, Shards
  <2> QED
    BY <1>1, <2>1 DEF GroupOK
<1>6. Incs(r) = Incs(t) /\ Incs(t) # {} /\ Incs(old) \subseteq Incs(t)
  <2>1. HaveTotal(old) \subseteq HaveTotal(t) /\ s.idx \in HaveTotal(t)
    BY <1>4, <1>5 DEF HaveTotal
  <2>2. HaveTotal(r) = HaveTotal(t)
    BY <1>2 DEF Rebuilt, HaveTotal
  <2>3. Incs(r) = Incs(t)
    BY <1>2, <2>2 DEF Rebuilt, Incs
  <2>4. \A i \in HaveTotal(old) : t.shards[i] = old.shards[i]
    BY <1>4 DEF HaveTotal
  <2> QED
    BY <2>1, <2>3, <2>4 DEF Incs
<1>7. \A i \in DataIdx : r.shards[i] # 0 => i \in r.delivered
  <2> SUFFICES ASSUME NEW i \in DataIdx, t.shards[i] # 0 PROVE i \in t.delivered
    BY <1>2, <1>3 DEF Rebuilt
  <2>1. i \in FIndices /\ i < FData
    BY FecConstants DEF DataIdx
  <2>2. CASE i = s.idx
    BY <1>1, <2>1, <2>2
  <2>3. CASE i # s.idx
    BY <1>1, <2>1, <2>3 DEF GroupOK
  <2> QED
    BY <2>2, <2>3
<1>8. r.sized <=> \E i \in FIndices : i >= FData /\ r.shards[i] # 0
  <2>1. t.sized <=> \E i \in FIndices : i >= FData /\ t.shards[i] # 0
    <3>1. ASSUME t.sized PROVE \E i \in FIndices : i >= FData /\ t.shards[i] # 0
      <4>1. CASE old.sized
        BY <1>4, <4>1 DEF GroupOK
      <4>2. CASE s.idx >= FData
        BY <1>5, <4>2
      <4> QED
        BY <1>1, <3>1, <4>1, <4>2
    <3>2. ASSUME NEW i \in FIndices, i >= FData, t.shards[i] # 0 PROVE t.sized
      <4>1. CASE old.shards[i] # 0
        BY <1>1, <3>2, <4>1 DEF GroupOK
      <4>2. CASE old.shards[i] = 0
        BY <1>1, <3>2, <4>2
      <4> QED
        BY <4>1, <4>2
    <3> QED
      BY <3>1, <3>2, Zenon
  <2> QED
    BY <1>2, <2>1 DEF Rebuilt
(* A group of one incarnation.                                              *)
<1>9. ASSUME NEW k, Incs(t) = {k}
      PROVE  /\ \A i \in t.delivered : Packet(k, g, i) \in V
             /\ old.done => old.delivered = DataIdx
  <2>1. old = NoGroup \/ Incs(old) = {k}
    BY <1>6, <1>9 DEF GroupOK
  <2>2. \A i \in old.delivered : Packet(k, g, i) \in V
    BY <2>1, EmptyGroup DEF GroupOK
  <2>3. old.done => old.delivered = DataIdx
    <3>1. NoGroup.done = FALSE
      BY DEF NoGroup
    <3> QED
      BY <2>1, <3>1 DEF GroupOK
  <2>4. ASSUME s.idx < FData, s.idx \notin old.delivered PROVE Packet(k, g, s.idx) \in V
    <3>1. s.inc = k
      BY <1>5, <1>9, <2>4 DEF Incs, HaveTotal
    <3> QED
      BY <1>1, <2>4, <3>1, PacketIs
  <2> QED
    BY <1>1, <2>2, <2>3, <2>4
<1>10. ASSUME NEW k \in Incs(r), Incs(r) = {k}
       PROVE  /\ \A i \in r.delivered : Packet(k, g, i) \in V
              /\ ~CanRebuild(r)
              /\ r.done => r.delivered = DataIdx
  <2>1. Incs(t) = {k} /\ ~Mixed(t)
    BY <1>1, <1>6, <1>10, IncsAre
  <2>2. CASE r = t /\ ~CanRebuild(t)
    BY <1>1, <1>3, <1>9, <2>1, <2>2
  <2>3. CASE /\ r.done = TRUE /\ r.delivered = DataIdx
             /\ ToSet(out[1]) = {Packet(k, g, i) : i \in DataIdx \ t.delivered}
    BY <1>9, <2>1, <2>3 DEF CanRebuild
  <2> QED
    BY <1>2, <2>1, <2>2, <2>3 DEF Rebuilt
<1>11. ASSUME NEW i \in r.delivered
       PROVE  (\E p \in V : p.grp = g /\ p.idx = i) \/ (n > 1 /\ Garbled \in V)
  <2>0. i \in Nat /\ g \in Nat
    BY <1>3, FecConstants
  <2>1. CASE i \in old.delivered
    BY <2>1 DEF GroupOK
  <2>2. CASE i \in t.delivered \ old.delivered
    BY <1>1, <2>2
  <2>3. CASE i \notin t.delivered
    <3>1. CASE Mixed(t)
      <4>1. n > 1
        BY <3>1 DEF t
      <4>2. ToSet(out[1]) = {Garbled}
        <5>1. r.delivered # t.delivered /\ DataIdx \ t.delivered # {} /\ r # t
          BY <1>3, <2>3
        <5>2. Incs(t) # {} /\ \A k : Incs(t) # {k}
          BY <1>1, <1>6, <3>1, IncsAre
        <5> QED
          BY <1>2, <5>1, <5>2 DEF Rebuilt
      <4> QED
        BY <4>1, <4>2
    <3>2. CASE ~Mixed(t)
      <4>1. PICK k \in Nat \ {0} : ToSet(out[1]) = {Packet(k, g, j) : j \in DataIdx \ t.delivered}
        BY <1>2, <2>3, <3>2 DEF Rebuilt
      <4>2. Packet(k, g, i) \in V
        BY <1>3, <2>3, <4>1
      <4> QED
        BY <2>0, <4>2, PacketIs
    <3> QED
      BY <3>1, <3>2
  <2> QED
    BY <2>1, <2>2, <2>3
<1>12. r.held
  BY <1>1, <1>2 DEF Rebuilt
<1> QED
  BY <1>6, <1>7, <1>8, <1>10, <1>11, <1>12 DEF GroupOK, r

-----------------------------------------------------------------------------
(* The receiver. *)

(* A group that comes into the order pushes out at most the oldest.         *)
LEMMA OrderAfter ==
  ASSUME FecInv, NEW g \in FGroups, NEW order,
         order = IF fgroups[g].held THEN forder ELSE evict(Append(forder, g))
  PROVE  /\ order \in Seq(FGroups) /\ Len(order) <= FWindow
         /\ \A i, j \in 1 .. Len(order) : order[i] = order[j] => i = j
         /\ g \in ToSet(order)
         /\ \A x \in ToSet(order) : x = g \/ x \in ToSet(forder)
<1>0. /\ forder \in Seq(FGroups) /\ Len(forder) \in Nat /\ Len(forder) <= FWindow /\ FWindow \in Nat /\ FWindow > 0
      /\ \A i, j \in 1 .. Len(forder) : forder[i] = forder[j] => i = j
      /\ ToSet(forder) = {forder[i] : i \in 1 .. Len(forder)}
      /\ fgroups[g].held <=> g \in ToSet(forder)
  <2>1. forder \in Seq(FGroups)
    BY DEF FecInv, OrderOK
  <2>2. ToSet(forder) = {forder[i] : i \in 1 .. Len(forder)}
    BY <2>1, SeqElems
  <2> QED
    BY <2>1, <2>2, SchemeAssumption DEF FecInv, OrderOK
<1>1. CASE fgroups[g].held
  BY <1>0, <1>1
<1>2. CASE ~fgroups[g].held
  <2> DEFINE more == Append(forder, g)
             L    == Len(forder)
  <2>1. /\ more \in Seq(FGroups) /\ Len(more) = L + 1 /\ more[L + 1] = g
        /\ \A i \in 1 .. L : more[i] = forder[i]
    BY <1>0
  <2>2. \A i, j \in 1 .. L + 1 : more[i] = more[j] => i = j
    <3>1. \A i \in 1 .. L : more[i] # g
      BY <1>0, <1>2, <2>1
    <3>2. \A i \in 1 .. L + 1 : i \in 1 .. L \/ i = L + 1
      BY <1>0
    <3> QED
      BY <1>0, <2>1, <3>1, <3>2
  <2>3. \A i \in 1 .. L + 1 : more[i] = g \/ more[i] \in ToSet(forder)
    <3>1. \A i \in 1 .. L + 1 : i \in 1 .. L \/ i = L + 1
      BY <1>0
    <3> QED
      BY <1>0, <2>1, <3>1
  <2> HIDE DEF more
  <2>4. order = evict(more)
    BY <1>2 DEF more
  <2>5. CASE L + 1 <= FWindow
    <3>1. order = more
      BY <1>0, <2>1, <2>4, <2>5 DEF evict
    <3>2. ToSet(more) = {more[i] : i \in 1 .. Len(more)}
      BY <2>1, SeqElems
    <3>3. L + 1 \in 1 .. Len(more)
      BY <1>0, <2>1
    <3> QED
      BY <2>1, <2>2, <2>3, <2>5, <3>1, <3>2, <3>3
  <2>6. CASE L + 1 > FWindow
    <3>1. order = Tail(more)
      BY <1>0, <2>1, <2>4, <2>6 DEF evict
    <3>2. /\ order \in Seq(FGroups) /\ Len(order) = L /\ \A i \in 1 .. L : order[i] = more[i + 1]
      <4>1. L \in Nat /\ Len(more) # 0 /\ more # <<>>
        BY <1>0, <2>1
      <4>2. Tail(more) \in Seq(FGroups) /\ Len(Tail(more)) = Len(more) - 1
            /\ \A i \in 1 .. Len(more) - 1 : Tail(more)[i] = more[i + 1]
        BY <2>1, <4>1
      <4>3. Len(more) - 1 = L
        BY <2>1, <4>1
      <4> QED
        BY <3>1, <4>2, <4>3
    <3>3. L <= FWindow /\ L \in 1 .. L
      BY <1>0, <2>6
    <3>4. \A i \in 1 .. L : i + 1 \in 1 .. L + 1
      BY <1>0
    <3>5. ToSet(order) = {order[i] : i \in 1 .. L}
      BY <3>2, SeqElems
    <3>6. g \in ToSet(order)
      BY <2>1, <3>2, <3>3, <3>5
    <3>7. \A i, j \in 1 .. L : order[i] = order[j] => i = j
      <4> SUFFICES ASSUME NEW i \in 1 .. L, NEW j \in 1 .. L, order[i] = order[j] PROVE i = j
        OBVIOUS
      <4>1. i + 1 = j + 1
        BY <2>2, <3>2, <3>4
      <4> QED
        BY <1>0, <4>1
    <3>8. \A x \in ToSet(order) : x = g \/ x \in ToSet(forder)
      BY <2>3, <3>2, <3>4, <3>5
    <3> QED
      BY <3>2, <3>3, <3>6, <3>7, <3>8
  <2> QED
    BY <1>0, <2>5, <2>6
<1> QED
  BY <1>1, <1>2

LEMMA AbsorbKeeps == ASSUME FecInv, NEW s \in fwire, absorb(s) PROVE FecInv'
<1> DEFINE g   == s.grp
           old == fgroups[g]
           t   == Taken(old, s)
           up  == HandsUp(Filed(old, s), s)
           order == IF old.held THEN forder ELSE evict(Append(forder, g))
           gone  == ToSet(forder) \ ToSet(order)
<1>0. FecTypes /\ SentShard(s) /\ fpending = <<>> /\ Given = fup
  BY NothingWaits DEF FecInv, WireOK, absorb, Given
<1>1. /\ s \in Shards /\ g \in FGroups /\ g \in Nat /\ s.idx \in FIndices /\ s.idx \in Nat
      /\ s.inc \in 1 .. finc /\ s.inc # 0 /\ finc \in Nat /\ old \in GroupType
      /\ s = Packet(s.inc, g, s.idx)
  <2>1. /\ s \in Shards /\ g \in FGroups /\ s.idx \in FIndices /\ s.inc \in 1 .. finc /\ finc \in Nat
    BY <1>0, FecAssumption DEF FecTypes, SentShard
  <2>2. g \in Nat /\ s.idx \in Nat
    BY <2>1, FecConstants
  <2>5. s.inc # 0
    BY <2>1
  <2>3. old \in GroupType
    BY <1>0, <2>1 DEF FecTypes
  <2>4. s = Packet(s.inc, g, s.idx)
    BY <2>1, PacketIs
  <2> QED
    BY <2>1, <2>2, <2>3, <2>4, <2>5
<1>2. PICK out \in Rebuilds(g, t) :
        /\ forder' = order
        /\ fgroups' = [x \in FGroups |-> IF x = g THEN out[2] ELSE IF x \in gone THEN NoGroup ELSE fgroups[x]]
        /\ fpending' = out[1]
        /\ IF up THEN HandUp(s) ELSE UNCHANGED <<fup, fagain>>
        /\ fevicted' = fevicted \cup gone
        /\ flost' = IF s.idx < FData /\ ~up /\ s \notin fup \cup ToSet(out[1]) THEN flost \cup {s} ELSE flost
  BY DEF absorb, Taken
<1>3. /\ finc' = finc /\ sendGrp' = sendGrp /\ sendIdx' = sendIdx
      /\ ffaults' \in 0 .. FMaxFaults /\ fwire' \subseteq fwire
  <2>1. fwire' \subseteq fwire /\ (ffaults' = ffaults \/ (ffaults < FMaxFaults /\ ffaults' = ffaults + 1))
    BY DEF absorb
  <2> QED
    BY <1>0, <2>1, FecAssumption DEF absorb, fsend, FecTypes
<1>4. /\ t \in GroupType /\ t.held = TRUE
      /\ \A i \in FIndices : t.shards[i] = IF i = s.idx /\ old.shards[i] = 0 THEN s.inc ELSE old.shards[i]
      /\ t.delivered = old.delivered \cup (IF s.idx < FData THEN {s.idx} ELSE {})
      /\ up <=> s.idx < FData /\ s.idx \notin old.delivered
  BY <1>1, TakenIs
<1>5. Rebuilt(g, t, out[1], out[2])
  <2> HIDE DEF t, g
  <2> QED
    BY <1>1, <1>2, <1>4, RebuildIs
<1>6. /\ order \in Seq(FGroups) /\ Len(order) <= FWindow
      /\ \A i, j \in 1 .. Len(order) : order[i] = order[j] => i = j
      /\ g \in ToSet(order)
      /\ \A x \in ToSet(order) : x = g \/ x \in ToSet(forder)
  <2> HIDE DEF g
  <2> QED
    BY <1>1, OrderAfter
<1> HIDE DEF t, up, order, gone
<1>7. /\ fgroups'[g] = out[2] /\ g \notin gone
      /\ \A x \in gone : x \in FGroups => fgroups'[x] = NoGroup
      /\ \A x \in FGroups : x # g /\ x \notin gone => fgroups'[x] = fgroups[x]
  BY <1>1, <1>2, <1>6 DEF gone
<1>8. Given' = fup \cup (IF up THEN {s} ELSE {}) \cup ToSet(out[1])
  BY <1>2 DEF Given, HandUp
<1>9. \A p : SentShard(p) <=> SentShard(p)'
  BY <1>3 DEF SentShard
(* What is filed was sent, and mixed shards need two incarnations.          *)
<1>10. \A i \in FIndices : t.shards[i] # 0 => SentShard(Packet(t.shards[i], g, i))
  <2> SUFFICES ASSUME NEW i \in FIndices, t.shards[i] # 0 PROVE SentShard(Packet(t.shards[i], g, i))
    OBVIOUS
  <2>1. CASE i = s.idx /\ old.shards[i] = 0
    BY <1>0, <1>1, <1>4, <2>1
  <2>2. CASE ~(i = s.idx /\ old.shards[i] = 0)
    BY <1>1, <1>4, <2>2 DEF FecInv, StoredOK
  <2> QED
    BY <2>1, <2>2
<1>11. Mixed(t) => finc > 1
  <2> SUFFICES ASSUME NEW i \in FIndices, NEW j \in FIndices, t.shards[i] # 0, t.shards[j] # 0,
                      t.shards[i] # t.shards[j]
               PROVE  finc > 1
    BY DEF Mixed
  <2>1. \A x \in FIndices : t.shards[x] # 0 => t.shards[x] \in 1 .. finc
    <3> SUFFICES ASSUME NEW x \in FIndices, t.shards[x] # 0 PROVE t.shards[x] \in 1 .. finc
      OBVIOUS
    <3>1. t.shards[x] \in Nat /\ x \in Nat
      BY <1>4, FecConstants DEF GroupType
    <3>2. SentShard(Packet(t.shards[x], g, x))
      BY <1>10
    <3>3. Packet(t.shards[x], g, x).inc = t.shards[x]
      BY DEF Packet
    <3> QED
      BY <3>2, <3>3 DEF SentShard
  <2> QED
    BY <1>1, <2>1
<1>12. GroupOK(g, out[2], Given', finc)
  <2>1. GroupOK(g, old, fup, finc) /\ fup \subseteq Given' /\ ToSet(out[1]) \subseteq Given'
    BY <1>0, <1>1, <1>8 DEF FecInv, GroupsOK
  <2>2. up => s \in Given'
    BY <1>8
  <2> QED
    BY <1>1, <1>2, <1>11, <2>1, <2>2, ArrivalKeepsGroup DEF t, up
<1>13. FecTypes'
  <2>1. fgroups' \in [FGroups -> GroupType]
    BY <1>0, <1>2, <1>5, EmptyGroup DEF FecTypes, Rebuilt
  <2> QED
    BY <1>0, <1>2, <1>3, <1>5, <2>1 DEF FecTypes, Rebuilt
<1>14. OrderOK'
  <2>1. ASSUME NEW x \in FGroups PROVE fgroups'[x].held <=> x \in ToSet(order)
    <3>1. fgroups[x].held <=> x \in ToSet(forder)
      BY SeqElems DEF FecInv, OrderOK
    <3>2. CASE x = g
      BY <1>4, <1>5, <1>6, <1>7, <3>2 DEF Rebuilt
    <3>3. CASE x \in gone
      BY <1>7, <3>3, EmptyGroup DEF gone
    <3>4. CASE x # g /\ x \notin gone
      BY <1>6, <1>7, <3>1, <3>4 DEF gone
    <3> QED
      BY <3>2, <3>3, <3>4
  <2>2. ToSet(order) = {order[i] : i \in 1 .. Len(order)}
    BY <1>6, SeqElems
  <2> QED
    BY <1>2, <1>6, <2>1, <2>2 DEF OrderOK
<1>15. WireOK'
  BY <1>3, <1>9 DEF FecInv, WireOK
<1>16. StoredOK'
  <2> SUFFICES ASSUME NEW x \in FGroups, NEW i \in FIndices, NEW v, v = fgroups'[x].shards[i], v # 0
               PROVE  SentShard(Packet(v, x, i))'
    BY DEF StoredOK
  <2>1. SentShard(Packet(v, x, i))
    <3>1. CASE x = g
      BY <1>5, <1>7, <1>10, <3>1 DEF Rebuilt
    <3>2. CASE x \in gone
      BY <1>7, <3>2, EmptyGroup
    <3>3. CASE x # g /\ x \notin gone
      BY <1>7, <3>3 DEF FecInv, StoredOK
    <3> QED
      BY <3>1, <3>2, <3>3
  <2> QED
    BY <1>9, <2>1
(* What is handed up or rebuilt was sent.                                   *)
<1>17. GivenOK'
  <2> SUFFICES ASSUME NEW p \in Given' PROVE Genuine(p)
    BY <1>3, <1>9 DEF GivenOK, Genuine
  <2>1. CASE p \in fup
    BY <1>0, <2>1 DEF FecInv, GivenOK
  <2>2. CASE up /\ p = s
    BY <1>0, <1>4, <2>2 DEF Genuine
  <2>3. CASE p \in ToSet(out[1])
    <3>1. CASE Mixed(t)
      <4>1. CASE p = Garbled
        BY <1>11, <3>1, <4>1 DEF Genuine
      <4>2. CASE p # Garbled
        <5>1. Incs(t) # {} => \A k : Incs(t) # {k}
          BY <1>4, <3>1, IncsAre
        <5> QED
          BY <1>5, <2>3, <4>2, <5>1, NothingWaits DEF Rebuilt
      <4> QED
        BY <4>1, <4>2
    <3>2. CASE ~Mixed(t)
      <4>1. CanRebuild(t)
        BY <1>5, <2>3, <3>2, NothingWaits DEF Rebuilt
      <4>2. PICK k \in Nat \ {0} : Incs(t) = {k} /\ ToSet(out[1]) = {Packet(k, g, i) : i \in DataIdx \ t.delivered}
        BY <1>5, <2>3, <3>2, NothingWaits DEF Rebuilt
      <4>3. PICK i \in DataIdx : p = Packet(k, g, i)
        BY <2>3, <4>2
      <4>5. PICK j \in FIndices : j >= FData /\ t.shards[j] # 0
        BY <1>5, <1>12, <4>1 DEF Rebuilt, CanRebuild, GroupOK
      <4>6. t.shards[j] = k
        BY <4>2, <4>5 DEF Incs, HaveTotal
      <4>7. j \in Nat /\ i \in Nat /\ i < FData /\ i \in FIndices /\ sendIdx \in Nat /\ sendIdx < FData /\ sendGrp \in Nat
        BY <1>0, FecConstants, FecAssumption DEF DataIdx, FecTypes
      <4>8. SentShard(Packet(k, g, j))
        BY <1>10, <4>5, <4>6
      <4>9. k \in 1 .. finc /\ (k = finc => g < sendGrp)
        <5> DEFINE c == Packet(k, g, j)
        <5>1. c.inc = k /\ c.grp = g /\ c.idx = j
          BY DEF Packet
        <5> HIDE DEF c
        <5>2. k \in 1 .. finc /\ (k = finc => g < sendGrp \/ (g = sendGrp /\ j < sendIdx))
          BY <4>8, <5>1 DEF SentShard, c
        <5> QED
          BY <4>5, <4>7, <5>2, FecConstants
      <4>10. p \in Shards /\ p.inc = k /\ p.grp = g /\ p.idx = i
        BY <1>1, <4>3, <4>7 DEF Packet, Shards
      <4> QED
        BY <1>1, <4>7, <4>9, <4>10 DEF Genuine, SentShard
    <3> QED
      BY <3>1, <3>2
  <2> QED
    BY <1>8, <2>1, <2>2, <2>3
<1>18. GroupsOK'
  <2> SUFFICES ASSUME NEW x \in FGroups PROVE GroupOK(x, fgroups'[x], Given', finc')
    BY DEF GroupsOK
  <2>1. CASE x = g
    BY <1>3, <1>7, <1>12, <2>1
  <2>2. CASE x \in gone
    BY <1>7, <2>2, EmptyGroup
  <2>3. CASE x # g /\ x \notin gone
    <3>1. GroupOK(x, fgroups[x], fup, finc) /\ fup \subseteq Given'
      BY <1>0, <1>8 DEF FecInv, GroupsOK
    <3> QED
      BY <1>1, <1>3, <1>7, <2>3, <3>1, GroupStays
  <2> QED
    BY <2>1, <2>2, <2>3
(* With one incarnation, what is handed up now was not handed up before.    *)
<1>19. ASSUME finc = 1
       PROVE  /\ ~Mixed(t)
              /\ \A p \in fup : SentShard(p) /\ (p.grp \in fevicted \/ p.idx \in fgroups[p.grp].delivered)
              /\ up /\ s \in fup => g \in fevicted
              /\ \A p \in ToSet(out[1]) : p.grp = g /\ p.idx \in DataIdx \ t.delivered
  <2>1. ~Mixed(t)
    BY <1>11, <1>19
  <2>2. \A p \in fup : SentShard(p) /\ (p.grp \in fevicted \/ p.idx \in fgroups[p.grp].delivered)
    BY <1>0, <1>19 DEF FecInv, GivenOK, Genuine, OnceOK
  <2>3. ASSUME NEW p \in ToSet(out[1]) PROVE p.grp = g /\ p.idx \in DataIdx \ t.delivered
    <3>1. PICK k \in Nat \ {0} : ToSet(out[1]) = {Packet(k, g, i) : i \in DataIdx \ t.delivered}
      BY <1>5, <2>1, NothingWaits DEF Rebuilt
    <3>2. PICK i \in DataIdx \ t.delivered : p = Packet(k, g, i)
      BY <3>1
    <3>3. i \in Nat
      BY FecConstants
    <3> QED
      BY <3>2 DEF Packet
  <2> QED
    BY <1>4, <2>1, <2>2, <2>3
<1>20. OnceOK'
  <2> SUFFICES ASSUME finc = 1
               PROVE  /\ \A p \in Given' : p.grp \in fevicted' \/ p.idx \in fgroups'[p.grp].delivered
                      /\ \A i \in 1 .. Len(out[1]) : out[1][i] \in fup' => out[1][i].grp \in fevicted'
                      /\ \A i, j \in 1 .. Len(out[1]) : out[1][i] = out[1][j] => i = j
    BY <1>2, <1>3 DEF OnceOK
  <2>0. t.delivered \subseteq out[2].delivered /\ old.delivered \subseteq t.delivered
    BY <1>4, <1>5 DEF Rebuilt, GroupType
  <2>1. ASSUME NEW p \in Given' PROVE p.grp \in fevicted' \/ p.idx \in fgroups'[p.grp].delivered
    <3>1. CASE p \in fup
      <4>1. p.grp \in FGroups /\ (p.grp \in fevicted \/ p.idx \in fgroups[p.grp].delivered)
        BY <1>19, <2>0, <3>1 DEF SentShard
      <4>2. CASE p.grp = g
        BY <1>2, <1>7, <2>0, <4>1, <4>2
      <4>3. CASE p.grp # g
        BY <1>2, <1>7, <4>1, <4>3
      <4> QED
        BY <4>2, <4>3
    <3>2. CASE up /\ p = s
      BY <1>4, <1>7, <2>0, <3>2
    <3>3. CASE p \in ToSet(out[1])
      <4>1. p.grp = g /\ p.idx \in DataIdx /\ out[2].delivered = DataIdx
        BY <1>5, <1>19, <3>3, NothingWaits DEF Rebuilt
      <4> QED
        BY <1>7, <4>1
    <3> QED
      BY <1>8, <3>1, <3>2, <3>3
  <2>2. ASSUME NEW i \in 1 .. Len(out[1]), out[1][i] \in fup' PROVE out[1][i].grp \in fevicted'
    <3> DEFINE p == out[1][i]
    <3>1. p \in ToSet(out[1])
      BY <1>5, SeqElems DEF Rebuilt
    <3>2. p.grp = g /\ p.idx \notin t.delivered
      BY <1>19, <3>1
    <3>3. p # s \/ ~up
      BY <1>4, <3>2
    <3>4. p \in fup
      BY <1>2, <2>2, <3>3 DEF HandUp
    <3>5. g \in fevicted
      BY <1>19, <2>0, <3>2, <3>4
    <3> QED
      BY <1>2, <3>2, <3>5
  <2>3. \A i, j \in 1 .. Len(out[1]) : out[1][i] = out[1][j] => i = j
    <3>1. Len(<<>>) = 0
      OBVIOUS
    <3> QED
      BY <1>5, <1>19, <3>1 DEF Rebuilt
  <2> QED
    BY <2>1, <2>2, <2>3
<1>21. AgainOK'
  <2> SUFFICES ASSUME NEW p \in fagain' PROVE p.grp \in fevicted' \/ finc > 1
    BY <1>3 DEF AgainOK
  <2>1. CASE p \in fagain
    BY <1>2, <2>1 DEF FecInv, AgainOK
  <2>2. CASE p \notin fagain
    <3>1. up /\ p = s /\ s \in fup
      BY <1>2, <2>2 DEF HandUp
    <3>2. finc = 1 \/ finc > 1
      BY <1>0, FecAssumption DEF FecTypes
    <3> QED
      BY <1>2, <1>19, <3>1, <3>2
  <2> QED
    BY <2>1, <2>2
<1>22. SwallowedByTwin'
  <2> SUFFICES ASSUME NEW p \in flost'
               PROVE  \/ \E q \in Given' : q.grp = p.grp /\ q.idx = p.idx /\ q.inc # p.inc
                      \/ finc > 1 /\ Garbled \in Given'
    BY <1>3 DEF SwallowedByTwin, Given
  <2>1. fup \subseteq Given'
    BY <1>8
  <2>2. CASE p \in flost
    BY <1>0, <2>1, <2>2 DEF FecInv, SwallowedByTwin, Given
  <2>3. CASE p \notin flost
    <3>1. p = s /\ s.idx < FData /\ ~up /\ s \notin fup
      BY <1>2, <2>3
    <3>2. s.idx \in old.delivered
      BY <1>4, <3>1
    <3>3. (\E q \in fup : q.grp = g /\ q.idx = s.idx) \/ (finc > 1 /\ Garbled \in fup)
      BY <1>0, <1>1, <3>2 DEF FecInv, GroupsOK, GroupOK
    <3>4. ASSUME NEW q \in fup, q.grp = g, q.idx = s.idx, q.inc = s.inc PROVE FALSE
      <4>1. q \in Shards
        BY <1>0, PacketIs DEF FecInv, GivenOK, Genuine, SentShard
      <4> QED
        BY <1>1, <3>1, <3>4, <4>1, PacketIs
    <3> QED
      BY <2>1, <3>1, <3>3, <3>4
  <2> QED
    BY <2>2, <2>3
<1> QED
  BY <1>13, <1>14, <1>15, <1>16, <1>17, <1>18, <1>20, <1>21, <1>22 DEF FecInv

(* A rebuilt packet goes from waiting to handed up.                         *)
LEMMA TakePendingKeeps == ASSUME FecInv, takePending PROVE FecInv'
<1> DEFINE h == Head(fpending)
<1>0. /\ fpending \in Seq(Shards) /\ fpending # <<>> /\ finc \in Nat
      /\ UNCHANGED <<finc, sendGrp, sendIdx, fwire, ffaults, fgroups, forder, fevicted, flost>>
      /\ fup' = fup \cup {h} /\ fpending' = Tail(fpending)
      /\ fagain' = IF h \in fup /\ h # Garbled THEN fagain \cup {h} ELSE fagain
  BY FecAssumption DEF FecInv, FecTypes, takePending, HandUp, fsend
<1> DEFINE L == Len(fpending)
<1>1. /\ L \in Nat /\ L >= 1 /\ 1 \in 1 .. L /\ h = fpending[1] /\ h \in Shards
      /\ Tail(fpending) \in Seq(Shards) /\ Len(Tail(fpending)) = L - 1
      /\ \A i \in 1 .. L - 1 : Tail(fpending)[i] = fpending[i + 1] /\ i + 1 \in 1 .. L
  BY <1>0
<1> HIDE DEF h, L
<1>2. Given' = Given
  <2>1. ToSet(fpending) = {fpending[i] : i \in 1 .. L}
    BY <1>0, SeqElems DEF L
  <2>2. ToSet(Tail(fpending)) = {Tail(fpending)[i] : i \in 1 .. L - 1}
    BY <1>1, SeqElems
  <2>3. ToSet(fpending) = {h} \cup ToSet(Tail(fpending))
    <3>1. ASSUME NEW i \in 1 .. L PROVE fpending[i] = h \/ fpending[i] \in ToSet(Tail(fpending))
      <4>1. CASE i = 1
        BY <1>1, <4>1
      <4>2. CASE i # 1
        <5>1. i - 1 \in 1 .. L - 1 /\ (i - 1) + 1 = i
          BY <1>1, <4>2
        <5>2. Tail(fpending)[i - 1] = fpending[i]
          BY <1>1, <5>1
        <5> QED
          BY <2>2, <5>1, <5>2
      <4> QED
        BY <4>1, <4>2
    <3>2. h \in ToSet(fpending)
      BY <1>1, <2>1
    <3>3. \A i \in 1 .. L - 1 : Tail(fpending)[i] \in ToSet(fpending)
      BY <1>1, <2>1
    <3> QED
      BY <2>1, <2>2, <3>1, <3>2, <3>3
  <2> QED
    BY <1>0, <2>3 DEF Given
<1>3. \A p : (SentShard(p) <=> SentShard(p)') /\ (Genuine(p) <=> Genuine(p)')
  BY <1>0 DEF SentShard, Genuine
<1>4. FecTypes' /\ OrderOK' /\ WireOK' /\ GivenOK' /\ GroupsOK'
  <2>1. FecTypes'
    BY <1>0, <1>1 DEF FecInv, FecTypes
  <2>2. OrderOK'
    BY <1>0 DEF FecInv, OrderOK
  <2>3. WireOK' /\ GivenOK'
    BY <1>0, <1>2, <1>3 DEF FecInv, WireOK, GivenOK
  <2>4. ASSUME NEW g \in FGroups PROVE GroupOK(g, fgroups'[g], Given', finc')
    BY <1>0, <1>2 DEF FecInv, GroupsOK
  <2> QED
    BY <2>1, <2>2, <2>3, <2>4 DEF GroupsOK
<1>5. StoredOK'
  BY <1>0, <1>3 DEF FecInv, StoredOK, SentShard
<1>6. OnceOK'
  <2> SUFFICES ASSUME finc = 1
               PROVE  /\ \A p \in Given : p.grp \in fevicted \/ p.idx \in fgroups[p.grp].delivered
                      /\ \A i \in 1 .. L - 1 : Tail(fpending)[i] \in fup \cup {h} => Tail(fpending)[i].grp \in fevicted
                      /\ \A i, j \in 1 .. L - 1 : Tail(fpending)[i] = Tail(fpending)[j] => i = j
    BY <1>0, <1>1, <1>2 DEF OnceOK
  <2>1. /\ \A p \in Given : p.grp \in fevicted \/ p.idx \in fgroups[p.grp].delivered
        /\ \A i \in 1 .. L : fpending[i] \in fup => fpending[i].grp \in fevicted
        /\ \A i, j \in 1 .. L : fpending[i] = fpending[j] => i = j
    BY DEF FecInv, OnceOK, L
  <2>2. ASSUME NEW i \in 1 .. L - 1, Tail(fpending)[i] \in fup \cup {h} PROVE Tail(fpending)[i].grp \in fevicted
    <3>1. Tail(fpending)[i] = fpending[i + 1] /\ i + 1 \in 1 .. L /\ i + 1 # 1
      BY <1>1
    <3>2. fpending[i + 1] # h
      BY <1>1, <2>1, <3>1
    <3> QED
      BY <2>1, <2>2, <3>1, <3>2
  <2>3. ASSUME NEW i \in 1 .. L - 1, NEW j \in 1 .. L - 1, Tail(fpending)[i] = Tail(fpending)[j] PROVE i = j
    <3>1. i + 1 = j + 1
      BY <1>1, <2>1, <2>3
    <3> QED
      BY <1>1, <3>1
  <2> QED
    BY <2>1, <2>2, <2>3
<1>7. AgainOK'
  <2> SUFFICES ASSUME NEW p \in fagain', p \notin fagain PROVE p.grp \in fevicted \/ finc > 1
    BY <1>0 DEF FecInv, AgainOK
  <2>1. p = fpending[1] /\ fpending[1] \in fup /\ 1 \in 1 .. Len(fpending)
    BY <1>0, <1>1 DEF L
  <2>2. finc = 1 \/ finc > 1
    BY FecAssumption DEF FecInv, FecTypes
  <2> QED
    BY <2>1, <2>2 DEF FecInv, OnceOK
<1>8. SwallowedByTwin'
  BY <1>0, <1>2 DEF FecInv, SwallowedByTwin, Given
<1> QED
  BY <1>4, <1>5, <1>6, <1>7, <1>8 DEF FecInv

LEMMA FecStepKeeps == ASSUME FecInv, FecNext PROVE FecInv'
BY WriteKeeps, SenderRestartKeeps, LossKeeps, AbsorbKeeps, TakePendingKeeps DEF FecNext

(* A group of which enough shards of one incarnation came is handed up.     *)
LEMMA FecGives == ASSUME FecInv PROVE FecTypeOK /\ FecSound /\ FecComplete
<1>1. FecTypeOK
  <2>1. forder \in Seq(FGroups)
    BY DEF FecInv, OrderOK
  <2>2. \A g \in FGroups : /\ fgroups[g].held <=> Contains(forder, g)
                           /\ fgroups[g].delivered \subseteq 0 .. FData - 1
    BY DEF FecInv, FecTypes, OrderOK, Contains, GroupType, DataIdx
  <2> QED
    BY <2>2 DEF FecInv, FecTypes, OrderOK, FecTypeOK, DataIdx
<1>2. FecSound
  <2>1. \A p \in fup : Genuine(p)
    BY DEF FecInv, GivenOK, Given
  <2> QED
    BY <2>1 DEF FecSound, Genuine, SentShard, FecInv, AgainOK
<1>3. FecComplete
  <2> SUFFICES ASSUME NEW g \in FGroups, fgroups[g].held, Cardinality(Incs(fgroups[g])) = 1,
                      Cardinality(HaveTotal(fgroups[g])) >= FData, NEW i \in 0 .. FData - 1
               PROVE  LET p == Packet(CHOOSE k \in Incs(fgroups[g]) : TRUE, g, i)
                      IN p \in fup \/ Contains(fpending, p)
    BY DEF FecComplete
  <2> DEFINE r == fgroups[g]
  <2>0. r \in GroupType /\ GroupOK(g, r, Given, finc) /\ i \in DataIdx
    BY DEF FecInv, FecTypes, GroupsOK, DataIdx
  <2>1. PICK k : Incs(r) = {k}
    BY IncsFinite
  <2>2. (CHOOSE x \in Incs(r) : TRUE) = k /\ k \in Incs(r)
    BY <2>1
  <2> HIDE DEF r
  <2>3. r.delivered = DataIdx
    <3>1. CASE r.done
      BY <2>0, <2>1, <2>2, <3>1 DEF GroupOK
    <3>2. CASE ~r.done
      <4>1. ~CanRebuild(r)
        BY <2>0, <2>1, <2>2 DEF GroupOK
      <4>2. Cardinality(HaveTotal(r)) >= FData /\ HaveData(r) \subseteq DataIdx
        BY FecConstants DEF r, HaveData, HaveTotal, DataIdx, FIndices
      <4>3. CASE Cardinality(HaveData(r)) = FData
        <5>1. HaveData(r) = DataIdx
          BY <4>2, <4>3, FecConstants, FS_Subset
        <5> QED
          BY <2>0, <5>1 DEF GroupOK, HaveData, HaveTotal, GroupType
      <4>4. CASE Cardinality(HaveData(r)) # FData
        <5>1. ~r.sized
          BY <3>2, <4>1, <4>2, <4>4 DEF CanRebuild
        <5>2. HaveData(r) = HaveTotal(r)
          <6>1. \A j \in FIndices : j >= FData => r.shards[j] = 0
            BY <2>0, <5>1 DEF GroupOK
          <6>2. \A j \in HaveTotal(r) : j \in FIndices /\ r.shards[j] # 0 /\ j \in Nat
            BY FecConstants DEF HaveTotal
          <6>3. \A j \in HaveTotal(r) : j < FData
            BY <6>1, <6>2, FecConstants
          <6> QED
            BY <6>3 DEF HaveData
        <5>3. Cardinality(HaveData(r)) <= FData /\ Cardinality(HaveData(r)) \in Nat
          BY <4>2, FecConstants, FS_Subset, IncsFinite
        <5> QED
          BY <4>2, <4>4, <5>2, <5>3, FecConstants
      <4> QED
        BY <4>3, <4>4
    <3> QED
      BY <3>1, <3>2
  <2>4. Packet(k, g, i) \in Given
    BY <2>0, <2>1, <2>2, <2>3 DEF GroupOK
  <2>5. fpending \in Seq(Shards)
    BY DEF FecInv, FecTypes
  <2> QED
    BY <2>2, <2>4, <2>5, SeqElems DEF Given, r
<1> QED
  BY <1>1, <1>2, <1>3

-----------------------------------------------------------------------------
(* L3Session. *)

(* The inductive invariant, in the parts the actions disturb: the slots,    *)
(* the round in progress, the listening end's memory, and the path, on      *)
(* which an answer carries keys that were derived.                          *)
SlotsOK ==
  /\ current \in [Ends -> SessionType]
  /\ pending \in [Ends -> SessionType]
  /\ previous \in [Ends -> SessionType]
  /\ prevAge \in [Ends -> 0 .. (previousGrace + 1)]
  /\ reported \in [Ends -> BOOLEAN]

DialOK ==
  /\ attempt \in [id : Ids, sends : 1 .. handshakeAttempts] \cup {Idle}
  /\ replies \in Seq([id : Ids, key : Keys]) /\ Len(replies) <= ReplyBuffer

ListenOK ==
  /\ lastReply \in [id : Ids, key : Keys] \cup {NoReply}
  /\ peer \in Addrs \cup {Nobody}

WorldOK == address \in Addrs /\ sameEncap \in BOOLEAN /\ faults \in 0 .. MaxFaults

Datagram(m) ==
  /\ m.kind \in {"init", "resp", "data"} /\ m.to \in Ends
  /\ m.id \in Ids /\ m.key \in Keys \cup {0} /\ m.addr \in Addrs
  /\ m.kind = "resp" => m.key \in Keys

NetOK == \A m \in net : Datagram(m)

(* Without a common encapsulation no end has a session to seal under.       *)
NothingInstalled ==
  ~sameEncap => \A e \in Ends : current[e] = NoSession /\ pending[e] = NoSession

IInv ==
  /\ SlotsOK /\ DialOK /\ ListenOK /\ WorldOK /\ NetOK
  /\ ReportedIffLive /\ NothingInstalled

USE IdsAssumption, TimesAssumption, CountsAssumption

-----------------------------------------------------------------------------
(* The parts the actions are made of. *)

(* A name that is fresh is one of the names.                                *)
LEMMA FreshIn == ASSUME NEW S, S # {} PROVE Fresh(S) \in S
  BY DEF Fresh

(* A slot that holds a session holds one of the ids.                        *)
LEMMA LiveType ==
  ASSUME NEW s \in SessionType
  PROVE  /\ Live(s) <=> s.id \in Ids
         /\ ~Live(s) <=> s = NoSession
         /\ Live(s) => s.key \in Keys
  BY DEF SessionType, Live, NoSession

(* A session made from an id and a key is one, and it is live.              *)
LEMMA MadeLive ==
  ASSUME NEW i \in Ids, NEW k \in Keys
  PROVE  Session(i, k) \in SessionType /\ Live(Session(i, k))
  BY DEF Session, SessionType, Live

(* Growing older changes neither the type nor whether a slot is in use.     *)
LEMMA OlderType ==
  ASSUME NEW s \in SessionType
  PROVE  /\ Older(s) \in SessionType
         /\ Live(Older(s)) <=> Live(s)
         /\ s = NoSession => Older(s) = NoSession
  BY DEF Older, SessionType, Live, NoSession

(* installDialed and promote put a live session where they are asked to and *)
(* publish the peer, and leave the other end alone.                         *)
LEMMA InstallKeeps ==
  ASSUME SlotsOK, ReportedIffLive, NEW e \in Ends, NEW s \in SessionType, Live(s), Install(e, s)
  PROVE  SlotsOK' /\ ReportedIffLive'
<1>1. NoSession \in SessionType
  BY DEF SessionType
<1>2. SlotsOK'
  BY <1>1 DEF Install, SlotsOK
<1>3. ASSUME NEW f \in Ends
      PROVE  reported'[f] <=> Live(current'[f]) \/ Live(pending'[f])
  <2>1. CASE f = e
    <3>1. reported'[f] /\ current'[f] = s
      BY <2>1 DEF Install, SlotsOK
    <3> QED
      BY <3>1
  <2>2. CASE f # e
    <3>1. reported'[f] = reported[f] /\ current'[f] = current[f] /\ pending'[f] = pending[f]
      BY <2>2 DEF Install, SlotsOK
    <3> QED
      BY <3>1 DEF ReportedIffLive
  <2> QED
    BY <2>1, <2>2
<1> QED
  BY <1>2, <1>3 DEF ReportedIffLive

(* The buffer of answers with its first one taken.                          *)
LEMMA TailKeeps ==
  ASSUME NEW S, NEW s \in Seq(S), s # <<>>, Len(s) <= ReplyBuffer
  PROVE  Head(s) \in S /\ Tail(s) \in Seq(S) /\ Len(Tail(s)) <= ReplyBuffer
  OBVIOUS

(* The next turn of negotiate's loop keeps the round and the path.          *)
LEMMA NextSendKeeps ==
  ASSUME DialOK, NetOK, WorldOK, attempt # Idle, NextSend
  PROVE  /\ attempt' \in [id : Ids, sends : 1 .. handshakeAttempts] \cup {Idle}
         /\ NetOK'
<1>1. attempt \in [id : Ids, sends : 1 .. handshakeAttempts]
  BY DEF DialOK
<1>2. CASE attempt.sends < handshakeAttempts
  <2>1. /\ attempt' = [attempt EXCEPT !.sends = @ + 1]
        /\ net' = net \cup {InitMsg(attempt.id, address)}
    BY <1>2 DEF NextSend
  <2>2. Datagram(InitMsg(attempt.id, address))
    BY <1>1 DEF Datagram, InitMsg, Ends, WorldOK
  <2>3. NetOK'
    BY <2>1, <2>2 DEF NetOK
  <2>4. attempt' \in [id : Ids, sends : 1 .. handshakeAttempts]
    BY <1>1, <1>2, <2>1
  <2> QED
    BY <2>3, <2>4
<1>3. CASE ~(attempt.sends < handshakeAttempts)
  BY <1>3 DEF NextSend, NetOK
<1> QED
  BY <1>2, <1>3

-----------------------------------------------------------------------------
(* Every action keeps the invariant. *)

(* What an action that leaves the sessions alone does not disturb.          *)
LEMMA SessionsUntouched ==
  ASSUME IInv, UNCHANGED <<sessions, sameEncap>>
  PROVE  SlotsOK' /\ ReportedIffLive' /\ NothingInstalled'
  BY DEF IInv, SlotsOK, sessions, ReportedIffLive, NothingInstalled

(* handshakeLoop begins a round.                                            *)
LEMMA BeginHandshakeKeeps == ASSUME IInv, BeginHandshake PROVE IInv'
<1>1. PICK i \in Ids : /\ attempt' = [id |-> i, sends |-> 1]
                       /\ net' = net \cup {InitMsg(i, address)}
  BY FreshIn DEF BeginHandshake, FreshIds
<1>2. DialOK'
  BY <1>1 DEF BeginHandshake, DialOK
<1>3. ListenOK' /\ WorldOK'
  BY DEF BeginHandshake, IInv, ListenOK, WorldOK
<1>4. Datagram(InitMsg(i, address))
  BY DEF Datagram, InitMsg, Ends, IInv, WorldOK
<1>5. NetOK'
  BY <1>1, <1>4 DEF NetOK, IInv
<1>6. UNCHANGED <<sessions, sameEncap>>
  BY DEF BeginHandshake
<1> QED
  BY <1>2, <1>3, <1>5, <1>6, SessionsUntouched DEF IInv

(* negotiate times out.                                                     *)
LEMMA HandshakeTimeoutKeeps == ASSUME IInv, HandshakeTimeout PROVE IInv'
<1>1. DialOK' /\ NetOK'
  BY NextSendKeeps DEF HandshakeTimeout, IInv, DialOK
<1>2. ListenOK' /\ WorldOK'
  BY DEF HandshakeTimeout, IInv, ListenOK, WorldOK
<1>3. UNCHANGED <<sessions, sameEncap>>
  BY DEF HandshakeTimeout
<1> QED
  BY <1>1, <1>2, <1>3, SessionsUntouched DEF IInv

(* negotiate takes an answer: what it installs is live, and only ends that  *)
(* agree on the encapsulation install anything.                             *)
LEMMA TakeReplyKeeps == ASSUME IInv, TakeReply PROVE IInv'
<1>1. /\ Head(replies) \in [id : Ids, key : Keys]
      /\ replies' \in Seq([id : Ids, key : Keys]) /\ Len(replies') <= ReplyBuffer
  <2>1. replies # <<>> /\ replies' = Tail(replies)
    BY DEF TakeReply
  <2>2. replies \in Seq([id : Ids, key : Keys]) /\ Len(replies) <= ReplyBuffer
    BY DEF IInv, DialOK
  <2> QED
    BY <2>1, <2>2, TailKeeps
<1>2. ListenOK' /\ WorldOK'
  BY DEF TakeReply, IInv, ListenOK, WorldOK
<1>3. UNCHANGED sameEncap
  BY DEF TakeReply
<1>4. CASE NextSend /\ UNCHANGED sessions
  <2>1. DialOK' /\ NetOK'
    BY <1>1, <1>4, NextSendKeeps DEF TakeReply, IInv, DialOK
  <2> QED
    BY <1>2, <1>3, <1>4, <2>1, SessionsUntouched DEF IInv
<1>5. CASE attempt' = Idle /\ UNCHANGED <<sessions, net>>
  <2>1. DialOK' /\ NetOK'
    BY <1>1, <1>5 DEF IInv, DialOK, NetOK
  <2> QED
    BY <1>2, <1>3, <1>5, <2>1, SessionsUntouched DEF IInv
<1>6. CASE /\ sameEncap /\ attempt' = Idle /\ UNCHANGED net
           /\ Install("dial", Session(attempt.id, Head(replies).key))
  <2>1. attempt.id \in Ids /\ Head(replies).key \in Keys
    BY <1>1 DEF TakeReply, IInv, DialOK
  <2>2. SlotsOK' /\ ReportedIffLive'
    BY <1>6, <2>1, MadeLive, InstallKeeps DEF IInv, Ends
  <2>3. DialOK' /\ NetOK'
    BY <1>1, <1>6 DEF IInv, DialOK, NetOK
  <2>4. NothingInstalled'
    BY <1>3, <1>6 DEF NothingInstalled
  <2> QED
    BY <1>2, <2>2, <2>3, <2>4 DEF IInv
<1> QED
  BY <1>4, <1>5, <1>6 DEF TakeReply

(* The generation ends under a round.                                       *)
LEMMA EndGenerationKeeps == ASSUME IInv, EndGeneration PROVE IInv'
<1>1. DialOK' /\ NetOK' /\ ListenOK' /\ WorldOK'
  BY DEF EndGeneration, IInv, DialOK, NetOK, ListenOK, WorldOK
<1>2. UNCHANGED <<sessions, sameEncap>>
  BY DEF EndGeneration
<1> QED
  BY <1>1, <1>2, SessionsUntouched DEF IInv

(* handleResp buffers an answer.                                            *)
LEMMA HandleRespKeeps == ASSUME IInv, NEW m \in net, handleResp(m) PROVE IInv'
<1>1. [id |-> m.id, key |-> m.key] \in [id : Ids, key : Keys]
  BY DEF handleResp, IInv, NetOK, Datagram
<1>2. DialOK'
  BY <1>1 DEF handleResp, IInv, DialOK
<1>3. NetOK' /\ ListenOK' /\ WorldOK'
  BY DEF handleResp, IInv, NetOK, ListenOK, WorldOK
<1>4. UNCHANGED <<sessions, sameEncap>>
  BY DEF handleResp
<1> QED
  BY <1>2, <1>3, <1>4, SessionsUntouched DEF IInv

(* handleInit: a repeat is answered from memory; a new message is answered  *)
(* with derived keys, which become a session only where the encapsulations  *)
(* agree.                                                                   *)
LEMMA HandleInitKeeps == ASSUME IInv, NEW m \in net, handleInit(m) PROVE IInv'
<1>1. m.id \in Ids /\ m.addr \in Addrs
  BY DEF IInv, NetOK, Datagram
<1>2. DialOK' /\ WorldOK' /\ UNCHANGED sameEncap
  BY DEF handleInit, IInv, DialOK, WorldOK, dialing
<1>3. ASSUME NEW k \in Keys, net' = net \cup {RespMsg(m.id, k, m.addr)}
      PROVE  NetOK'
  <2>1. Datagram(RespMsg(m.id, k, m.addr))
    BY <1>1 DEF Datagram, RespMsg, Ends
  <2> QED
    BY <1>3, <2>1 DEF IInv, NetOK
<1>4. CASE /\ m.id = lastReply.id
           /\ net' = net \cup {RespMsg(m.id, lastReply.key, m.addr)}
           /\ UNCHANGED <<sessions, lastReply, peer>>
  <2>1. lastReply.key \in Keys
    BY <1>1, <1>4 DEF IInv, ListenOK, NoReply
  <2>2. NetOK' /\ ListenOK'
    BY <1>3, <1>4, <2>1 DEF IInv, ListenOK
  <2> QED
    BY <1>2, <1>4, <2>2, SessionsUntouched DEF IInv
<1>5. CASE m.id # lastReply.id
  <2>1. PICK k \in Keys :
          /\ net' = net \cup {RespMsg(m.id, k, m.addr)}
          /\ \/ /\ ~sameEncap
                /\ UNCHANGED <<sessions, lastReply, peer>>
             \/ /\ sameEncap
                /\ pending' = [pending EXCEPT !["listen"] = Session(m.id, k)]
                /\ lastReply' = [id |-> m.id, key |-> k]
                /\ peer' = IF Live(current["listen"]) THEN peer ELSE m.addr
                /\ reported' = [reported EXCEPT !["listen"] = TRUE]
                /\ UNCHANGED <<current, previous, prevAge>>
    BY <1>5, FreshIn DEF handleInit, FreshKeys
  <2>2. NetOK'
    BY <1>3, <2>1
  <2>3. CASE ~sameEncap
    <3>1. ListenOK' /\ UNCHANGED sessions
      BY <2>1, <2>3 DEF IInv, ListenOK
    <3> QED
      BY <1>2, <2>2, <3>1, SessionsUntouched DEF IInv
  <2>4. CASE sameEncap
    <3>1. Session(m.id, k) \in SessionType /\ Live(Session(m.id, k))
      BY <1>1, MadeLive
    <3>2. SlotsOK'
      BY <2>1, <2>4, <3>1 DEF IInv, SlotsOK
    <3>3. ASSUME NEW e \in Ends
          PROVE  reported'[e] <=> Live(current'[e]) \/ Live(pending'[e])
      <4>1. CASE e = "listen"
        <5>1. reported'[e] /\ pending'[e] = Session(m.id, k)
          BY <2>1, <2>4, <4>1 DEF IInv, SlotsOK
        <5> QED
          BY <3>1, <5>1
      <4>2. CASE e # "listen"
        <5>1. /\ reported'[e] = reported[e] /\ current'[e] = current[e]
              /\ pending'[e] = pending[e]
          BY <2>1, <2>4, <4>2 DEF IInv, SlotsOK
        <5> QED
          BY <5>1 DEF IInv, ReportedIffLive
      <4> QED
        BY <4>1, <4>2
    <3>4. ReportedIffLive'
      BY <3>3 DEF ReportedIffLive
    <3>5. ListenOK'
      BY <1>1, <2>1, <2>4 DEF IInv, ListenOK
    <3>6. NothingInstalled'
      BY <1>2, <2>4 DEF NothingInstalled
    <3> QED
      BY <1>2, <2>2, <3>2, <3>4, <3>5, <3>6 DEF IInv
  <2> QED
    BY <2>3, <2>4
<1> QED
  BY <1>4, <1>5 DEF handleInit

(* A datagram is sealed under a session that is there, to a peer that is    *)
(* known.                                                                   *)
LEMMA SendDataKeeps == ASSUME IInv, NEW e \in Ends, SendData(e) PROVE IInv'
<1>1. sendSession(e) \in SessionType
  BY DEF sendSession, IInv, SlotsOK
<1>2. sendSession(e).id \in Ids /\ sendSession(e).key \in Keys
  BY <1>1, LiveType DEF SendData
<1>3. ASSUME NEW a \in Addrs, NEW f \in Ends
      PROVE  Datagram(DataMsg(f, sendSession(e).id, sendSession(e).key, a))
  BY <1>2 DEF Datagram, DataMsg
<1>4. NetOK'
  <2>1. CASE e = "dial"
    <3>1. net' = net \cup {DataMsg("listen", sendSession(e).id, sendSession(e).key, address)}
      BY <2>1 DEF SendData
    <3> QED
      BY <1>3, <3>1 DEF IInv, NetOK, WorldOK, Ends
  <2>2. CASE e # "dial"
    <3>1. /\ net' = net \cup {DataMsg("dial", sendSession(e).id, sendSession(e).key, peer)}
          /\ peer \in Addrs
      BY <2>2 DEF SendData, IInv, ListenOK, Ends
    <3> QED
      BY <1>3, <3>1 DEF IInv, NetOK, Ends
  <2> QED
    BY <2>1, <2>2
<1>5. DialOK' /\ ListenOK' /\ WorldOK'
  BY DEF SendData, IInv, DialOK, ListenOK, WorldOK, dialing
<1>6. UNCHANGED <<sessions, sameEncap>>
  BY DEF SendData
<1> QED
  BY <1>4, <1>5, <1>6, SessionsUntouched DEF IInv

(* handleData: a datagram that opens promotes only a session that is there. *)
LEMMA HandleDataKeeps == ASSUME IInv, NEW m \in net, handleData(m) PROVE IInv'
<1>1. Datagram(m)
  BY DEF IInv, NetOK
<1>2. Datagram(Ack(m))
  BY <1>1 DEF Datagram, Ack, DataMsg, Ends, IInv, WorldOK
<1>3. NetOK'
  BY <1>2 DEF handleData, IInv, NetOK
<1>4. DialOK' /\ WorldOK' /\ ListenOK' /\ UNCHANGED sameEncap
  BY <1>1 DEF handleData, IInv, DialOK, WorldOK, ListenOK, dialing, Datagram
<1>5. CASE UNCHANGED sessions
  BY <1>3, <1>4, <1>5, SessionsUntouched DEF IInv
<1>6. CASE pending[m.to].id = m.id /\ Install(m.to, pending[m.to])
  <2>1. m.to \in Ends /\ pending[m.to] \in SessionType /\ m.id \in Ids
    BY <1>1 DEF Datagram, IInv, SlotsOK
  <2>2. Live(pending[m.to])
    BY <1>6, <2>1, LiveType
  <2>3. SlotsOK' /\ ReportedIffLive'
    BY <1>6, <2>1, <2>2, InstallKeeps DEF IInv
  <2>4. sameEncap
    BY <2>1, <2>2, LiveType DEF IInv, NothingInstalled
  <2>5. NothingInstalled'
    BY <1>4, <2>4 DEF NothingInstalled
  <2> QED
    BY <1>3, <1>4, <2>3, <2>5 DEF IInv
<1> QED
  BY <1>5, <1>6 DEF handleData

(* retireSessions: with the last session that could carry a packet goes the *)
(* reported peer, and not before.                                           *)
LEMMA RetireKeeps == ASSUME IInv, NEW e \in Ends, retireSessions(e) PROVE IInv'
<1>1. NoSession \in SessionType /\ ~Live(NoSession)
  BY DEF SessionType, Live, NoSession
<1>2. /\ previous' = [previous EXCEPT ![e] = IF PreviousOver(e) THEN NoSession ELSE @]
      /\ pending'  = [pending EXCEPT ![e] = IF Expired(@) THEN NoSession ELSE @]
      /\ current'  = [current EXCEPT ![e] = IF Expired(@) THEN NoSession ELSE @]
      /\ reported' = [reported EXCEPT ![e] = @ /\ (Live(current'[e]) \/ Live(pending'[e]))]
      /\ prevAge' = prevAge
  BY DEF retireSessions
<1>3. SlotsOK'
  BY <1>1, <1>2 DEF IInv, SlotsOK
<1>4. ASSUME NEW f \in Ends
      PROVE  /\ reported'[f] <=> Live(current'[f]) \/ Live(pending'[f])
             /\ current[f] = NoSession => current'[f] = NoSession
             /\ pending[f] = NoSession => pending'[f] = NoSession
  <2>1. CASE f # e
    <3>1. /\ reported'[f] = reported[f] /\ current'[f] = current[f]
          /\ pending'[f] = pending[f]
      BY <1>2, <2>1 DEF IInv, SlotsOK
    <3> QED
      BY <3>1 DEF IInv, ReportedIffLive
  <2>2. CASE f = e
    <3>1. /\ reported'[e] = (reported[e] /\ (Live(current'[e]) \/ Live(pending'[e])))
          /\ current'[e] = IF Expired(current[e]) THEN NoSession ELSE current[e]
          /\ pending'[e] = IF Expired(pending[e]) THEN NoSession ELSE pending[e]
      BY <1>2 DEF IInv, SlotsOK
    <3>2. Live(current'[e]) \/ Live(pending'[e]) => Live(current[e]) \/ Live(pending[e])
      BY <1>1, <3>1
    <3>3. reported[e] <=> Live(current[e]) \/ Live(pending[e])
      BY DEF IInv, ReportedIffLive
    <3> QED
      BY <2>2, <3>1, <3>2, <3>3
  <2> QED
    BY <2>1, <2>2
<1>5. ReportedIffLive'
  BY <1>4 DEF ReportedIffLive
<1>6. /\ DialOK' /\ ListenOK' /\ WorldOK' /\ NetOK' /\ UNCHANGED sameEncap
  BY DEF retireSessions, IInv, DialOK, ListenOK, WorldOK, NetOK, dialing
<1>7. NothingInstalled'
  BY <1>4, <1>6 DEF IInv, NothingInstalled
<1> QED
  BY <1>3, <1>5, <1>6, <1>7 DEF IInv

(* A tick of the clock.                                                     *)
LEMMA TickKeeps == ASSUME IInv, Tick PROVE IInv'
<1>1. /\ current'  = [e \in Ends |-> Older(current[e])]
      /\ pending'  = [e \in Ends |-> Older(pending[e])]
      /\ previous' = [e \in Ends |-> Older(previous[e])]
      /\ prevAge'  = [e \in Ends |-> IF prevAge[e] <= previousGrace /\ Live(previous[e])
                                       THEN prevAge[e] + 1 ELSE 0]
      /\ reported' = reported
  BY DEF Tick
<1>2. /\ current' \in [Ends -> SessionType] /\ pending' \in [Ends -> SessionType]
      /\ previous' \in [Ends -> SessionType]
  BY <1>1, OlderType DEF IInv, SlotsOK
<1>3. prevAge' \in [Ends -> 0 .. (previousGrace + 1)]
  BY <1>1 DEF IInv, SlotsOK
<1>4. SlotsOK'
  BY <1>1, <1>2, <1>3 DEF IInv, SlotsOK
<1>5. ASSUME NEW e \in Ends
      PROVE  /\ Live(current'[e]) <=> Live(current[e])
             /\ Live(pending'[e]) <=> Live(pending[e])
             /\ current[e] = NoSession => current'[e] = NoSession
             /\ pending[e] = NoSession => pending'[e] = NoSession
  BY <1>1, OlderType DEF IInv, SlotsOK
<1>6. ReportedIffLive'
  BY <1>1, <1>5 DEF IInv, ReportedIffLive
<1>7. /\ DialOK' /\ ListenOK' /\ WorldOK' /\ NetOK' /\ UNCHANGED sameEncap
  BY DEF Tick, IInv, DialOK, ListenOK, WorldOK, NetOK, dialing
<1>8. NothingInstalled'
  BY <1>5, <1>7 DEF IInv, NothingInstalled
<1> QED
  BY <1>4, <1>6, <1>7, <1>8 DEF IInv

(* An end's process is restarted with nothing in it.                        *)
LEMMA RestartKeeps == ASSUME IInv, NEW e \in Ends, RestartProcess(e) PROVE IInv'
<1>1. NoSession \in SessionType /\ ~Live(NoSession)
  BY DEF SessionType, Live, NoSession
<1>2. SlotsOK'
  BY <1>1 DEF RestartProcess, IInv, SlotsOK
<1>3. ASSUME NEW f \in Ends
      PROVE  /\ reported'[f] <=> Live(current'[f]) \/ Live(pending'[f])
             /\ current[f] = NoSession => current'[f] = NoSession
             /\ pending[f] = NoSession => pending'[f] = NoSession
  <2>1. CASE f = e
    <3>1. ~reported'[f] /\ current'[f] = NoSession /\ pending'[f] = NoSession
      BY <2>1 DEF RestartProcess, IInv, SlotsOK
    <3> QED
      BY <1>1, <3>1
  <2>2. CASE f # e
    <3>1. /\ reported'[f] = reported[f] /\ current'[f] = current[f]
          /\ pending'[f] = pending[f]
      BY <2>2 DEF RestartProcess, IInv, SlotsOK
    <3> QED
      BY <3>1 DEF IInv, ReportedIffLive
  <2> QED
    BY <2>1, <2>2
<1>4. ReportedIffLive'
  BY <1>3 DEF ReportedIffLive
<1>5. DialOK'
  <2>1. CASE e = "dial"
    BY <2>1 DEF RestartProcess, IInv, DialOK
  <2>2. CASE e # "dial"
    BY <2>2 DEF RestartProcess, IInv, DialOK, dialing
  <2> QED
    BY <2>1, <2>2
<1>6. ListenOK'
  BY DEF RestartProcess, IInv, ListenOK
<1>7. WorldOK' /\ NetOK' /\ UNCHANGED sameEncap
  BY DEF RestartProcess, IInv, WorldOK, NetOK
<1>8. NothingInstalled'
  BY <1>3, <1>7 DEF IInv, NothingInstalled
<1> QED
  BY <1>2, <1>4, <1>5, <1>6, <1>7, <1>8 DEF IInv

(* The dialling end moves.                                                  *)
LEMMA MoveKeeps == ASSUME IInv, Move PROVE IInv'
<1>1. DialOK' /\ ListenOK' /\ WorldOK' /\ NetOK'
  BY DEF Move, IInv, DialOK, ListenOK, WorldOK, NetOK, dialing
<1>2. UNCHANGED <<sessions, sameEncap>>
  BY DEF Move
<1> QED
  BY <1>1, <1>2, SessionsUntouched DEF IInv

-----------------------------------------------------------------------------

(* The invariant holds of every reachable state.                            *)
LEMMA SessionStarts == Init => IInv
<1> SUFFICES ASSUME Init PROVE IInv
  OBVIOUS
<1>1. NoSession \in SessionType /\ ~Live(NoSession)
  BY DEF SessionType, Live, NoSession
<1>2. SlotsOK /\ ReportedIffLive /\ NothingInstalled
  BY <1>1 DEF Init, SlotsOK, ReportedIffLive, NothingInstalled
<1>3. DialOK /\ ListenOK /\ WorldOK /\ NetOK
  BY DEF Init, DialOK, ListenOK, WorldOK, NetOK
<1> QED
  BY <1>2, <1>3 DEF IInv

LEMMA SessionStepKeeps == IInv /\ [Next]_vars => IInv'
<1> SUFFICES ASSUME IInv, [Next]_vars PROVE IInv'
  OBVIOUS
<1>1. CASE UNCHANGED vars
  BY <1>1, SessionsUntouched
     DEF vars, dialing, IInv, DialOK, ListenOK, WorldOK, NetOK
<1> QED
  BY <1>1, BeginHandshakeKeeps, HandshakeTimeoutKeeps, TakeReplyKeeps, EndGenerationKeeps,
     HandleInitKeeps, HandleRespKeeps, HandleDataKeeps, SendDataKeeps, RetireKeeps,
     RestartKeeps, TickKeeps, MoveKeeps
     DEF Next

LEMMA Inductive == Spec => []IInv
  BY SessionStarts, SessionStepKeeps, PTL DEF Spec

(* tunnel.go: every slot, timer and buffer holds what its field can hold,   *)
(* in particular the answers waiting stay within the buffer.                *)
THEOREM SessionTypeCorrect == Spec => []TypeOK
<1>1. IInv => TypeOK
  BY DEF IInv, TypeOK, SlotsOK, DialOK, ListenOK, WorldOK, NetOK, Datagram
<1> QED
  BY <1>1, Inductive, PTL

(* tunnel.go, promote, retireSessions, handleInit: the panel shows a peer   *)
(* exactly while this end holds a session that could carry a packet.        *)
THEOREM ReportedIsHonest == Spec => []ReportedIffLive
<1>1. IInv => ReportedIffLive
  BY DEF IInv
<1> QED
  BY <1>1, Inductive, PTL

(* session.go, errEncapMismatch: ends with different encapsulations never   *)
(* come up, however handshake messages are lost, repeated and reordered.    *)
THEOREM MismatchStaysDown == Spec => []MismatchNeverUp
<1>1. IInv => MismatchNeverUp
  <2> SUFFICES ASSUME IInv, ~sameEncap, NEW e \in Ends
               PROVE  ~Live(sendSession(e)) /\ ~reported[e]
    BY DEF MismatchNeverUp
  <2>1. current[e] = NoSession /\ pending[e] = NoSession /\ ~Live(NoSession)
    BY DEF IInv, NothingInstalled, Live, NoSession
  <2>2. ~Live(sendSession(e))
    BY <2>1 DEF sendSession
  <2>3. ~reported[e]
    BY <2>1 DEF IInv, ReportedIffLive
  <2> QED
    BY <2>2, <2>3
<1> QED
  BY <1>1, Inductive, PTL

-----------------------------------------------------------------------------
(* Confirmed keys. *)

(* Data on its way to the listening end was sealed by the dialling one: it  *)
(* is as good as confirmed.                                                 *)
DataToListen == {m \in net : m.kind = "data" /\ m.to = "listen"}
Confirmed    == {current["listen"], previous["listen"]} \cup DataToListen
Dialled      == {current["dial"], previous["dial"]}

(* What makes ConfirmedKeysAgree inductive: the dialling end installs an id *)
(* once, so an id it still looks for is neither its own nor confirmed, and  *)
(* all it holds or sealed under one id has one key.                         *)
KeysOK ==
  /\ pending["dial"] = NoSession
  /\ \A s \in Confirmed \cup Dialled, t \in Dialled : Live(s) /\ s.id = t.id => s.key = t.key
  /\ attempt # Idle => \A s \in Confirmed \cup Dialled : s.id # attempt.id

(* A step that makes no new name: whatever is confirmed after it was        *)
(* confirmed or dialled before, and whatever is dialled was.                *)
LEMMA KeysKept ==
  ASSUME KeysOK, pending'["dial"] = NoSession,
         \A s \in Confirmed' : ~Live(s) \/ \E o \in Confirmed \cup Dialled : SameKeys(s, o),
         \A t \in Dialled' : ~Live(t) \/ \E o \in Dialled : SameKeys(t, o),
         attempt' = Idle \/ (attempt # Idle /\ attempt'.id = attempt.id /\ attempt.id # 0)
  PROVE  KeysOK'
  <1>1. ASSUME NEW s \in Confirmed' \cup Dialled', NEW t \in Dialled', Live(s), s.id = t.id
        PROVE  s.key = t.key
    <2>1. PICK o \in Confirmed \cup Dialled : SameKeys(s, o)
      BY <1>1
    <2>2. PICK q \in Dialled : SameKeys(t, q)
      BY <1>1 DEF Live
    <2> QED
      BY <1>1, <2>1, <2>2 DEF KeysOK, SameKeys, Live
  <1>2. ASSUME attempt' # Idle, NEW s \in Confirmed' \cup Dialled'
        PROVE  s.id # attempt'.id
    <2>1. CASE ~Live(s)
      BY <1>2, <2>1 DEF Live
    <2>2. CASE Live(s)
      <3>1. PICK o \in Confirmed \cup Dialled : SameKeys(s, o)
        BY <2>2, <1>2
      <3> QED
        BY <1>2, <3>1 DEF KeysOK, SameKeys
    <2> QED
      BY <2>1, <2>2
  <1> QED
    BY <1>1, <1>2 DEF KeysOK

(* The attempt of negotiate keeps its id as long as it lasts.               *)
LEMMA NextSendAttempt ==
  ASSUME DialOK, attempt # Idle, NextSend
  PROVE  attempt' = Idle \/ (attempt'.id = attempt.id /\ attempt.id # 0)
  <1>1. attempt \in [id : Ids, sends : 1 .. handshakeAttempts]
    BY DEF DialOK
  <1> QED
    BY <1>1 DEF NextSend

LEMMA AttemptLive == ASSUME DialOK, attempt # Idle PROVE attempt.id # 0
  BY DEF DialOK

(* Sessions and data that stay as they are.                                 *)
LEMMA KeysUntouched ==
  ASSUME IInv, KeysOK, UNCHANGED sessions, DataToListen' \subseteq DataToListen,
         attempt' = Idle \/ (attempt # Idle /\ attempt'.id = attempt.id)
  PROVE  KeysOK'
  <1>1. Confirmed' \subseteq Confirmed /\ Dialled' = Dialled
    BY DEF Confirmed, Dialled, sessions
  <1>2. pending'["dial"] = NoSession
    BY DEF KeysOK, sessions
  <1>3. attempt # Idle => attempt.id # 0
    BY AttemptLive DEF IInv
  <1> QED
    BY <1>1, <1>2, <1>3, KeysKept DEF SameKeys

LEMMA BeginHandshakeKeys == ASSUME IInv, KeysOK, BeginHandshake PROVE KeysOK'
  <1>1. PICK i \in FreshIds : /\ attempt' = [id |-> i, sends |-> 1]
                              /\ net' = net \cup {InitMsg(i, address)}
    BY FreshIn DEF BeginHandshake
  <1>2. DataToListen' = DataToListen
    BY <1>1 DEF DataToListen, InitMsg
  <1>3. Confirmed' = Confirmed /\ Dialled' = Dialled /\ pending' = pending
    BY <1>2 DEF Confirmed, Dialled, BeginHandshake, sessions
  <1>4. \A s \in Confirmed \cup Dialled : s \in Known
    BY DEF Confirmed, Dialled, DataToListen, Known, Held, Ends
  <1>5. \A s \in Known : s.id # i
    BY DEF FreshIds
  <1>6. attempt'.id = i
    BY <1>1
  <1> QED
    BY <1>3, <1>4, <1>5, <1>6 DEF KeysOK

(* The path as negotiate and the listening end add to it: no data.          *)
LEMMA NextSendData ==
  ASSUME NextSend
  PROVE  DataToListen' \subseteq DataToListen
  BY DEF NextSend, DataToListen, InitMsg

(* installDialed: the id it installs is new to both ends.                   *)
LEMMA TakeReplyKeys == ASSUME IInv, KeysOK, TakeReply PROVE KeysOK'
  <1>1. CASE NextSend /\ UNCHANGED sessions
    <2>1. attempt' = Idle \/ (attempt # Idle /\ attempt'.id = attempt.id)
      BY <1>1, NextSendAttempt DEF IInv, TakeReply
    <2> QED
      BY <1>1, <2>1, NextSendData, KeysUntouched
  <1>2. CASE attempt' = Idle /\ UNCHANGED <<sessions, net>>
    <2>1. DataToListen' = DataToListen
      BY <1>2 DEF DataToListen
    <2> QED
      BY <1>2, <2>1, KeysUntouched
  <1>3. CASE /\ attempt' = Idle /\ UNCHANGED net
             /\ Install("dial", Session(attempt.id, Head(replies).key))
    <2> DEFINE n == Session(attempt.id, Head(replies).key)
    <2>1. n.id = attempt.id /\ attempt.id # 0 /\ attempt # Idle
      BY AttemptLive DEF Session, TakeReply, IInv
    <2>2. /\ current'["dial"] = n /\ previous'["dial"] = current["dial"] /\ pending'["dial"] = NoSession
          /\ current'["listen"] = current["listen"] /\ previous'["listen"] = previous["listen"]
      BY <1>3 DEF Install, IInv, SlotsOK, Ends
    <2>3. DataToListen' = DataToListen
      BY <1>3 DEF DataToListen
    <2> HIDE DEF n
    <2>4. Confirmed' = Confirmed /\ Dialled' = {n, current["dial"]} /\ current["dial"] \in Dialled
      BY <2>2, <2>3 DEF Confirmed, Dialled
    <2>5. \A s \in Confirmed \cup Dialled : s.id # n.id
      BY <2>1 DEF KeysOK
    <2>6. ASSUME NEW s \in Confirmed' \cup Dialled', NEW t \in Dialled', Live(s), s.id = t.id
          PROVE  s.key = t.key
      BY <2>4, <2>5, <2>6 DEF KeysOK
    <2> QED
      BY <1>3, <2>2, <2>6 DEF KeysOK
  <1> QED
    BY <1>1, <1>2, <1>3 DEF TakeReply

LEMMA HandleInitKeys == ASSUME IInv, KeysOK, NEW m \in net, handleInit(m) PROVE KeysOK'
  <1>1. PICK k : net' = net \cup {RespMsg(m.id, k, m.addr)}
    BY DEF handleInit
  <1>2. DataToListen' = DataToListen
    BY <1>1 DEF DataToListen, RespMsg
  <1>3. UNCHANGED <<current, previous, attempt>> /\ pending'["dial"] = pending["dial"]
    <2>1. CASE UNCHANGED sessions
      BY <2>1 DEF sessions, handleInit, dialing
    <2>2. CASE /\ pending' = [pending EXCEPT !["listen"] = Session(m.id, Fresh(FreshKeys(m.id)))]
               /\ UNCHANGED <<current, previous, prevAge>>
      BY <2>2 DEF handleInit, dialing, IInv, SlotsOK, Ends
    <2> QED
      BY <2>1, <2>2 DEF handleInit
  <1>4. Confirmed' = Confirmed /\ Dialled' = Dialled
    BY <1>2, <1>3 DEF Confirmed, Dialled
  <1> QED
    BY <1>3, <1>4 DEF KeysOK

(* The dialling end seals under what it dialled.                            *)
LEMMA SendDataKeys == ASSUME IInv, KeysOK, NEW e \in Ends, SendData(e) PROVE KeysOK'
  <1>1. UNCHANGED sessions /\ UNCHANGED attempt
    BY DEF SendData, dialing
  <1>2. Dialled' = Dialled /\ pending'["dial"] = NoSession
    BY <1>1 DEF Dialled, KeysOK, sessions
  <1>3. CASE e = "dial"
    <2> DEFINE s == sendSession("dial")
               d == DataMsg("listen", s.id, s.key, address)
    <2>1. s = current["dial"]
      BY <1>3 DEF SendData, sendSession, KeysOK, Live, NoSession
    <2>2. SameKeys(d, s) /\ s \in Dialled
      BY <2>1 DEF DataMsg, SameKeys, Dialled
    <2>3. net' = net \cup {d}
      BY <1>3 DEF SendData
    <2> HIDE DEF s, d
    <2>4. Confirmed' \subseteq Confirmed \cup {d}
      BY <1>1, <2>3 DEF Confirmed, DataToListen, sessions
    <2>5. \A x \in Confirmed' : \E o \in Confirmed \cup Dialled : SameKeys(x, o)
      BY <2>2, <2>4 DEF SameKeys
    <2>6. \A t \in Dialled' : \E o \in Dialled : SameKeys(t, o)
      BY <1>2 DEF SameKeys
    <2>7. attempt' = Idle \/ (attempt # Idle /\ attempt'.id = attempt.id /\ attempt.id # 0)
      BY <1>1, AttemptLive DEF IInv
    <2> QED
      BY <1>2, <2>5, <2>6, <2>7, KeysKept
  <1>4. CASE e # "dial"
    <2>1. DataToListen' \subseteq DataToListen
      BY <1>4 DEF SendData, DataToListen, DataMsg
    <2> QED
      BY <1>1, <2>1, KeysUntouched
  <1> QED
    BY <1>3, <1>4

(* A datagram that opens was sealed under one of the slots.                 *)
LEMMA OpensUnder ==
  ASSUME IInv, NEW m \in net, Opens(m)
  PROVE  \E s \in {current[m.to], pending[m.to], previous[m.to]} : SameKeys(s, m) /\ Live(s)
  <1> DEFINE s == sessionFor(m.to, m.id)
  <1>1. Live(s) /\ SameKeys(s, m)
    BY DEF Opens
  <1>2. CASE current[m.to].id = m.id
    <2>1. s = current[m.to]
      BY <1>2 DEF sessionFor
    <2> QED
      BY <1>1, <2>1
  <1>3. CASE current[m.to].id # m.id /\ pending[m.to].id = m.id
    <2>1. s = pending[m.to]
      BY <1>3 DEF sessionFor
    <2> QED
      BY <1>1, <2>1
  <1>4. CASE current[m.to].id # m.id /\ pending[m.to].id # m.id
    <2>1. s = previous[m.to] \/ s = NoSession
      BY <1>4 DEF sessionFor
    <2>2. ~Live(NoSession)
      BY DEF Live, NoSession
    <2> QED
      BY <1>1, <2>1, <2>2
  <1> QED
    BY <1>2, <1>3, <1>4

(* handleData: what promotes a session proves its keys, and an answer is    *)
(* sealed under the keys of what it answers.                                *)
LEMMA HandleDataKeys == ASSUME IInv, KeysOK, NEW m \in net, handleData(m) PROVE KeysOK'
  <1>1. m.to \in Ends /\ m.kind = "data" /\ Opens(m) /\ UNCHANGED attempt /\ m.id # 0
    BY DEF IInv, NetOK, Datagram, handleData, dialing
  <1>2. attempt' = Idle \/ (attempt # Idle /\ attempt'.id = attempt.id /\ attempt.id # 0)
    BY <1>1, AttemptLive DEF IInv
  <1>3. CASE m.to = "dial"
    <2>1. pending["dial"].id # m.id
      BY <1>1 DEF KeysOK, NoSession
    <2>2. UNCHANGED sessions
      BY <1>3, <2>1 DEF handleData
    <2>3. PICK s \in Dialled : SameKeys(Ack(m), s)
      <3>1. PICK s \in {current["dial"], pending["dial"], previous["dial"]} : SameKeys(s, m) /\ Live(s)
        BY <1>1, <1>3, OpensUnder
      <3>2. s \in Dialled
        BY <3>1 DEF Dialled, KeysOK, Live, NoSession
      <3>3. SameKeys(Ack(m), m)
        BY <1>3 DEF Ack, DataMsg, SameKeys
      <3> QED
        BY <3>1, <3>2, <3>3 DEF SameKeys
    <2>4. Confirmed' \subseteq Confirmed \cup {Ack(m)}
      BY <2>2 DEF handleData, Confirmed, DataToListen, sessions
    <2>5. \A x \in Confirmed' : \E o \in Confirmed \cup Dialled : SameKeys(x, o)
      BY <2>3, <2>4 DEF SameKeys
    <2>6. \A t \in Dialled' : \E o \in Dialled : SameKeys(t, o)
      BY <2>2 DEF Dialled, sessions, SameKeys
    <2>7. pending'["dial"] = NoSession
      BY <2>2 DEF KeysOK, sessions
    <2> QED
      BY <1>2, <2>5, <2>6, <2>7, KeysKept
  <1>4. CASE m.to = "listen"
    <2>1. DataToListen' \subseteq DataToListen /\ m \in Confirmed
      BY <1>1, <1>4 DEF handleData, DataToListen, Ack, DataMsg, Confirmed
    <2>2. CASE UNCHANGED sessions
      BY <1>1, <2>1, <2>2, KeysUntouched
    <2>3. CASE current["listen"].id # m.id /\ pending["listen"].id = m.id /\ Install("listen", pending["listen"])
      <3>1. /\ current'["listen"] = pending["listen"] /\ previous'["listen"] = current["listen"]
            /\ current'["dial"] = current["dial"] /\ previous'["dial"] = previous["dial"]
            /\ pending'["dial"] = pending["dial"]
        BY <2>3 DEF Install, IInv, SlotsOK, Ends
      <3>2. SameKeys(pending["listen"], m)
        BY <1>1, <1>4, <2>3 DEF Opens, sessionFor
      <3>3. \A x \in Confirmed' : \E o \in Confirmed \cup Dialled : SameKeys(x, o)
        BY <2>1, <3>1, <3>2 DEF Confirmed, SameKeys
      <3>4. \A t \in Dialled' : \E o \in Dialled : SameKeys(t, o)
        BY <3>1 DEF Dialled, SameKeys
      <3>5. pending'["dial"] = NoSession
        BY <3>1 DEF KeysOK
      <3> QED
        BY <1>2, <3>3, <3>4, <3>5, KeysKept
    <2> QED
      BY <1>4, <2>2, <2>3 DEF handleData
  <1> QED
    BY <1>1, <1>3, <1>4 DEF Ends

(* Slots that are emptied, grow older or stay as they are.                  *)
Fading(e) ==
  /\ current'[e] = NoSession \/ SameKeys(current'[e], current[e])
  /\ previous'[e] = NoSession \/ SameKeys(previous'[e], previous[e])

LEMMA KeysFade ==
  ASSUME IInv, KeysOK, Fading("dial"), Fading("listen"), pending'["dial"] = NoSession,
         DataToListen' \subseteq DataToListen, attempt' = Idle \/ attempt' = attempt
  PROVE  KeysOK'
  <1>1. ~Live(NoSession)
    BY DEF Live, NoSession
  <1>2. \A s \in Confirmed' : ~Live(s) \/ \E o \in Confirmed \cup Dialled : SameKeys(s, o)
    <2>1. current'["listen"] = NoSession \/ SameKeys(current'["listen"], current["listen"])
      BY DEF Fading
    <2>2. previous'["listen"] = NoSession \/ SameKeys(previous'["listen"], previous["listen"])
      BY DEF Fading
    <2>3. current["listen"] \in Confirmed /\ previous["listen"] \in Confirmed
      BY DEF Confirmed
    <2>4. \A s \in DataToListen' : s \in Confirmed /\ SameKeys(s, s)
      BY DEF Confirmed, SameKeys
    <2> QED
      BY <1>1, <2>1, <2>2, <2>3, <2>4 DEF Confirmed
  <1>3. \A t \in Dialled' : ~Live(t) \/ \E o \in Dialled : SameKeys(t, o)
    BY <1>1 DEF Dialled, Fading
  <1>4. attempt' = Idle \/ (attempt # Idle /\ attempt'.id = attempt.id /\ attempt.id # 0)
    BY AttemptLive DEF IInv
  <1> QED
    BY <1>2, <1>3, <1>4, KeysKept

LEMMA RetireKeys == ASSUME IInv, KeysOK, NEW e \in Ends, retireSessions(e) PROVE KeysOK'
  <1>1. DataToListen' = DataToListen /\ attempt' = attempt
    BY DEF retireSessions, DataToListen, dialing
  <1>2. pending'["dial"] = NoSession
    BY DEF retireSessions, KeysOK, IInv, SlotsOK, Ends
  <1>3. \A f \in Ends : /\ current'[f] \in {NoSession, current[f]}
                        /\ previous'[f] \in {NoSession, previous[f]}
    BY DEF retireSessions, IInv, SlotsOK
  <1>4. Fading("dial") /\ Fading("listen")
    BY <1>3 DEF Fading, SameKeys, Ends
  <1> QED
    BY <1>1, <1>2, <1>4, KeysFade

LEMMA TickKeys == ASSUME IInv, KeysOK, Tick PROVE KeysOK'
  <1>1. DataToListen' = {} /\ attempt' = attempt
    BY DEF Tick, DataToListen, dialing
  <1>2. \A s \in SessionType : SameKeys(Older(s), s)
    BY DEF SessionType, Older, SameKeys, Live
  <1>3. \A f \in Ends : SameKeys(current'[f], current[f]) /\ SameKeys(previous'[f], previous[f])
    BY <1>2 DEF Tick, IInv, SlotsOK
  <1>4. pending'["dial"] = NoSession
    BY OlderType DEF Tick, KeysOK, IInv, SlotsOK, Ends
  <1>5. Fading("dial") /\ Fading("listen")
    BY <1>3 DEF Fading, Ends
  <1> QED
    BY <1>1, <1>4, <1>5, KeysFade

LEMMA RestartKeys == ASSUME IInv, KeysOK, NEW e \in Ends, RestartProcess(e) PROVE KeysOK'
  <1>1. DataToListen' = DataToListen /\ (attempt' = Idle \/ attempt' = attempt)
    BY DEF RestartProcess, DataToListen, dialing
  <1>2. pending'["dial"] = NoSession
    BY DEF RestartProcess, KeysOK, IInv, SlotsOK, Ends
  <1>3. \A f \in Ends : /\ current'[f] \in {NoSession, current[f]}
                        /\ previous'[f] \in {NoSession, previous[f]}
    BY DEF RestartProcess, IInv, SlotsOK
  <1>4. Fading("dial") /\ Fading("listen")
    BY <1>3 DEF Fading, SameKeys, Ends
  <1> QED
    BY <1>1, <1>2, <1>4, KeysFade

LEMMA KeysInductive == Spec => []KeysOK
  <1>1. Init => KeysOK
    <2>1. Init => /\ Confirmed = {NoSession} /\ Dialled = {NoSession} /\ pending["dial"] = NoSession
                  /\ attempt = Idle
      BY DEF Init, Confirmed, Dialled, DataToListen, Ends
    <2> QED
      BY <2>1 DEF KeysOK
  <1>2. IInv /\ KeysOK /\ [Next]_vars => KeysOK'
    <2> SUFFICES ASSUME IInv, KeysOK, [Next]_vars PROVE KeysOK'
      OBVIOUS
    <2>1. CASE HandshakeTimeout
      <3>1. attempt' = Idle \/ (attempt # Idle /\ attempt'.id = attempt.id)
        BY <2>1, NextSendAttempt DEF IInv, HandshakeTimeout
      <3> QED
        BY <2>1, <3>1, NextSendData, KeysUntouched DEF HandshakeTimeout
    <2>2. CASE EndGeneration
      BY <2>2, KeysUntouched DEF EndGeneration, DataToListen
    <2>3. CASE Move
      BY <2>3, KeysUntouched DEF Move, DataToListen, dialing
    <2>4. CASE UNCHANGED vars
      BY <2>4, KeysUntouched DEF vars, DataToListen, dialing
    <2>5. ASSUME NEW m \in net, handleResp(m) PROVE KeysOK'
      BY <2>5, KeysUntouched DEF handleResp, DataToListen
    <2> QED
      BY <2>1, <2>2, <2>3, <2>4, <2>5, BeginHandshakeKeys, TakeReplyKeys, HandleInitKeys, HandleDataKeys,
         SendDataKeys, RetireKeys, TickKeys, RestartKeys DEF Next
  <1> QED
    BY <1>1, <1>2, Inductive, PTL DEF Spec

(* session.go, tunnel.go, promote: a session the listening end has          *)
(* confirmed has the keys the dialling end installed under that id, however *)
(* answers and repeats were lost, doubled and reordered.                    *)
THEOREM ConfirmedKeysAreShared == Spec => []ConfirmedKeysAgree
<1>1. KeysOK => ConfirmedKeysAgree
  BY DEF KeysOK, ConfirmedKeysAgree, Confirmed, Dialled
<1> QED
  BY <1>1, KeysInductive, PTL

-----------------------------------------------------------------------------
(* Where the listening end's keys and peer stay, a step diverts nothing.    *)
LEMMA StaysPut ==
  ASSUME SameKeys(current["listen"], current'["listen"]) \/ ~Live(current'["listen"]),
         peer' = peer \/ ~Live(current["listen"]) \/ ~Live(current'["listen"])
  PROVE  DivertsNothing
  BY DEF DivertsNothing

(* handleData is the step that may divert: the datagram it took in is the   *)
(* proof, of the promoted keys and of the address.                          *)
LEMMA HandleDataProves == ASSUME IInv, NEW m \in net, handleData(m) PROVE DivertsNothing
  <1>1. m.to \in Ends /\ m.kind = "data" /\ Opens(m)
    BY DEF IInv, NetOK, Datagram, handleData
  <1>2. CASE m.to = "dial"
    <2>1. current'["listen"] = current["listen"] /\ peer' = peer
      BY <1>2 DEF handleData, Install, sessions, IInv, SlotsOK, Ends
    <2> QED
      BY <2>1, StaysPut DEF SameKeys
  <1>3. CASE m.to = "listen"
    <2> DEFINE proof == {d \in net : d.kind = "data" /\ d.to = "listen" /\ Opens(d)}
    <2>1. m \in proof /\ peer' = m.addr
      BY <1>1, <1>3 DEF handleData
    <2>2. SameKeys(current["listen"], current'["listen"]) \/ SameKeys(m, current'["listen"])
      <3>1. CASE UNCHANGED sessions
        BY <3>1 DEF sessions, SameKeys
      <3>2. CASE current["listen"].id # m.id /\ pending["listen"].id = m.id /\ Install("listen", pending["listen"])
        <4>1. current'["listen"] = pending["listen"]
          BY <3>2 DEF Install, IInv, SlotsOK, Ends
        <4>2. SameKeys(pending["listen"], m)
          BY <1>1, <1>3, <3>2 DEF Opens, sessionFor
        <4> QED
          BY <4>1, <4>2 DEF SameKeys
      <3> QED
        BY <1>3, <3>1, <3>2 DEF handleData
    <2> QED
      BY <2>1, <2>2 DEF DivertsNothing
  <1> QED
    BY <1>1, <1>2, <1>3 DEF Ends

(* tunnel.go, handleInit, promote and setPeer: once the listening end has a *)
(* confirmed session, only a data datagram that opens under the new keys    *)
(* changes the keys it seals with, and only one that came from there the    *)
(* address it sends to; a repeated or late handshake message diverts        *)
(* neither.                                                                 *)
THEOREM HandshakeDivertsNothing == Spec => HandshakeNeverDiverts
<1>1. IInv /\ [Next]_vars => [DivertsNothing]_vars
  <2> SUFFICES ASSUME IInv, Next PROVE DivertsNothing
    OBVIOUS
  <2>1. ASSUME UNCHANGED sessions, peer' = peer PROVE DivertsNothing
    BY <2>1, StaysPut DEF sessions, SameKeys
  <2>2. CASE BeginHandshake \/ HandshakeTimeout \/ EndGeneration \/ Move
    BY <2>1, <2>2 DEF BeginHandshake, HandshakeTimeout, EndGeneration, Move
  <2>3. ASSUME NEW m \in net, handleResp(m) PROVE DivertsNothing
    BY <2>1, <2>3 DEF handleResp
  <2>4. ASSUME NEW e \in Ends, SendData(e) PROVE DivertsNothing
    BY <2>1, <2>4 DEF SendData
  <2>5. CASE TakeReply
    <3>1. current'["listen"] = current["listen"] /\ peer' = peer
      BY <2>5 DEF TakeReply, Install, sessions, IInv, SlotsOK, Ends
    <3> QED
      BY <3>1, StaysPut DEF SameKeys
  <2>6. ASSUME NEW m \in net, handleInit(m) PROVE DivertsNothing
    <3>1. current' = current /\ (peer' = peer \/ ~Live(current["listen"]))
      BY <2>6 DEF handleInit, sessions
    <3> QED
      BY <3>1, StaysPut DEF SameKeys
  <2>7. ASSUME NEW e \in Ends, retireSessions(e) PROVE DivertsNothing
    <3>1. current'["listen"] \in {NoSession, current["listen"]} /\ peer' = peer
      BY <2>7 DEF retireSessions, IInv, SlotsOK, Ends
    <3> QED
      BY <3>1, StaysPut DEF SameKeys, Live, NoSession
  <2>8. CASE Tick
    <3>1. \A s \in SessionType : SameKeys(s, Older(s))
      BY DEF SessionType, Older, SameKeys, Live
    <3>2. SameKeys(current["listen"], current'["listen"]) /\ peer' = peer
      BY <2>8, <3>1 DEF Tick, IInv, SlotsOK, Ends
    <3> QED
      BY <3>2, StaysPut
  <2>9. ASSUME NEW e \in Ends, RestartProcess(e) PROVE DivertsNothing
    <3>1. CASE e = "dial"
      <4>1. current'["listen"] = current["listen"] /\ peer' = peer
        BY <2>9, <3>1 DEF RestartProcess, IInv, SlotsOK, Ends
      <4> QED
        BY <4>1, StaysPut DEF SameKeys
    <3>2. CASE e # "dial"
      <4>1. current'["listen"] = NoSession
        BY <2>9, <3>2 DEF RestartProcess, IInv, SlotsOK, Ends
      <4> QED
        BY <4>1, StaysPut DEF Live, NoSession
    <3> QED
      BY <3>1, <3>2
  <2> QED
    BY <2>2, <2>3, <2>4, <2>5, <2>6, <2>7, <2>8, <2>9, HandleDataProves DEF Next
<1> QED
  BY <1>1, Inductive, PTL DEF Spec, HandshakeNeverDiverts

-----------------------------------------------------------------------------
(* The parts together: a step is a step of one of them. *)

LEMMA PartStep ==
  [PartNext]_partVars => [Next]_vars /\ [FecNext]_fecvars /\ [MpNext]_mpvars
<1> SUFFICES ASSUME [PartNext]_partVars
             PROVE  [Next]_vars /\ [FecNext]_fecvars /\ [MpNext]_mpvars
  OBVIOUS
<1>1. CASE part = "session" /\ Next /\ UNCHANGED <<part, fecvars, mpvars>>
  BY <1>1
<1>2. CASE part = "fec" /\ FecNext /\ UNCHANGED <<part, vars, mpvars>>
  BY <1>2
<1>3. CASE part = "multipath" /\ MpNext /\ UNCHANGED <<part, vars, fecvars>>
  BY <1>3
<1>4. CASE UNCHANGED partVars
  BY <1>4 DEF partVars
<1> QED
  BY <1>1, <1>2, <1>3, <1>4 DEF PartNext, Stopped

LEMMA FecInductive == PartSpec => []FecInv
<1>1. PartInit => FecInv
  BY FecStarts DEF PartInit
<1>2. FecInv /\ [FecNext]_fecvars => FecInv'
  <2>1. ASSUME FecInv, UNCHANGED fecvars PROVE FecInv'
    BY <2>1, ReceiverStays DEF fecvars, FecInv, FecTypes, WireOK, SentShard
  <2> QED
    BY <2>1, FecStepKeeps
<1> QED
  BY <1>1, <1>2, PartStep, PTL DEF PartSpec

LEMMA MpInductive == PartSpec => []MpInv
<1>1. PartInit => MpInv
  BY MpStarts DEF PartInit
<1>2. MpInv /\ [MpNext]_mpvars => MpInv'
  <2>1. ASSUME MpInv, UNCHANGED mpvars PROVE MpInv'
    BY <2>1 DEF mpvars, MpInv, MpTypes, MpTypeOK, Shares, Ahead, Wraps, Turn
  <2> QED
    BY <2>1, MpStepKeeps
<1> QED
  BY <1>1, <1>2, PartStep, PTL DEF PartSpec

(* fec.go, WriteTo, absorb, rebuild and evict; multipath.go, WriteTo: only  *)
(* packets that were sent are handed up, none twice while its group is      *)
(* remembered and the sender has not restarted, and a group of which enough *)
(* shards came is handed up whole, for every scheme, window and number of   *)
(* groups, incarnations and faults; and for any number of paths no path     *)
(* carries more than its share, also when the write counter wraps.          *)
THEOREM DeliveryStaysRight == PartSpec => []DeliveryIsRight
<1>1. FecInv /\ MpInv => DeliveryIsRight
  BY FecGives, MpGives DEF DeliveryIsRight
<1> QED
  BY <1>1, FecInductive, MpInductive, PTL

(* fec.go, absorb: a packet that arrives is swallowed as a duplicate only   *)
(* when another incarnation's packet of that group and index was handed up  *)
(* before it, or its group was rebuilt from shards of two incarnations.     *)
THEOREM OnlyTwinsSwallow == PartSpec => []SwallowedByTwin
<1>1. FecInv => SwallowedByTwin
  BY DEF FecInv
<1> QED
  BY <1>1, FecInductive, PTL

(* tunnel.go, fec.go, multipath.go: sessions, groups, queues and counters   *)
(* keep their types and bounds; the receiver of shards holds exactly the    *)
(* groups its order lists, and no more than its window.                     *)
THEOREM PartsTypeCorrect == PartSpec => []PartsTyped
<1>1. PartInit => IInv
  BY SessionStarts DEF PartInit
<1>2. IInv /\ [PartNext]_partVars => IInv'
  BY PartStep, SessionStepKeeps
<1>3. IInv /\ FecInv /\ MpInv => PartsTyped
  <2>1. IInv => TypeOK
    BY DEF IInv, TypeOK, SlotsOK, DialOK, ListenOK, WorldOK, NetOK, Datagram
  <2> QED
    BY <2>1, FecGives DEF PartsTyped, MpInv, MpTypes
<1> QED
  BY <1>1, <1>2, <1>3, FecInductive, MpInductive, PTL DEF PartSpec
=============================================================================
