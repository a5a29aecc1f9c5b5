-------------------------------- MODULE Fec --------------------------------
(***************************************************************************)
(* The layer-3 tunnel's forward error correction (fec.go): each group of   *)
(* FData packets is followed by FParity parity shards, and the receiver    *)
(* rebuilds a group's missing packets once FData of its shards are there.  *)
(* The carrier below loses, reorders and duplicates.  A sender that        *)
(* restarts numbers its groups from zero again while the receiver still    *)
(* holds groups of those numbers.                                          *)
(*                                                                         *)
(* A packet is known by its sender's incarnation, its group and its index; *)
(* the bytes of a shard are that name.  What Reed-Solomon makes of shards  *)
(* of two incarnations is Garbled, or nothing at all.                      *)
(*                                                                         *)
(* Both ends are configured with one scheme, so a shard's kind follows     *)
(* from its index.  A data shard whose index is a parity one's, which only *)
(* a sender with another scheme writes, is not modelled: absorb indexes    *)
(* delivered with it (fec.go:344) without looking at that.                 *)
(***************************************************************************)
EXTENDS Integers, Sequences, FiniteSets, SequencesExt

CONSTANTS
  FData, FParity,  \* the scheme
  FWindow,         \* fecWindow
  FMaxGroup,       \* bound: groups a sender numbers
  FMaxInc,         \* bound: incarnations of the sender
  FMaxWire,        \* bound: shards in flight when one more packet is sent
  FMaxFaults       \* bound: shards lost or duplicated

ASSUME SchemeAssumption == FData \in Nat \ {0} /\ FParity \in Nat /\ FWindow \in Nat \ {0}
ASSUME FecAssumption    == /\ FMaxGroup \in Nat /\ FMaxInc \in Nat \ {0}
                           /\ FMaxWire \in Nat /\ FMaxFaults \in Nat

VARIABLES
  finc, sendGrp, sendIdx,  \* the sender
  fwire,           \* shards in flight
  ffaults,
  fgroups,         \* the receiver's groups, by number; NoGroup where none
  forder,          \* their numbers in order of arrival
  fpending,        \* rebuilt packets not yet read
  fup,             \* history: packets handed up
  fagain,          \* history: packets handed up more than once
  fevicted,        \* history: group numbers evicted
  flost            \* history: packets that arrived, and were not handed up, as another's duplicates

fecvars == <<finc, sendGrp, sendIdx, fwire, ffaults, fgroups, forder, fpending, fup, fagain, fevicted, flost>>
fsend   == <<finc, sendGrp, sendIdx>>
fhist   == <<fup, fagain, fevicted, flost>>

FTotal   == FData + FParity
FIndices == 0..FTotal - 1
FGroups  == 0..FMaxGroup - 1
Packet(inc, g, i) == [inc |-> inc, grp |-> g, idx |-> i]
Garbled  == [inc |-> 0, grp |-> 0, idx |-> 0]
NoGroup  == [held |-> FALSE, shards |-> [i \in FIndices |-> 0], delivered |-> {}, sized |-> FALSE, done |-> FALSE]

FecInit ==
  /\ finc = 1 /\ sendGrp = 0 /\ sendIdx = 0
  /\ fwire = {} /\ ffaults = 0
  /\ fgroups = [g \in FGroups |-> NoGroup] /\ forder = <<>> /\ fpending = <<>>
  /\ fup = {} /\ fagain = {} /\ fevicted = {} /\ flost = {}

-----------------------------------------------------------------------------
(* The sender.  WriteTo sends a packet as a shard at once; the one that     *)
(* fills the group is followed by flushParity, which starts the next.       *)
flushParity(sent) ==
  /\ fwire' = sent \cup {Packet(finc, sendGrp, i) : i \in FData..FTotal - 1}
  /\ sendGrp' = sendGrp + 1 /\ sendIdx' = 0

WriteTo ==
  /\ sendGrp < FMaxGroup /\ Cardinality(fwire) < FMaxWire
  /\ LET sent == fwire \cup {Packet(finc, sendGrp, sendIdx)}
     IN IF sendIdx + 1 = FData
        THEN flushParity(sent)
        ELSE fwire' = sent /\ sendIdx' = sendIdx + 1 /\ UNCHANGED sendGrp
  /\ UNCHANGED <<finc, ffaults, fgroups, forder, fpending, fhist>>

SenderRestarts ==
  /\ finc < FMaxInc
  /\ finc' = finc + 1 /\ sendGrp' = 0 /\ sendIdx' = 0
  /\ UNCHANGED <<fwire, ffaults, fgroups, forder, fpending, fhist>>

ShardLost ==
  /\ \E s \in fwire : fwire' = fwire \ {s}
  /\ ffaults < FMaxFaults /\ ffaults' = ffaults + 1
  /\ UNCHANGED <<fsend, fgroups, forder, fpending, fhist>>

-----------------------------------------------------------------------------
(* The receiver. *)

HaveTotal(r) == {i \in FIndices : r.shards[i] # 0}
HaveData(r)  == {i \in HaveTotal(r) : i < FData}

marksEarlyMutant(r, s) == [r EXCEPT !.held = TRUE, !.shards[s.idx] = IF @ = 0 THEN s.inc ELSE @,
                         !.delivered = @ \cup ({s.idx} \cap 0..FData - 1),
                         !.sized = @ \/ (s.idx >= FData /\ r.shards[s.idx] = 0)]

(* The shard is filed unless its place is taken; a parity shard tells the   *)
(* group's width.                                                           *)
Filed(r, s) == [r EXCEPT !.held = TRUE, !.shards[s.idx] = IF @ = 0 THEN s.inc ELSE @,
                         !.sized = @ \/ (s.idx >= FData /\ r.shards[s.idx] = 0)]

(* A data shard whose place was not delivered yet is handed up.             *)
HandsUp(r, s) == s.idx < FData /\ s.idx \notin r.delivered

oneShortMutant(r) == /\ ~r.done /\ Cardinality(HaveData(r)) # FData
                     /\ Cardinality(HaveTotal(r)) > FData /\ r.sized

(* rebuild goes ahead.                                                      *)
CanRebuild(r) == /\ ~r.done /\ Cardinality(HaveData(r)) # FData
                 /\ Cardinality(HaveTotal(r)) >= FData /\ r.sized

Incs(r) == {r.shards[i] : i \in HaveTotal(r)}

(* What rebuild makes of group g in state r: the packets it queues and the  *)
(* group after it.  Shards of one incarnation give that one's packets.      *)
Rebuilds(g, r) ==
  LET missing == {i \in 0..FData - 1 : i \notin r.delivered}
      whole   == [r EXCEPT !.done = TRUE, !.delivered = 0..FData - 1]
  IN IF ~CanRebuild(r) THEN {<<<<>>, r>>}
     ELSE IF Cardinality(Incs(r)) = 1
     THEN {<<SetToSeq({Packet(CHOOSE k \in Incs(r) : TRUE, g, i) : i \in missing}), whole>>}
     ELSE {<<<<>>, r>>, <<<<>>, [r EXCEPT !.done = TRUE]>>,
           <<[i \in 1..Cardinality(missing) |-> Garbled], whole>>}

(* evict: the newest FWindow groups stay.                                   *)
evict(order) == IF Len(order) > FWindow THEN Tail(order) ELSE order

HandUp(p) == fup' = fup \cup {p} /\ fagain' = IF p \in fup /\ p # Garbled THEN fagain \cup {p} ELSE fagain

(* ReadFrom with a shard off the wire: absorb.  The carrier below may hand  *)
(* the shard over once more.                                                *)
absorb(s) ==
  /\ s \in fwire /\ fpending = <<>>
  /\ \/ fwire' = fwire \ {s} /\ UNCHANGED ffaults
     \/ fwire' = fwire /\ ffaults < FMaxFaults /\ ffaults' = ffaults + 1
  /\ LET order == IF fgroups[s.grp].held THEN forder ELSE evict(Append(forder, s.grp))
         gone  == ToSet(forder) \ ToSet(order)
         r     == Filed(fgroups[s.grp], s)
         up    == HandsUp(r, s)
         taken == IF up THEN [r EXCEPT !.delivered = @ \cup {s.idx}] ELSE r
     IN \E out \in Rebuilds(s.grp, taken) :
          /\ forder' = order
          /\ fgroups' = [g \in FGroups |-> IF g = s.grp THEN out[2] ELSE IF g \in gone THEN NoGroup
                                                                                        ELSE fgroups[g]]
          /\ fpending' = out[1]
          /\ IF up THEN HandUp(s) ELSE UNCHANGED <<fup, fagain>>
          /\ fevicted' = fevicted \cup gone
          /\ flost' = IF s.idx < FData /\ ~up /\ s \notin fup \cup ToSet(out[1]) THEN flost \cup {s} ELSE flost
  /\ UNCHANGED fsend

(* ReadFrom with a rebuilt packet waiting.                                  *)
takePending ==
  /\ fpending # <<>>
  /\ HandUp(Head(fpending))
  /\ fpending' = Tail(fpending)
  /\ UNCHANGED <<fsend, fwire, ffaults, fgroups, forder, fevicted, flost>>

FecNext ==
  \/ WriteTo \/ SenderRestarts \/ ShardLost \/ takePending
  \/ \E s \in fwire : absorb(s)

FecSpec == FecInit /\ [][FecNext]_fecvars

-----------------------------------------------------------------------------
FecTypeOK ==
  /\ finc \in 1..FMaxInc /\ sendGrp \in 0..FMaxGroup /\ sendIdx \in 0..FData - 1
  /\ ffaults \in 0..FMaxFaults
  /\ \A g \in FGroups : /\ fgroups[g].held <=> Contains(forder, g)
                        /\ fgroups[g].delivered \subseteq 0..FData - 1
  /\ Len(forder) <= FWindow

(* What is handed up was sent, and nothing is handed up twice unless its    *)
(* group was evicted in between; only a sender that restarted can have a    *)
(* packet garbled (delivered[] and the group's shards).                     *)
FecSound ==
  /\ \A p \in fup : \/ p = Garbled /\ finc > 1
                    \/ p.idx < FData /\ p.inc \in 1..finc
                       /\ (p.inc = finc => p.grp < sendGrp \/ (p.grp = sendGrp /\ p.idx < sendIdx))
  /\ \A p \in fagain : p.grp \in fevicted \/ finc > 1

(* No packet is lost that the scheme promises to repair: a group with FData *)
(* of its shards, all of one incarnation, has been handed up whole, or      *)
(* waits in pending.                                                        *)
FecComplete ==
  \A g \in FGroups :
    LET r == fgroups[g] IN
    r.held /\ Cardinality(Incs(r)) = 1 /\ Cardinality(HaveTotal(r)) >= FData
    => \A i \in 0..FData - 1 :
         LET p == Packet(CHOOSE k \in Incs(r) : TRUE, g, i)
         IN p \in fup \/ Contains(fpending, p) \/ (finc > 1 /\ Garbled \in fup)

(* A packet that arrives is swallowed as a duplicate only when another      *)
(* incarnation's packet of that group and index was handed up before it, or *)
(* its group was rebuilt from shards of two incarnations.                   *)
SwallowedByTwin ==
  \A p \in flost : \/ \E q \in fup \cup ToSet(fpending) : q.grp = p.grp /\ q.idx = p.idx /\ q.inc # p.inc
                   \/ finc > 1 /\ Garbled \in fup \cup ToSet(fpending)
=============================================================================
