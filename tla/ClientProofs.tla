---------------------------- MODULE ClientProofs ----------------------------
(***************************************************************************)
(* The ends that dial: the forwarder shared by the L3 tunnel and the       *)
(* direct edge, the direct tunnel, and the client of a reverse tunnel with *)
(* its endpoints and backends, for any number of users, flows, sessions,   *)
(* endpoints and targets, and any bound.                                   *)
(***************************************************************************)
EXTENDS MCClient, FiniteSetTheorems, SequenceTheorems, WellFoundedInduction, TLAPS

(* Positions taken in turn, modulo their number.                            *)
LEMMA Wraps ==
  ASSUME NEW n \in Nat \ {0}, NEW t \in 0 .. n - 1
  PROVE  t % n = t /\ (t + n) % n = t
OBVIOUS

LEMMA Reached ==
  ASSUME NEW n \in Nat \ {0}, NEW s \in 0 .. n - 1, NEW t \in 0 .. n - 1
  PROVE  \E i \in 0 .. n - 1 : (s + i) % n = t
<1>1. CASE s <= t
  <2>1. t - s \in 0 .. n - 1 /\ s + (t - s) = t
    BY <1>1
  <2> QED
    BY <2>1, Wraps
<1>2. CASE s > t
  <2>1. t - s + n \in 0 .. n - 1 /\ s + (t - s + n) = t + n
    BY <1>2
  <2> QED
    BY <2>1, Wraps
<1> QED
  BY <1>1, <1>2

LEMMA Modulo ==
  ASSUME NEW n \in Nat \ {0}, NEW t \in Nat
  PROVE  t % n \in 0 .. n - 1
OBVIOUS

-----------------------------------------------------------------------------
(* PortForward. *)

PfHolding == {u \in PfUsers : users[u].st # "free"}
PfInUse   == {f \in PfFlows : pflows[f].st # "free"}

PfPeerOK == \A f \in PfFlows : pflows[f].st # "free" => pflows[f].peer \in PfPeers

(* The listener opens one flow at a time, for a source that has none.       *)
PfOpenOK ==
  /\ \A f \in PfFlows : pflows[f].st = "opening" => ptable[pflows[f].peer] = PNone
  /\ \A f, g \in PfFlows : pflows[f].st = "opening" /\ pflows[g].st = "opening" => f = g

(* Why target t did not carry a connection of session s.                    *)
PfMissed(t, s) == t \notin answering \/ (pfkind = "edge" /\ s \notin pup)

(* What a user has tried while the forwarder ran could not be reached, and  *)
(* still cannot on that session; before it dials it has tried nothing.      *)
PfTriedOK == \A u \in PfUsers :
  /\ users[u].st \in {"free", "taken", "picked"} => users[u].tried = 0
  /\ users[u].st = "dialling" /\ pfctx = "live" =>
       \A n \in 0 .. users[u].tried - 1 : PfMissed(NthTarget(users[u].start, n), users[u].sess)

PfSlotOK == slots = Cardinality(PfHolding) + Cardinality(PfInUse) /\ slots <= PfMax

PfInv == PfTypeOK /\ PfSlotOK /\ FlowsTracked /\ PfPeerOK /\ PfOpenOK /\ PfTriedOK

LEMMA PfBounds == /\ PfTargets \in Nat /\ PfTargets > 0 /\ PfMax \in Nat /\ PfCursor \in Nat /\ PfCursor > 0
                  /\ PNone \notin PfFlows /\ PNone \notin PfSessions
BY PfAssumption DEF PNone

LEMMA FreePfTypes == /\ FreeUser \in UserType /\ FreeUser.st = "free" /\ FreeUser.tried = 0
                     /\ FreePf \in PfType /\ FreePf.st = "free"
<1>1. FreeUser \in UserType /\ FreeUser.st = "free" /\ FreeUser.tried = 0
  BY PfBounds DEF FreeUser, UserType
<1>2. FreePf \in PfType /\ FreePf.st = "free"
  BY DEF FreePf, PfType
<1> QED
  BY <1>1, <1>2

LEMMA PfFinite ==
  /\ IsFiniteSet(PfHolding) /\ Cardinality(PfHolding) \in Nat
  /\ IsFiniteSet(PfInUse) /\ Cardinality(PfInUse) \in Nat
<1>1. PfHolding \subseteq PfUsers /\ PfInUse \subseteq PfFlows
  BY DEF PfHolding, PfInUse
<1> QED
  BY <1>1, PfAssumption, FS_Subset, FS_CardinalityType

(* The cursor stays within its bound.                                       *)
LEMMA PfTurns == ASSUME PfTypeOK, NEW n \in Nat, Turned(n) PROVE pcursor' \in 0 .. PfCursor - 1
<1>1. pcursor + n \in Nat /\ PfCursor \in Nat \ {0} /\ pcursor' = (pcursor + n) % PfCursor
  BY PfBounds DEF PfTypeOK, Turned
<1> QED
  BY <1>1, Modulo

LEMMA OneUser ==
  ASSUME PfTypeOK, NEW u \in PfUsers, NEW d \in UserType, users' = [users EXCEPT ![u] = d]
  PROVE  /\ users' \in [PfUsers -> UserType] /\ users'[u] = d
         /\ \A v \in PfUsers : v # u => users'[v] = users[v]
BY DEF PfTypeOK

LEMMA OnePf ==
  ASSUME PfTypeOK, NEW f \in PfFlows, NEW d \in PfType, pflows' = [pflows EXCEPT ![f] = d]
  PROVE  /\ pflows' \in [PfFlows -> PfType] /\ pflows'[f] = d
         /\ \A g \in PfFlows : g # f => pflows'[g] = pflows[g]
BY DEF PfTypeOK

(* A user is counted when it takes a slot and no longer when it is free.    *)
LEMMA UserCounted ==
  ASSUME PfTypeOK, NEW u \in PfUsers, NEW d \in UserType, users' = [users EXCEPT ![u] = d]
  PROVE  /\ users[u].st = "free" /\ d.st # "free" => Cardinality(PfHolding') = Cardinality(PfHolding) + 1
         /\ users[u].st # "free" /\ d.st = "free" => Cardinality(PfHolding') = Cardinality(PfHolding) - 1
         /\ users[u].st # "free" /\ d.st # "free" => PfHolding' = PfHolding
<1>1. /\ users'[u] = d /\ \A v \in PfUsers : v # u => users'[v] = users[v]
  BY OneUser
<1>2. CASE users[u].st = "free" /\ d.st # "free"
  <2>1. PfHolding' = PfHolding \cup {u} /\ u \notin PfHolding
    BY <1>1, <1>2 DEF PfHolding
  <2> QED
    BY <1>2, <2>1, PfFinite, FS_AddElement
<1>3. CASE users[u].st # "free" /\ d.st = "free"
  <2>1. PfHolding' = PfHolding \ {u} /\ u \in PfHolding
    BY <1>1, <1>3 DEF PfHolding
  <2> QED
    BY <1>3, <2>1, PfFinite, FS_RemoveElement
<1>4. CASE users[u].st # "free" /\ d.st # "free"
  <2>1. PfHolding' = PfHolding
    BY <1>1, <1>4 DEF PfHolding
  <2> QED
    BY <1>4, <2>1
<1> QED
  BY <1>2, <1>3, <1>4

LEMMA FlowCounted ==
  ASSUME PfTypeOK, NEW f \in PfFlows, NEW d \in PfType, pflows' = [pflows EXCEPT ![f] = d]
  PROVE  /\ pflows[f].st = "free" /\ d.st # "free" => Cardinality(PfInUse') = Cardinality(PfInUse) + 1
         /\ pflows[f].st # "free" /\ d.st = "free" => Cardinality(PfInUse') = Cardinality(PfInUse) - 1
         /\ pflows[f].st # "free" /\ d.st # "free" => PfInUse' = PfInUse
<1>1. pflows'[f] = d /\ \A g \in PfFlows : g # f => pflows'[g] = pflows[g]
  BY OnePf
<1>2. CASE pflows[f].st = "free" /\ d.st # "free"
  <2>1. PfInUse' = PfInUse \cup {f} /\ f \notin PfInUse
    BY <1>1, <1>2 DEF PfInUse
  <2> QED
    BY <1>2, <2>1, PfFinite, FS_AddElement
<1>3. CASE pflows[f].st # "free" /\ d.st = "free"
  <2>1. PfInUse' = PfInUse \ {f} /\ f \in PfInUse
    BY <1>1, <1>3 DEF PfInUse
  <2> QED
    BY <1>3, <2>1, PfFinite, FS_RemoveElement
<1>4. CASE pflows[f].st # "free" /\ d.st # "free"
  <2>1. PfInUse' = PfInUse
    BY <1>1, <1>4 DEF PfInUse
  <2> QED
    BY <1>4, <2>1
<1> QED
  BY <1>2, <1>3, <1>4

(* A step of a user that becomes d, with what it does to the slots.         *)
LEMMA UserKeeps ==
  ASSUME PfInv, NEW u \in PfUsers, NEW d \in UserType, users' = [users EXCEPT ![u] = d],
         UNCHANGED <<pfkind, answering, pfctx, pup, pflows, ptable>>,
         pcursor' \in 0 .. PfCursor - 1, pdown' \in BOOLEAN,
         \/ users[u].st = "free" /\ d.st # "free" /\ slots < PfMax /\ slots' = slots + 1
         \/ users[u].st # "free" /\ d.st = "free" /\ slots' = slots - 1
         \/ users[u].st # "free" /\ d.st # "free" /\ slots' = slots,
         d.st \in {"free", "taken", "picked"} => d.tried = 0,
         d.st = "dialling" /\ pfctx = "live" =>
           \A n \in 0 .. d.tried - 1 : PfMissed(NthTarget(d.start, n), d.sess)
  PROVE  PfInv'
<1>1. /\ users' \in [PfUsers -> UserType] /\ users'[u] = d
      /\ \A v \in PfUsers : v # u => users'[v] = users[v]
  BY OneUser DEF PfInv
<1>2. PfInUse' = PfInUse
  BY DEF PfInUse
<1>3. PfSlotOK'
  <2>1. /\ users[u].st = "free" /\ d.st # "free" => Cardinality(PfHolding') = Cardinality(PfHolding) + 1
        /\ users[u].st # "free" /\ d.st = "free" => Cardinality(PfHolding') = Cardinality(PfHolding) - 1
        /\ users[u].st # "free" /\ d.st # "free" => PfHolding' = PfHolding
    BY UserCounted DEF PfInv
  <2>2. /\ Cardinality(PfHolding) \in Nat /\ Cardinality(PfInUse) \in Nat /\ PfMax \in Nat
        /\ slots = Cardinality(PfHolding) + Cardinality(PfInUse) /\ slots <= PfMax
    BY PfFinite, PfBounds DEF PfInv, PfSlotOK
  <2>3. slots' = Cardinality(PfHolding') + Cardinality(PfInUse) /\ slots' <= PfMax
    BY <2>1, <2>2
  <2> QED
    BY <1>2, <2>3 DEF PfSlotOK
<1>4. slots' \in 0 .. PfMax + 1
  <2>1. Cardinality(PfHolding') \in Nat /\ Cardinality(PfInUse) \in Nat /\ PfMax \in Nat
    <3>1. PfHolding' \subseteq PfUsers
      BY DEF PfHolding
    <3> QED
      BY <3>1, PfFinite, PfBounds, PfAssumption, FS_Subset, FS_CardinalityType
  <2> QED
    BY <1>2, <1>3, <2>1 DEF PfSlotOK
<1>5. PfTypeOK'
  BY <1>1, <1>4 DEF PfInv, PfTypeOK
<1>6. FlowsTracked' /\ PfPeerOK' /\ PfOpenOK'
  BY DEF PfInv, FlowsTracked, PfPeerOK, PfOpenOK
<1>7. PfTriedOK'
  BY <1>1 DEF PfInv, PfTriedOK, PfMissed, NthTarget
<1> QED
  BY <1>3, <1>5, <1>6, <1>7 DEF PfInv

LEMMA TakesKeeps ==
  ASSUME PfInv, NEW u \in PfUsers, NEW st \in {"taken", "picked"}, Takes(u, st)
  PROVE  PfInv'
<1> DEFINE d == [users[u] EXCEPT !.st = st]
<1>1. users[u] \in UserType /\ users[u].st = "free" /\ users[u].tried = 0
  BY DEF PfInv, PfTypeOK, PfTriedOK, Takes
<1>2. d \in UserType /\ d.st = st /\ d.tried = 0
  BY <1>1 DEF UserType
<1>3. /\ users' = [users EXCEPT ![u] = d] /\ slots < PfMax /\ slots' = slots + 1
      /\ UNCHANGED <<pfkind, answering, pfctx, pup, pflows, ptable, pcursor>> /\ pdown' = pdown
  BY DEF Takes, Acquire
<1> HIDE DEF d
<1>4. pdown' \in BOOLEAN
  BY <1>3, Zenon DEF PfInv, PfTypeOK
<1>5. pcursor' \in 0 .. PfCursor - 1
  BY <1>3 DEF PfInv, PfTypeOK
<1>6. d.st # "free" /\ d.st # "dialling"
  BY <1>2
<1> QED
  BY <1>1, <1>2, <1>3, <1>4, <1>5, <1>6, UserKeeps

LEMMA EdgePicksKeeps == ASSUME PfInv, NEW u \in PfUsers, EdgePicks(u) PROVE PfInv'
<1>1. PICK s \in pup : users' = [users EXCEPT ![u].st = "picked", ![u].sess = s]
  BY DEF EdgePicks
<1> DEFINE d == [users[u] EXCEPT !.st = "picked", !.sess = s]
<1>2. users[u] \in UserType /\ users[u].st = "taken" /\ users[u].tried = 0 /\ s \in PfSessions
  BY DEF PfInv, PfTypeOK, PfTriedOK, EdgePicks
<1>3. d \in UserType /\ d.st = "picked" /\ d.tried = 0
  BY <1>2 DEF UserType
<1>4. /\ users' = [users EXCEPT ![u] = d] /\ slots' = slots /\ Turned(1)
      /\ UNCHANGED <<pfkind, answering, pfctx, pup, pflows, ptable>> /\ pdown' = pdown
  BY <1>1 DEF EdgePicks
<1> HIDE DEF d
<1>5. pdown' \in BOOLEAN
  BY <1>4, Zenon DEF PfInv, PfTypeOK
<1>6. pcursor' \in 0 .. PfCursor - 1
  BY <1>4, PfTurns DEF PfInv
<1>7. d.st # "free" /\ d.st # "dialling"
  BY <1>3
<1> QED
  BY <1>2, <1>3, <1>4, <1>5, <1>6, <1>7, UserKeeps

LEMMA StartsKeeps == ASSUME PfInv, NEW u \in PfUsers, Starts(u) PROVE PfInv'
<1> DEFINE d == [users[u] EXCEPT !.st = "dialling", !.start = pcursor % PfTargets]
<1>1. users[u] \in UserType /\ users[u].st = "picked" /\ users[u].tried = 0
  BY DEF PfInv, PfTypeOK, PfTriedOK, Starts
<1>2. pcursor % PfTargets \in 0 .. PfTargets - 1
  <2>1. pcursor \in Nat /\ PfTargets \in Nat \ {0}
    BY PfBounds DEF PfInv, PfTypeOK
  <2> QED
    BY <2>1, Modulo
<1>3. d \in UserType /\ d.st = "dialling" /\ d.tried = 0
  BY <1>1, <1>2 DEF UserType
<1>4. /\ users' = [users EXCEPT ![u] = d] /\ slots' = slots /\ Turned(1)
      /\ UNCHANGED <<pfkind, answering, pfctx, pup, pflows, ptable>> /\ pdown' = pdown
  BY DEF Starts
<1> HIDE DEF d
<1>5. pdown' \in BOOLEAN
  BY <1>4, Zenon DEF PfInv, PfTypeOK
<1>6. pcursor' \in 0 .. PfCursor - 1
  BY <1>4, PfTurns DEF PfInv
<1>7. d.st # "free" /\ \A n \in 0 .. d.tried - 1 : PfMissed(NthTarget(d.start, n), d.sess)
  BY <1>3
<1> QED
  BY <1>1, <1>3, <1>4, <1>5, <1>6, <1>7, UserKeeps

LEMMA DialsKeeps ==
  ASSUME PfInv, NEW u \in PfUsers, NEW reached \in BOOLEAN, Dials(u, reached), pdown' \in BOOLEAN,
         ~reached => PfMissed(NextTarget(u), users[u].sess)
  PROVE  PfInv'
<1>1. /\ users[u].st = "dialling" /\ users[u].tried < PfTargets
      /\ UNCHANGED <<pfkind, answering, pfctx, slots, pup, pflows, ptable, pcursor>>
  BY DEF Dials
<1>2. users[u] \in UserType
  BY DEF PfInv, PfTypeOK
<1>3. PICK st \in {"piped", "dialling"} :
        st = IF reached /\ pfctx = "live" THEN "piped" ELSE users[u].st
  BY <1>1
<1>4. users[u].tried \in Nat /\ users[u].tried + 1 \in 0 .. PfTargets
  BY <1>1, <1>2, PfBounds DEF UserType
<1> DEFINE d == [users[u] EXCEPT !.tried = users[u].tried + 1, !.st = st]
<1>5. d \in UserType /\ d.st = st /\ d.tried = users[u].tried + 1 /\ d.start = users[u].start /\ d.sess = users[u].sess
  BY <1>2, <1>4 DEF UserType
<1>6. users' = [users EXCEPT ![u] = d]
  BY <1>3 DEF Dials
<1> HIDE DEF d
<1>7. ASSUME d.st = "dialling", pfctx = "live", NEW n \in 0 .. d.tried - 1
      PROVE  PfMissed(NthTarget(d.start, n), d.sess)
  <2>1. \A i \in 0 .. users[u].tried - 1 : PfMissed(NthTarget(users[u].start, i), users[u].sess)
    BY <1>1, <1>7 DEF PfInv, PfTriedOK
  <2>2. PfMissed(NthTarget(users[u].start, users[u].tried), users[u].sess)
    BY <1>3, <1>5, <1>7 DEF NextTarget
  <2>3. n \in 0 .. users[u].tried - 1 \/ n = users[u].tried
    BY <1>4, <1>5
  <2> QED
    BY <1>5, <2>1, <2>2, <2>3
<1>8. pcursor' \in 0 .. PfCursor - 1
  BY <1>1 DEF PfInv, PfTypeOK
<1>9. d.st # "free" /\ d.st \notin {"free", "taken", "picked"}
  BY <1>5
<1> QED
  BY <1>1, <1>5, <1>6, <1>7, <1>8, <1>9, UserKeeps

LEMMA UserLeavesKeeps ==
  ASSUME PfInv, NEW u \in PfUsers, users[u].st # "free", users' = [users EXCEPT ![u] = FreeUser], Release,
         UNCHANGED <<pfkind, answering, pfctx, pup, pflows, ptable>>,
         pcursor' \in 0 .. PfCursor - 1, pdown' \in BOOLEAN
  PROVE  PfInv'
<1>1. PICK d \in UserType : d = FreeUser /\ d.st = "free" /\ d.tried = 0
  BY FreePfTypes
<1>2. slots' = slots - 1
  BY DEF Release
<1> QED
  BY <1>1, <1>2, UserKeeps

LEMMA PipeClosesKeeps == ASSUME PfInv, NEW u \in PfUsers, PipeCloses(u) PROVE PfInv'
<1> DEFINE d == [users[u] EXCEPT !.st = "closing"]
<1>1. users[u] \in UserType
  BY DEF PfInv, PfTypeOK
<1>2. d \in UserType /\ d.st = "closing"
  BY <1>1 DEF UserType
<1>3. /\ users[u].st = "piped" /\ users' = [users EXCEPT ![u] = d]
      /\ UNCHANGED <<pfkind, answering, pfctx, slots, pup, pflows, ptable, pcursor>> /\ pdown' = pdown
  BY DEF PipeCloses
<1> HIDE DEF d
<1>4. pdown' \in BOOLEAN
  BY <1>3, Zenon DEF PfInv, PfTypeOK
<1>5. pcursor' \in 0 .. PfCursor - 1
  BY <1>3 DEF PfInv, PfTypeOK
<1>6. d.st \notin {"free", "taken", "picked"} /\ d.st # "dialling" /\ d.st # "free"
  BY <1>2
<1> QED
  BY <1>2, <1>3, <1>4, <1>5, <1>6, UserKeeps

LEMMA UserStepKeeps == ASSUME PfInv, NEW u \in PfUsers, L3Takes(u) \/ EdgeTakes(u) \/ UserStep(u) PROVE PfInv'
<1>1. pdown \in BOOLEAN
  BY Zenon DEF PfInv, PfTypeOK
<1>2. CASE L3Takes(u) \/ EdgeTakes(u)
  BY <1>2, TakesKeeps DEF L3Takes, EdgeTakes
<1>3. CASE L3Dials(u) \/ EdgeDials(u)
  <2>1. PICK reached \in BOOLEAN : /\ Dials(u, reached)
                                   /\ ~reached => PfMissed(NextTarget(u), users[u].sess)
    <3>1. CASE L3Dials(u)
      <4> DEFINE r == L3Reaches(NextTarget(u))
      <4>1. r \in BOOLEAN /\ Dials(u, r) /\ (~r => PfMissed(NextTarget(u), users[u].sess))
        BY <3>1 DEF L3Dials, L3Reaches, PfMissed
      <4> HIDE DEF r
      <4> QED
        BY <4>1
    <3>2. CASE EdgeDials(u)
      <4> DEFINE r == EdgeReaches(u, NextTarget(u))
      <4>1. r \in BOOLEAN /\ Dials(u, r) /\ (~r => PfMissed(NextTarget(u), users[u].sess))
        BY <3>2 DEF EdgeDials, EdgeReaches, PfMissed
      <4> HIDE DEF r
      <4> QED
        BY <4>1
    <3> QED
      BY <1>3, <3>1, <3>2
  <2>2. pdown' = (pdown /\ users'[u].st # "piped") \/ pdown' = pdown
    BY <1>3, Zenon DEF L3Dials, EdgeDials
  <2>3. pdown' \in BOOLEAN
    BY <1>1, <2>2, Zenon
  <2> QED
    BY <2>1, <2>3, DialsKeeps
<1>4. CASE L3Refused(u) \/ EdgeRefused(u)
  <2>1. PfRefused(u)
    BY <1>4 DEF L3Refused, EdgeRefused
  <2>2. pdown' = TRUE \/ pdown' = pdown
    BY <1>4, Zenon DEF L3Refused, EdgeRefused
  <2>3. pdown' \in BOOLEAN
    BY <1>1, <2>2, Zenon
  <2>4. users[u].st # "free" /\ pcursor' \in 0 .. PfCursor - 1
    BY <2>1 DEF PfRefused, PfInv, PfTypeOK
  <2> QED
    BY <2>1, <2>3, <2>4, UserLeavesKeeps DEF PfRefused
<1>5. CASE L3Pipe(u) \/ EdgePipe(u)
  <2>1. ASSUME PipeReturns(u) PROVE PfInv'
    <3>1. pdown' \in BOOLEAN
      BY <1>1, <2>1, Zenon DEF PipeReturns
    <3>2. users[u].st # "free" /\ pcursor' \in 0 .. PfCursor - 1
      BY <2>1 DEF PipeReturns, PfInv, PfTypeOK
    <3> QED
      BY <2>1, <3>1, <3>2, UserLeavesKeeps DEF PipeReturns
  <2> QED
    BY <1>5, <2>1, PipeClosesKeeps DEF L3Pipe, EdgePipe
<1>6. CASE EdgeNoSession(u)
  <2>1. PICK n \in 0 .. 1 : Turned(n)
    BY <1>6 DEF EdgeNoSession
  <2>2. pcursor' \in 0 .. PfCursor - 1
    BY <2>1, PfTurns DEF PfInv
  <2>3. pdown' \in BOOLEAN
    BY <1>1, <1>6, Zenon DEF EdgeNoSession
  <2>4. users[u].st # "free"
    BY <1>6 DEF EdgeNoSession
  <2> QED
    BY <1>6, <2>2, <2>3, <2>4, UserLeavesKeeps DEF EdgeNoSession
<1>7. CASE EdgePicks(u) \/ L3Starts(u) \/ EdgeStarts(u)
  BY <1>7, EdgePicksKeeps, StartsKeeps DEF L3Starts, EdgeStarts
<1> QED
  BY <1>2, <1>3, <1>4, <1>5, <1>6, <1>7 DEF UserStep

(* A session comes or goes.  One that is new is nobody's, so what was not   *)
(* reached on an old one still is not.                                      *)
LEMMA SessionKeeps == ASSUME PfInv, NEW s \in PfSessions, SessionUp(s) \/ SessionDies(s) PROVE PfInv'
<1>1. UNCHANGED <<pfkind, answering, pfctx, slots, users, pflows, ptable, pcursor, pdown>>
  BY DEF SessionUp, SessionDies
<1>2. pup' \subseteq PfSessions /\ \A u \in PfUsers : users[u].sess \in pup' => users[u].sess \in pup
  BY DEF SessionUp, SessionDies, PfInv, PfTypeOK
<1>3. PfTypeOK'
  BY <1>1, <1>2 DEF PfInv, PfTypeOK
<1>4. PfTriedOK'
  BY <1>1, <1>2 DEF PfInv, PfTriedOK, PfMissed, NthTarget
<1> QED
  BY <1>1, <1>3, <1>4 DEF PfInv, PfSlotOK, PfHolding, PfInUse, FlowsTracked, PfPeerOK, PfOpenOK

(* A datagram, a quiet spell, the reaper or a failure changes no more of a  *)
(* flow than whether it is open and idle.                                   *)
LEMMA FlowTouchedKeeps ==
  ASSUME PfInv, NEW f \in PfFlows, NEW d \in PfType, pflows' = [pflows EXCEPT ![f] = d],
         d.st = pflows[f].st, d.peer = pflows[f].peer,
         UNCHANGED <<pfkind, answering, pfctx, slots, pup, users, ptable, pcursor, pdown>>
  PROVE  PfInv'
<1>1. /\ pflows' \in [PfFlows -> PfType] /\ pflows'[f] = d
      /\ \A g \in PfFlows : g # f => pflows'[g] = pflows[g]
  BY OnePf DEF PfInv
<1>2. \A g \in PfFlows : pflows'[g].st = pflows[g].st /\ pflows'[g].peer = pflows[g].peer
  BY <1>1
<1>3. PfTypeOK'
  BY <1>1 DEF PfInv, PfTypeOK
<1>4. PfSlotOK'
  <2>1. PfInUse' = PfInUse /\ PfHolding' = PfHolding
    BY <1>2 DEF PfInUse, PfHolding
  <2> QED
    BY <2>1 DEF PfInv, PfSlotOK
<1>5. FlowsTracked' /\ PfPeerOK' /\ PfOpenOK'
  BY <1>2, PfBounds DEF PfInv, PfTypeOK, FlowsTracked, PfPeerOK, PfOpenOK
<1>6. PfTriedOK'
  BY DEF PfInv, PfTriedOK, PfMissed, NthTarget
<1> QED
  BY <1>3, <1>4, <1>5, <1>6 DEF PfInv

LEMMA TouchKeeps ==
  ASSUME PfInv, NEW f \in PfFlows, NEW v \in BOOLEAN,
         \/ pflows' = [pflows EXCEPT ![f].idle = v]
         \/ pflows' = [pflows EXCEPT ![f].open = v],
         UNCHANGED <<pfkind, answering, pfctx, slots, pup, users, ptable, pcursor, pdown>>
  PROVE  PfInv'
<1> DEFINE d == [pflows[f] EXCEPT !.idle = v]
           e == [pflows[f] EXCEPT !.open = v]
<1>1. pflows[f] \in PfType
  BY DEF PfInv, PfTypeOK
<1>2. /\ d \in PfType /\ d.st = pflows[f].st /\ d.peer = pflows[f].peer
      /\ e \in PfType /\ e.st = pflows[f].st /\ e.peer = pflows[f].peer
  BY <1>1 DEF PfType
<1>3. pflows' = [pflows EXCEPT ![f] = d] \/ pflows' = [pflows EXCEPT ![f] = e]
  OBVIOUS
<1> HIDE DEF d, e
<1> QED
  BY <1>2, <1>3, FlowTouchedKeeps

LEMMA DatagramOnKeeps == ASSUME PfInv, NEW p \in PfPeers, DatagramOn(p) PROVE PfInv'
<1>1. PICK f \in PfFlows : f = ptable[p]
  BY DEF PfInv, PfTypeOK, DatagramOn
<1>2. /\ pflows' = [pflows EXCEPT ![f].idle = FALSE]
      /\ UNCHANGED <<pfkind, answering, pfctx, slots, pup, users, ptable, pcursor, pdown>>
  BY <1>1 DEF DatagramOn
<1> QED
  BY <1>2, TouchKeeps

LEMMA EdgeNoFlowKeeps == ASSUME PfInv, NEW p \in PfPeers, EdgeNoFlow(p) PROVE PfInv'
<1>1. Turned(1) /\ UNCHANGED <<pfkind, answering, pfctx, slots, pup, users, pflows, ptable, pdown>>
  BY DEF EdgeNoFlow
<1>2. pcursor' \in 0 .. PfCursor - 1
  BY <1>1, PfTurns DEF PfInv
<1>3. PfTypeOK'
  BY <1>1, <1>2 DEF PfInv, PfTypeOK
<1> QED
  BY <1>1, <1>3 DEF PfInv, PfSlotOK, PfHolding, PfInUse, FlowsTracked, PfPeerOK, PfOpenOK, PfTriedOK, PfMissed, NthTarget

(* A flow becomes d, with what that does to the slots; the table is the     *)
(* caller's to follow.                                                      *)
LEMMA FlowKeeps ==
  ASSUME PfInv, NEW f \in PfFlows, NEW d \in PfType, pflows' = [pflows EXCEPT ![f] = d],
         UNCHANGED <<pfkind, answering, pfctx, pup, users, pdown>>,
         pcursor' \in 0 .. PfCursor - 1, ptable' \in [PfPeers -> PfFlows \cup {PNone}],
         \/ pflows[f].st = "free" /\ d.st # "free" /\ slots < PfMax /\ slots' = slots + 1
         \/ pflows[f].st # "free" /\ d.st = "free" /\ slots' = slots - 1
         \/ pflows[f].st # "free" /\ d.st # "free" /\ slots' = slots,
         d.st # "free" => d.peer \in PfPeers,
         FlowsTracked', PfOpenOK'
  PROVE  PfInv'
<1>1. /\ pflows' \in [PfFlows -> PfType] /\ pflows'[f] = d
      /\ \A g \in PfFlows : g # f => pflows'[g] = pflows[g]
  BY OnePf DEF PfInv
<1>2. PfHolding' = PfHolding
  BY DEF PfHolding
<1>3. /\ pflows[f].st = "free" /\ d.st # "free" => Cardinality(PfInUse') = Cardinality(PfInUse) + 1
      /\ pflows[f].st # "free" /\ d.st = "free" => Cardinality(PfInUse') = Cardinality(PfInUse) - 1
      /\ pflows[f].st # "free" /\ d.st # "free" => PfInUse' = PfInUse
  BY FlowCounted DEF PfInv
<1>4. /\ Cardinality(PfHolding) \in Nat /\ Cardinality(PfInUse) \in Nat /\ PfMax \in Nat
      /\ slots = Cardinality(PfHolding) + Cardinality(PfInUse) /\ slots <= PfMax
  BY PfFinite, PfBounds DEF PfInv, PfSlotOK
<1>5. slots' = Cardinality(PfHolding) + Cardinality(PfInUse') /\ slots' <= PfMax
  BY <1>3, <1>4
<1>6. Cardinality(PfInUse') \in Nat
  <2>1. PfInUse' \subseteq PfFlows
    BY DEF PfInUse
  <2> QED
    BY <2>1, PfAssumption, FS_Subset, FS_CardinalityType
<1>7. slots' \in 0 .. PfMax + 1
  BY <1>4, <1>5, <1>6
<1>8. PfSlotOK'
  BY <1>2, <1>5 DEF PfSlotOK
<1>9. PfTypeOK'
  BY <1>1, <1>7 DEF PfInv, PfTypeOK
<1>10. PfPeerOK'
  BY <1>1 DEF PfInv, PfPeerOK
<1>11. PfTriedOK'
  BY DEF PfInv, PfTriedOK, PfMissed, NthTarget
<1> QED
  BY <1>8, <1>9, <1>10, <1>11 DEF PfInv

(* A flow that was not live goes live in the table, with no other opening.  *)
LEMMA EntersTable ==
  ASSUME PfInv, NEW f \in PfFlows, NEW p \in PfPeers, NEW d \in PfType, pflows' = [pflows EXCEPT ![f] = d],
         d.st = "live", d.peer = p, pflows[f].st # "live",
         ptable[p] = PNone, ptable' = [ptable EXCEPT ![p] = f],
         \A g \in PfFlows : g # f => pflows[g].st # "opening"
  PROVE  ptable' \in [PfPeers -> PfFlows \cup {PNone}] /\ FlowsTracked' /\ PfOpenOK'
<1>1. /\ pflows' \in [PfFlows -> PfType] /\ pflows'[f] = d
      /\ \A g \in PfFlows : g # f => pflows'[g] = pflows[g]
  BY OnePf DEF PfInv
<1>2. /\ ptable' \in [PfPeers -> PfFlows \cup {PNone}] /\ ptable'[p] = f
      /\ \A q \in PfPeers : q # p => ptable'[q] = ptable[q]
  BY DEF PfInv, PfTypeOK
<1>3. ASSUME NEW q \in PfPeers, ptable'[q] # PNone PROVE pflows'[ptable'[q]].st = "live" /\ pflows'[ptable'[q]].peer = q
  BY <1>1, <1>2, <1>3 DEF PfInv, PfTypeOK, FlowsTracked
<1>4. ASSUME NEW g \in PfFlows, pflows'[g].st = "live" PROVE ptable'[pflows'[g].peer] = g
  <2>1. CASE g = f
    BY <1>1, <1>2, <2>1
  <2>2. CASE g # f
    <3>1. pflows[g].peer \in PfPeers /\ ptable[pflows[g].peer] = g
      BY <1>1, <1>4, <2>2 DEF PfInv, FlowsTracked, PfPeerOK
    <3>2. pflows[g].peer # p
      BY <3>1, PfBounds
    <3> QED
      BY <1>1, <1>2, <2>2, <3>1, <3>2
  <2> QED
    BY <2>1, <2>2
<1>5. PfOpenOK'
  BY <1>1 DEF PfOpenOK
<1> QED
  BY <1>2, <1>3, <1>4, <1>5 DEF FlowsTracked

LEMMA LiveFlowType ==
  ASSUME NEW p \in PfPeers
  PROVE  LiveFlow(p) \in PfType /\ LiveFlow(p).st = "live" /\ LiveFlow(p).peer = p
BY FreePfTypes DEF LiveFlow, FreePf, PfType

LEMMA L3UdpFlowForKeeps == ASSUME PfInv, NEW p \in PfPeers, NEW f \in PfFlows, L3UdpFlowFor(p, f) PROVE PfInv'
<1>1. PICK d \in PfType : d = LiveFlow(p) /\ d.st = "live" /\ d.peer = p
  BY LiveFlowType
<1>2. /\ ptable[p] = PNone /\ pflows[f].st = "free" /\ slots < PfMax /\ slots' = slots + 1
      /\ ptable' = [ptable EXCEPT ![p] = f] /\ pflows' = [pflows EXCEPT ![f] = d]
      /\ UNCHANGED <<pfkind, answering, pfctx, pup, users, pdown, pcursor>>
      /\ \A g \in PfFlows : pflows[g].st # "opening"
  BY <1>1 DEF L3UdpFlowFor, AsksFlow, Acquire, Listening
<1>3. pcursor' \in 0 .. PfCursor - 1
  BY <1>2 DEF PfInv, PfTypeOK
<1>4. pflows[f].st # "live" /\ d.st # "free"
  BY <1>1, <1>2
<1>5. ptable' \in [PfPeers -> PfFlows \cup {PNone}] /\ FlowsTracked' /\ PfOpenOK'
  BY <1>1, <1>2, <1>4, EntersTable
<1> QED
  BY <1>1, <1>2, <1>3, <1>4, <1>5, FlowKeeps

LEMMA EdgeUdpFlowForKeeps == ASSUME PfInv, NEW p \in PfPeers, NEW f \in PfFlows, EdgeUdpFlowFor(p, f) PROVE PfInv'
<1>1. PICK s \in pup : AsksFlow(p, f, [FreePf EXCEPT !.st = "opening", !.peer = p, !.sess = s])
  BY DEF EdgeUdpFlowFor
<1> DEFINE d == [FreePf EXCEPT !.st = "opening", !.peer = p, !.sess = s]
<1>2. s \in PfSessions
  BY DEF PfInv, PfTypeOK
<1>3. d \in PfType /\ d.st = "opening" /\ d.peer = p
  BY <1>2 DEF FreePf, PfType
<1>4. /\ ptable[p] = PNone /\ pflows[f].st = "free" /\ slots < PfMax /\ slots' = slots + 1
      /\ pflows' = [pflows EXCEPT ![f] = d]
      /\ UNCHANGED <<pfkind, answering, pfctx, pup, users, pdown, ptable>> /\ Turned(2)
      /\ \A g \in PfFlows : pflows[g].st # "opening"
  BY <1>1 DEF EdgeUdpFlowFor, AsksFlow, Acquire, Listening
<1> HIDE DEF d
<1>5. pcursor' \in 0 .. PfCursor - 1
  BY <1>4, PfTurns DEF PfInv
<1>6. /\ pflows' \in [PfFlows -> PfType] /\ pflows'[f] = d
      /\ \A g \in PfFlows : g # f => pflows'[g] = pflows[g]
  BY <1>3, <1>4, OnePf DEF PfInv
<1>7. ptable' \in [PfPeers -> PfFlows \cup {PNone}]
  BY <1>4 DEF PfInv, PfTypeOK
<1>8. FlowsTracked'
  <2>1. ASSUME NEW q \in PfPeers, ptable'[q] # PNone PROVE pflows'[ptable'[q]].st = "live" /\ pflows'[ptable'[q]].peer = q
    <3>1. ptable[q] \in PfFlows /\ pflows[ptable[q]].st = "live" /\ pflows[ptable[q]].peer = q
      BY <1>4, <2>1 DEF PfInv, PfTypeOK, FlowsTracked
    <3> QED
      BY <1>4, <1>6, <3>1
  <2>2. ASSUME NEW g \in PfFlows, pflows'[g].st = "live" PROVE ptable'[pflows'[g].peer] = g
    <3>1. g # f /\ pflows'[g] = pflows[g]
      BY <1>3, <1>6, <2>2
    <3> QED
      BY <1>4, <2>2, <3>1 DEF PfInv, FlowsTracked
  <2> QED
    BY <2>1, <2>2 DEF FlowsTracked
<1>9. PfOpenOK'
  BY <1>3, <1>4, <1>6 DEF PfOpenOK
<1>10. d.st # "free"
  BY <1>3
<1> QED
  BY <1>3, <1>4, <1>5, <1>7, <1>8, <1>9, <1>10, FlowKeeps

LEMMA EdgeFlowOpensKeeps == ASSUME PfInv, NEW f \in PfFlows, EdgeFlowOpens(f) PROVE PfInv'
<1>1. PICK p \in PfPeers : p = pflows[f].peer /\ ptable[p] = PNone
  BY DEF EdgeFlowOpens, PfInv, PfPeerOK, PfOpenOK
<1>2. PICK d \in PfType : d = LiveFlow(p) /\ d.st = "live" /\ d.peer = p
  BY LiveFlowType
<1>3. /\ pflows[f].st = "opening" /\ slots' = slots
      /\ ptable' = [ptable EXCEPT ![p] = f] /\ pflows' = [pflows EXCEPT ![f] = d]
      /\ UNCHANGED <<pfkind, answering, pfctx, pup, users, pdown, pcursor>>
  BY <1>1, <1>2 DEF EdgeFlowOpens
<1>4. pcursor' \in 0 .. PfCursor - 1
  BY <1>3 DEF PfInv, PfTypeOK
<1>5. pflows[f].st # "live" /\ pflows[f].st # "free" /\ d.st # "free"
  BY <1>2, <1>3
<1>6. \A g \in PfFlows : g # f => pflows[g].st # "opening"
  BY <1>3 DEF PfInv, PfOpenOK
<1>7. ptable' \in [PfPeers -> PfFlows \cup {PNone}] /\ FlowsTracked' /\ PfOpenOK'
  BY <1>1, <1>2, <1>3, <1>5, <1>6, EntersTable
<1> QED
  BY <1>2, <1>3, <1>4, <1>5, <1>7, FlowKeeps

LEMMA EdgeFlowRefusedKeeps == ASSUME PfInv, NEW f \in PfFlows, EdgeFlowRefused(f) PROVE PfInv'
<1>1. PICK d \in PfType : d = FreePf /\ d.st = "free"
  BY FreePfTypes
<1>2. /\ pflows[f].st = "opening" /\ slots' = slots - 1 /\ pflows' = [pflows EXCEPT ![f] = d]
      /\ UNCHANGED <<pfkind, answering, pfctx, pup, users, pdown, ptable, pcursor>>
  BY <1>1 DEF EdgeFlowRefused, Release
<1>3. /\ pflows' \in [PfFlows -> PfType] /\ pflows'[f] = d
      /\ \A g \in PfFlows : g # f => pflows'[g] = pflows[g]
  BY <1>2, OnePf DEF PfInv
<1>4. pcursor' \in 0 .. PfCursor - 1 /\ ptable' \in [PfPeers -> PfFlows \cup {PNone}]
  BY <1>2 DEF PfInv, PfTypeOK
<1>5. FlowsTracked'
  <2>1. ASSUME NEW q \in PfPeers, ptable'[q] # PNone PROVE pflows'[ptable'[q]].st = "live" /\ pflows'[ptable'[q]].peer = q
    <3>1. ptable[q] \in PfFlows /\ pflows[ptable[q]].st = "live" /\ pflows[ptable[q]].peer = q
      BY <1>2, <2>1 DEF PfInv, PfTypeOK, FlowsTracked
    <3> QED
      BY <1>2, <1>3, <3>1
  <2>2. ASSUME NEW g \in PfFlows, pflows'[g].st = "live" PROVE ptable'[pflows'[g].peer] = g
    <3>1. g # f /\ pflows'[g] = pflows[g]
      BY <1>1, <1>3, <2>2
    <3> QED
      BY <1>2, <2>2, <3>1 DEF PfInv, FlowsTracked
  <2> QED
    BY <2>1, <2>2 DEF FlowsTracked
<1>6. PfOpenOK'
  BY <1>1, <1>2, <1>3 DEF PfInv, PfOpenOK
<1>7. pflows[f].st # "free"
  BY <1>2
<1> QED
  BY <1>1, <1>2, <1>4, <1>5, <1>6, <1>7, FlowKeeps

LEMMA EndsFlowKeeps == ASSUME PfInv, NEW f \in PfFlows, EndsFlow(f) PROVE PfInv'
<1>1. pflows[f].st = "live" /\ pflows[f].st # "free"
  BY DEF EndsFlow
<1>2. PICK p \in PfPeers : p = pflows[f].peer /\ ptable[p] = f
  BY <1>1 DEF PfInv, PfPeerOK, FlowsTracked
<1>3. PICK d \in PfType : d = FreePf /\ d.st = "free"
  BY FreePfTypes
<1>4. /\ ptable' = [ptable EXCEPT ![p] = PNone] /\ pflows' = [pflows EXCEPT ![f] = d] /\ slots' = slots - 1
      /\ UNCHANGED <<pfkind, answering, pfctx, pup, users, pcursor, pdown>>
  BY <1>2, <1>3 DEF EndsFlow, Untracked, Release
<1>5. /\ pflows' \in [PfFlows -> PfType] /\ pflows'[f] = d
      /\ \A g \in PfFlows : g # f => pflows'[g] = pflows[g]
  BY <1>4, OnePf DEF PfInv
<1>6. /\ ptable' \in [PfPeers -> PfFlows \cup {PNone}] /\ ptable'[p] = PNone
      /\ \A q \in PfPeers : q # p => ptable'[q] = ptable[q]
  BY <1>4 DEF PfInv, PfTypeOK
<1>7. pcursor' \in 0 .. PfCursor - 1
  BY <1>4 DEF PfInv, PfTypeOK
<1>8. FlowsTracked'
  <2>1. ASSUME NEW q \in PfPeers, ptable'[q] # PNone PROVE pflows'[ptable'[q]].st = "live" /\ pflows'[ptable'[q]].peer = q
    <3>1. q # p /\ ptable'[q] = ptable[q] /\ ptable[q] \in PfFlows /\ pflows[ptable[q]].st = "live" /\ pflows[ptable[q]].peer = q
      BY <1>6, <2>1 DEF PfInv, PfTypeOK, FlowsTracked
    <3>2. ptable[q] # f
      BY <1>2, <3>1
    <3> QED
      BY <1>5, <3>1, <3>2
  <2>2. ASSUME NEW g \in PfFlows, pflows'[g].st = "live" PROVE ptable'[pflows'[g].peer] = g
    <3>1. g # f /\ pflows'[g] = pflows[g]
      BY <1>3, <1>5, <2>2
    <3>2. pflows[g].peer \in PfPeers /\ ptable[pflows[g].peer] = g
      BY <2>2, <3>1 DEF PfInv, FlowsTracked, PfPeerOK
    <3> QED
      BY <1>2, <1>6, <3>1, <3>2
  <2> QED
    BY <2>1, <2>2 DEF FlowsTracked
<1>9. PfOpenOK'
  <2>1. ASSUME NEW g \in PfFlows, pflows'[g].st = "opening"
        PROVE  pflows[g].st = "opening" /\ ptable'[pflows'[g].peer] = PNone
    <3>1. g # f /\ pflows'[g] = pflows[g] /\ pflows[g].peer \in PfPeers /\ ptable[pflows[g].peer] = PNone
      BY <1>3, <1>5, <2>1 DEF PfInv, PfOpenOK, PfPeerOK
    <3> QED
      BY <1>6, <2>1, <3>1
  <2> QED
    BY <2>1 DEF PfInv, PfOpenOK
<1> QED
  BY <1>1, <1>3, <1>4, <1>6, <1>7, <1>8, <1>9, FlowKeeps

LEMMA CancelKeeps == ASSUME PfInv, Cancel PROVE PfInv'
<1>1. /\ pfctx' = "done" /\ users' = [u \in PfUsers |-> Cancelled(u)] /\ pflows' = [f \in PfFlows |-> FlowClosed(f)]
      /\ pup' = {} /\ UNCHANGED <<pfkind, answering, slots, ptable, pcursor, pdown>>
  BY DEF Cancel
<1>2. ASSUME NEW u \in PfUsers
      PROVE  /\ Cancelled(u) \in UserType /\ (Cancelled(u).st = "free" <=> users[u].st = "free")
             /\ Cancelled(u).st \in {"free", "taken", "picked"} => Cancelled(u).tried = 0
  <2>1. users[u] \in UserType /\ (users[u].st \in {"free", "taken", "picked"} => users[u].tried = 0)
    BY DEF PfInv, PfTypeOK, PfTriedOK
  <2> QED
    BY <2>1 DEF Cancelled, UserType
<1>3. ASSUME NEW f \in PfFlows
      PROVE  FlowClosed(f) \in PfType /\ FlowClosed(f).st = pflows[f].st /\ FlowClosed(f).peer = pflows[f].peer
  <2>1. pflows[f] \in PfType
    BY DEF PfInv, PfTypeOK
  <2> QED
    BY <2>1 DEF FlowClosed, PfType
<1>4. /\ users' \in [PfUsers -> UserType] /\ \A u \in PfUsers : users'[u].st = "free" <=> users[u].st = "free"
      /\ \A u \in PfUsers : users'[u].st \in {"free", "taken", "picked"} => users'[u].tried = 0
  BY <1>1, <1>2
<1>5. /\ pflows' \in [PfFlows -> PfType]
      /\ \A f \in PfFlows : pflows'[f].st = pflows[f].st /\ pflows'[f].peer = pflows[f].peer
  BY <1>1, <1>3
<1>6. PfTypeOK'
  BY <1>1, <1>4, <1>5 DEF PfInv, PfTypeOK
<1>7. PfSlotOK'
  <2>1. PfInUse' = PfInUse /\ PfHolding' = PfHolding
    BY <1>4, <1>5 DEF PfInUse, PfHolding
  <2> QED
    BY <1>1, <2>1 DEF PfInv, PfSlotOK
<1>8. FlowsTracked' /\ PfPeerOK' /\ PfOpenOK'
  BY <1>1, <1>5, PfBounds DEF PfInv, PfTypeOK, FlowsTracked, PfPeerOK, PfOpenOK
<1>9. PfTriedOK'
  BY <1>1, <1>4 DEF PfTriedOK
<1> QED
  BY <1>6, <1>7, <1>8, <1>9 DEF PfInv

LEMMA PfFlowStepKeeps ==
  ASSUME PfInv, NEW f \in PfFlows, GoesQuiet(f) \/ L3Reaps(f) \/ EdgeReaps(f) \/ FlowFails(f) \/ PumpStep(f)
  PROVE  PfInv'
<1>1. CASE GoesQuiet(f) \/ L3Reaps(f) \/ EdgeReaps(f) \/ FlowFails(f)
  <2>1. /\ \/ pflows' = [pflows EXCEPT ![f].idle = TRUE]
           \/ pflows' = [pflows EXCEPT ![f].open = FALSE]
        /\ UNCHANGED <<pfkind, answering, pfctx, slots, pup, users, ptable, pcursor, pdown>>
    BY <1>1 DEF GoesQuiet, L3Reaps, EdgeReaps, Reaps, FlowFails
  <2> QED
    BY <2>1, TouchKeeps
<1>2. CASE PumpStep(f)
  BY <1>2, EndsFlowKeeps, EdgeFlowOpensKeeps, EdgeFlowRefusedKeeps DEF PumpStep, L3PumpUDPReplies, EdgePumpUDPReplies
<1> QED
  BY <1>1, <1>2

LEMMA PfStart == ASSUME PfInit PROVE PfInv
<1>1. PICK d \in UserType : d = FreeUser /\ d.st = "free" /\ d.tried = 0
  BY FreePfTypes
<1>2. PICK e \in PfType : e = FreePf /\ e.st = "free"
  BY FreePfTypes
<1>3. /\ users \in [PfUsers -> UserType] /\ \A u \in PfUsers : users[u] = d
      /\ pflows \in [PfFlows -> PfType] /\ \A f \in PfFlows : pflows[f] = e
  BY <1>1, <1>2 DEF PfInit
<1>4. PfTypeOK
  <2>1. pdown \in BOOLEAN
    BY Zenon DEF PfInit
  <2> QED
    BY <1>3, <2>1, PfBounds DEF PfInit, PfTypeOK
<1>5. PfSlotOK
  <2>1. PfHolding = {} /\ PfInUse = {}
    BY <1>1, <1>2, <1>3 DEF PfHolding, PfInUse
  <2>2. Cardinality({}) = 0
    BY FS_EmptySet
  <2> QED
    BY <2>1, <2>2, PfBounds DEF PfInit, PfSlotOK
<1>6. FlowsTracked /\ PfPeerOK /\ PfOpenOK
  BY <1>2, <1>3 DEF PfInit, FlowsTracked, PfPeerOK, PfOpenOK
<1>7. PfTriedOK
  BY <1>1, <1>3 DEF PfTriedOK
<1> QED
  BY <1>4, <1>5, <1>6, <1>7 DEF PfInv

LEMMA PfStep == ASSUME PfInv, [PfNext]_pfvars PROVE PfInv'
<1>1. CASE \E u \in PfUsers : L3Takes(u) \/ EdgeTakes(u) \/ UserStep(u)
  BY <1>1, UserStepKeeps
<1>2. CASE \E p \in PfPeers : \/ DatagramOn(p) \/ EdgeNoFlow(p)
                              \/ \E f \in PfFlows : L3UdpFlowFor(p, f) \/ EdgeUdpFlowFor(p, f)
  BY <1>2, DatagramOnKeeps, EdgeNoFlowKeeps, L3UdpFlowForKeeps, EdgeUdpFlowForKeeps
<1>3. CASE \E f \in PfFlows : GoesQuiet(f) \/ L3Reaps(f) \/ EdgeReaps(f) \/ FlowFails(f) \/ PumpStep(f)
  BY <1>3, PfFlowStepKeeps
<1>4. CASE L3Cancel \/ EdgeCancel
  BY <1>4, CancelKeeps DEF L3Cancel, EdgeCancel
<1>5. CASE UNCHANGED pfvars
  <2>1. PfTypeOK'
    BY <1>5 DEF PfInv, PfTypeOK, pfvars
  <2> QED
    BY <1>5, <2>1 DEF pfvars, PfInv, PfSlotOK, PfHolding, PfInUse, FlowsTracked, PfPeerOK, PfOpenOK, PfTriedOK, PfMissed, NthTarget
<1>6. CASE \E s \in PfSessions : SessionUp(s) \/ SessionDies(s)
  BY <1>6, SessionKeeps
<1> QED
  BY <1>1, <1>2, <1>3, <1>4, <1>5, <1>6 DEF PfNext

LEMMA PfFollows == ASSUME PfInv PROVE PfTypeOK /\ ForwarderIsRight
<1>1. SlotsCounted
  BY DEF PfInv, PfSlotOK, PfHolding, PfInUse, SlotsCounted
<1>2. RefusedForCause
  <2>1. ASSUME NEW u \in PfUsers, users[u].st = "dialling", users[u].tried = PfTargets, pfctx = "live", NEW t \in answering
        PROVE  pfkind = "edge" /\ users[u].sess \notin pup
    <3>1. users[u] \in UserType /\ t \in 0 .. PfTargets - 1
      BY DEF PfInv, PfTypeOK
    <3>2. users[u].start \in 0 .. PfTargets - 1
      BY <3>1 DEF UserType
    <3>3. PfTargets \in Nat \ {0}
      BY PfBounds
    <3>4. PICK n \in 0 .. PfTargets - 1 : (users[u].start + n) % PfTargets = t
      BY <3>1, <3>2, <3>3, Reached
    <3> QED
      BY <2>1, <3>4 DEF PfInv, PfTriedOK, PfMissed, NthTarget
  <2> QED
    BY <2>1 DEF RefusedForCause
<1> QED
  BY <1>1, <1>2 DEF PfInv, ForwarderIsRight

(* l3/forward.go and direct/edge.go, for any number of connections, flows,  *)
(* sessions and targets and any limit: the limiter's count is exactly what  *)
(* holds a slot, a source's entry is a flow whose pump runs, and one that   *)
(* has tried every target found none answering or, on the edge, lost the    *)
(* session they were tried on.                                              *)
THEOREM ForwarderStaysRight == PfSpec => []ForwarderIsRight
<1>1. PfInit => PfInv
  BY PfStart
<1>2. PfInv /\ [PfNext]_pfvars => PfInv'
  BY PfStep
<1>3. PfInv => ForwarderIsRight
  BY PfFollows
<1> QED
  BY <1>1, <1>2, <1>3, PTL DEF PfSpec

-----------------------------------------------------------------------------
(* Lists without repetition. *)

LEMMA Listed ==
  ASSUME NEW S, NEW s \in Seq(S), NEW e \in S, IsInjective(s), e \notin ToSet(s)
  PROVE  Append(s, e) \in Seq(S) /\ IsInjective(Append(s, e)) /\ ToSet(Append(s, e)) = ToSet(s) \cup {e}
<1> DEFINE d == Append(s, e)
<1>1. d \in Seq(S) /\ Len(d) = Len(s) + 1 /\ d[Len(s) + 1] = e /\ \A i \in 1 .. Len(s) : d[i] = s[i]
  OBVIOUS
<1>2. DOMAIN d = 1 .. Len(s) + 1 /\ DOMAIN s = 1 .. Len(s) /\ Len(s) \in Nat
  BY <1>1
<1> HIDE DEF d
<1>3. 1 .. Len(s) + 1 = (1 .. Len(s)) \cup {Len(s) + 1}
  BY <1>2
<1>4. IsInjective(d)
  BY <1>1, <1>2, <1>3 DEF IsInjective, ToSet
<1>5. ToSet(d) = ToSet(s) \cup {e}
  BY <1>1, <1>2, <1>3 DEF ToSet
<1> QED
  BY <1>1, <1>4, <1>5 DEF d

LEMMA TakenOut ==
  ASSUME NEW S, NEW s \in Seq(S), IsInjective(s), NEW i \in 1 .. Len(s)
  PROVE  /\ RemoveAt(s, i) \in Seq(S) /\ IsInjective(RemoveAt(s, i))
         /\ ToSet(RemoveAt(s, i)) = ToSet(s) \ {s[i]}
<1> DEFINE d == RemoveAt(s, i)
<1>1. /\ d \in Seq(S) /\ Len(d) = Len(s) - 1
      /\ \A j \in 1 .. Len(s) - 1 : d[j] = IF j < i THEN s[j] ELSE s[j + 1]
  <2> DEFINE h == SubSeq(s, 1, i - 1)
             t == SubSeq(s, i + 1, Len(s))
  <2>1. Len(s) \in Nat /\ i \in Nat /\ i >= 1 /\ i <= Len(s)
    OBVIOUS
  <2>2. h \in Seq(S) /\ Len(h) = i - 1 /\ \A j \in 1 .. i - 1 : h[j] = s[j]
    BY <2>1
  <2>3. t \in Seq(S) /\ Len(t) = Len(s) - i /\ \A j \in 1 .. Len(s) - i : t[j] = s[j + i]
    BY <2>1
  <2>4. d = h \o t
    BY DEF RemoveAt
  <2> HIDE DEF h, t, d
  <2>5. /\ d \in Seq(S) /\ Len(d) = Len(h) + Len(t)
        /\ \A j \in 1 .. Len(h) + Len(t) : d[j] = IF j <= Len(h) THEN h[j] ELSE t[j - Len(h)]
    BY <2>2, <2>3, <2>4, ConcatProperties
  <2>6. Len(d) = Len(s) - 1
    BY <2>1, <2>2, <2>3, <2>5
  <2>7. ASSUME NEW j \in 1 .. Len(s) - 1 PROVE d[j] = IF j < i THEN s[j] ELSE s[j + 1]
    <3>1. d[j] = IF j <= i - 1 THEN h[j] ELSE t[j - (i - 1)]
      BY <2>1, <2>2, <2>3, <2>5
    <3>2. CASE j < i
      BY <2>1, <2>2, <3>1, <3>2
    <3>3. CASE ~(j < i)
      <4>1. j - (i - 1) \in 1 .. Len(s) - i /\ j - (i - 1) + i = j + 1
        BY <2>1, <3>3
      <4> QED
        BY <2>1, <2>3, <3>1, <3>3, <4>1
    <3> QED
      BY <3>2, <3>3
  <2> QED
    BY <2>5, <2>6, <2>7
<1>2. DOMAIN d = 1 .. Len(s) - 1 /\ DOMAIN s = 1 .. Len(s) /\ Len(s) \in Nat /\ i \in Nat /\ i >= 1 /\ i <= Len(s)
  BY <1>1
<1> HIDE DEF d
<1>3. IsInjective(d)
  <2>1. ASSUME NEW j \in 1 .. Len(s) - 1, NEW k \in 1 .. Len(s) - 1, d[j] = d[k] PROVE j = k
    <3>1. \A m \in 1 .. Len(s), n \in 1 .. Len(s) : s[m] = s[n] => m = n
      BY <1>2 DEF IsInjective
    <3>2. /\ j \in 1 .. Len(s) /\ j + 1 \in 1 .. Len(s) /\ k \in 1 .. Len(s) /\ k + 1 \in 1 .. Len(s)
      BY <1>2
    <3>3. /\ d[j] = (IF j < i THEN s[j] ELSE s[j + 1]) /\ d[k] = IF k < i THEN s[k] ELSE s[k + 1]
      BY <1>1
    <3>4. CASE j < i /\ k < i
      BY <2>1, <3>1, <3>2, <3>3, <3>4
    <3>5. CASE ~(j < i) /\ ~(k < i)
      <4>1. j + 1 = k + 1
        BY <2>1, <3>1, <3>2, <3>3, <3>5
      <4> QED
        BY <4>1
    <3>6. CASE j < i /\ ~(k < i)
      <4>1. j = k + 1
        BY <2>1, <3>1, <3>2, <3>3, <3>6
      <4> QED
        BY <1>2, <3>6, <4>1
    <3>7. CASE ~(j < i) /\ k < i
      <4>1. j + 1 = k
        BY <2>1, <3>1, <3>2, <3>3, <3>7
      <4> QED
        BY <1>2, <3>7, <4>1
    <3> QED
      BY <3>4, <3>5, <3>6, <3>7
  <2> QED
    BY <1>2, <2>1 DEF IsInjective
<1>4. ASSUME NEW j \in 1 .. Len(s) - 1 PROVE d[j] \in ToSet(s) \ {s[i]}
  <2>1. CASE j < i
    BY <1>1, <1>2, <2>1 DEF ToSet, IsInjective
  <2>2. CASE ~(j < i)
    BY <1>1, <1>2, <2>2 DEF ToSet, IsInjective
  <2> QED
    BY <2>1, <2>2
<1>5. ASSUME NEW j \in 1 .. Len(s), j # i PROVE s[j] \in ToSet(d)
  <2>1. CASE j < i
    BY <1>1, <1>2, <2>1 DEF ToSet
  <2>2. CASE j > i
    <3>1. j - 1 \in 1 .. Len(s) - 1 /\ ~(j - 1 < i) /\ j - 1 + 1 = j
      BY <1>2, <2>2
    <3> QED
      BY <1>1, <1>2, <3>1 DEF ToSet
  <2> QED
    BY <1>2, <1>5, <2>1, <2>2
<1>6. ToSet(d) = ToSet(s) \ {s[i]}
  BY <1>2, <1>4, <1>5 DEF ToSet
<1> QED
  BY <1>1, <1>3, <1>6 DEF d

LEMMA FirstOut ==
  ASSUME NEW S, NEW s \in Seq(S), IsInjective(s), NEW e
  PROVE  /\ RemoveFirst(s, e) \in Seq(S) /\ IsInjective(RemoveFirst(s, e))
         /\ ToSet(RemoveFirst(s, e)) = ToSet(s) \ {e}
<1>1. DOMAIN s = 1 .. Len(s)
  OBVIOUS
<1>2. CASE \E i \in 1 .. Len(s) : s[i] = e
  <2>1. PICK i \in 1 .. Len(s) : s[i] = e
    BY <1>2
  <2>2. {j \in 1 .. Len(s) : s[j] = e} = {i}
    BY <1>1, <2>1 DEF IsInjective
  <2>3. Min({i}) = i
    BY DEF Min
  <2>4. RemoveFirst(s, e) = RemoveAt(s, i)
    BY <1>2, <2>2, <2>3 DEF RemoveFirst, SelectInSeq
  <2> QED
    BY <2>1, <2>4, TakenOut
<1>3. CASE ~\E i \in 1 .. Len(s) : s[i] = e
  <2>1. RemoveFirst(s, e) = s /\ e \notin ToSet(s)
    BY <1>1, <1>3 DEF RemoveFirst, ToSet
  <2> QED
    BY <2>1
<1> QED
  BY <1>2, <1>3

-----------------------------------------------------------------------------
(* DirectTunnel. *)

(* The edge's proof is given by an edge that has checked the origin's, and  *)
(* the origin serves nobody else.                                           *)
ConnRight(d, same) == /\ d.given = "edge" => same /\ d.edge \in {"up", "dead", "closed"}
                      /\ d.edge \in {"up", "dead"} => same
                      /\ d.origin = "up" => d.given = "edge"
DTokenOK == \A c \in DConns : ConnRight(conns[c], dsame)

(* A keeper has a connection from its dial on, and no other has the same;   *)
(* at its own end nobody else takes it down.                                *)
DKeeperOK ==
  /\ \A k \in DKeepers : /\ keepers[k].st \in {"dialling", "up"} <=> keepers[k].conn \in DConns
                         /\ keepers[k].st = "dialling" => conns[keepers[k].conn].edge = "hello"
                         /\ keepers[k].st = "up" => conns[keepers[k].conn].edge \in {"up", "dead"}
  /\ \A k, l \in DKeepers : keepers[k].conn = keepers[l].conn /\ keepers[k].conn \in DConns => k = l

DListOK == ToSet(sessions) = {keepers[k].conn : k \in {x \in DKeepers : keepers[x].st = "up"}}

(* The edge joins a stream on the origin's word alone.                      *)
StreamRight(d) == /\ d.edge = "joined" => d.answer = "ok"
                  /\ d.answer = "ok" => d.origin \in {"joined", "closed"}
DStreamOK == \A s \in DStreams : StreamRight(streams[s])

DirectInv == DirectTypeOK /\ DTokenOK /\ DKeeperOK /\ DListOK /\ DStreamOK

LEMMA NoConn == DNone \notin DConns /\ DMaxFaults \in Nat
BY DAssumption DEF DNone

LEMMA FreeDirect ==
  /\ FreeConn \in ConnType /\ FreeConn.given = "none" /\ ~FreeConn.cut /\ FreeConn.edge = "none" /\ FreeConn.origin = "none"
  /\ FreeStream \in StreamType /\ StreamRight(FreeStream)
  /\ FreeStream.edge = "none" /\ FreeStream.origin = "none" /\ FreeStream.answer = "none"
  /\ IdleKeeper \in KeeperType /\ IdleKeeper.st = "idle" /\ IdleKeeper.conn = DNone
<1>1. /\ FreeConn \in ConnType /\ FreeConn.given = "none" /\ ~FreeConn.cut /\ FreeConn.edge = "none" /\ FreeConn.origin = "none"
  BY DEF FreeConn, ConnType
<1>2. /\ FreeStream \in StreamType /\ FreeStream.edge = "none" /\ FreeStream.origin = "none" /\ FreeStream.answer = "none"
  BY DEF FreeStream, StreamType
<1>3. IdleKeeper \in KeeperType /\ IdleKeeper.st = "idle" /\ IdleKeeper.conn = DNone
  BY DEF IdleKeeper, KeeperType
<1> QED
  BY <1>1, <1>2, <1>3 DEF StreamRight

LEMMA DirectTyped ==
  ASSUME DirectInv
  PROVE  /\ \A k \in DKeepers : keepers[k] \in KeeperType
         /\ \A c \in DConns : conns[c] \in ConnType
         /\ \A s \in DStreams : streams[s] \in StreamType /\ StreamRight(streams[s])
         /\ \A k \in DKeepers : keepers[k].conn \in DConns \/ keepers[k].conn = DNone
<1>1. \A k \in DKeepers : keepers[k] \in KeeperType
  BY DEF DirectInv, DirectTypeOK
<1>2. \A k \in DKeepers : keepers[k].conn \in DConns \/ keepers[k].conn = DNone
  BY <1>1 DEF KeeperType
<1> QED
  BY <1>1, <1>2 DEF DirectInv, DirectTypeOK, DStreamOK

LEMMA OneKeeper ==
  ASSUME DirectInv, NEW k \in DKeepers, NEW d \in KeeperType, keepers' = [keepers EXCEPT ![k] = d]
  PROVE  /\ keepers' \in [DKeepers -> KeeperType] /\ keepers'[k] = d
         /\ \A l \in DKeepers : l # k => keepers'[l] = keepers[l]
BY DEF DirectInv, DirectTypeOK

LEMMA OneConn ==
  ASSUME DirectInv, NEW c \in DConns, NEW d \in ConnType, conns' = [conns EXCEPT ![c] = d]
  PROVE  /\ conns' \in [DConns -> ConnType] /\ conns'[c] = d
         /\ \A e \in DConns : e # c => conns'[e] = conns[e]
BY DEF DirectInv, DirectTypeOK

LEMMA SettledTyped ==
  ASSUME NEW d \in ConnType
  PROVE  /\ Settled(d) \in ConnType
         /\ Settled(d).edge \in {"up", "dead"} => d.edge \in {"up", "dead"}
         /\ d.edge \notin {"none", "closed", "stranger"} => Settled(d) = d
         /\ \A same : ConnRight(d, same) => ConnRight(Settled(d), same)
<1>1. Settled(d) = d \/ Settled(d) = FreeConn
  BY DEF Settled
<1>2. \A same : ConnRight(FreeConn, same)
  BY FreeDirect DEF ConnRight
<1>3. \A same : ConnRight(d, same) => ConnRight(Settled(d), same)
  BY <1>1, <1>2
<1> QED
  BY <1>3, FreeDirect DEF Settled

LEMMA SettledStreamTyped ==
  ASSUME NEW d \in StreamType, StreamRight(d)
  PROVE  SettledStream(d) \in StreamType /\ StreamRight(SettledStream(d))
BY FreeDirect DEF SettledStream

(* A step of one stream, whose two ends keep to what was answered.          *)
LEMMA StreamKeeps ==
  ASSUME DirectInv, NEW s \in DStreams, NEW d \in StreamType, StreamRight(d), streams' = [streams EXCEPT ![s] = d],
         UNCHANGED <<dsame, dctx, keepers, conns, sessions>>, dfaults' \in 0 .. DMaxFaults
  PROVE  DirectInv'
<1>1. streams' \in [DStreams -> StreamType] /\ \A r \in DStreams : streams'[r] = IF r = s THEN d ELSE streams[r]
  BY DEF DirectInv, DirectTypeOK
<1>2. dsame' \in BOOLEAN
  BY Zenon DEF DirectInv, DirectTypeOK
<1>3. DirectTypeOK'
  BY <1>1, <1>2 DEF DirectInv, DirectTypeOK
<1>4. DStreamOK'
  BY <1>1 DEF DirectInv, DStreamOK
<1>5. DTokenOK' /\ DKeeperOK' /\ DListOK'
  BY DEF DirectInv, DTokenOK, DKeeperOK, DListOK
<1> QED
  BY <1>3, <1>4, <1>5 DEF DirectInv

(* A step of one connection that its keeper, if it has one, sees no more of *)
(* than that it died.                                                       *)
LEMMA ConnKeeps ==
  ASSUME DirectInv, NEW c \in DConns, NEW d \in ConnType, conns' = [conns EXCEPT ![c] = d],
         ConnRight(d, dsame),
         d.edge # conns[c].edge => \/ conns[c].edge = "up" /\ d.edge = "dead"
                                   \/ conns[c].edge \in {"none", "closed", "stranger"},
         UNCHANGED <<dsame, dctx, keepers, sessions>>, dfaults' \in 0 .. DMaxFaults,
         streams' \in [DStreams -> StreamType], \A s \in DStreams : StreamRight(streams'[s])
  PROVE  DirectInv'
<1>1. conns' \in [DConns -> ConnType] /\ \A e \in DConns : conns'[e] = IF e = c THEN d ELSE conns[e]
  BY OneConn
<1>2. dsame' \in BOOLEAN
  BY Zenon DEF DirectInv, DirectTypeOK
<1>3. DirectTypeOK'
  BY <1>1, <1>2 DEF DirectInv, DirectTypeOK
<1>4. DTokenOK'
  BY <1>1 DEF DirectInv, DTokenOK
<1>5. DKeeperOK'
  <2>1. ASSUME NEW k \in DKeepers
        PROVE  /\ keepers[k].st = "dialling" => conns'[keepers[k].conn].edge = "hello"
               /\ keepers[k].st = "up" => conns'[keepers[k].conn].edge \in {"up", "dead"}
    BY <1>1 DEF DirectInv, DKeeperOK
  <2> QED
    BY <2>1 DEF DirectInv, DKeeperOK
<1>6. DListOK' /\ DStreamOK'
  BY DEF DirectInv, DListOK, DStreamOK
<1> QED
  BY <1>3, <1>4, <1>5, <1>6 DEF DirectInv

LEMMA dialSessionKeeps == ASSUME DirectInv, NEW k \in DKeepers, NEW c \in DConns, dialSession(k, c) PROVE DirectInv'
<1>1. PICK n \in ConnType : n = FreeConn /\ n.given = "none" /\ n.edge = "none"
  BY FreeDirect
<1> DEFINE d == [n EXCEPT !.edge = "hello", !.origin = "accepted"]
           e == [st |-> "dialling", conn |-> c]
<1>2. d \in ConnType /\ d.edge = "hello" /\ d.origin = "accepted" /\ d.given = "none"
  BY <1>1 DEF ConnType
<1>3. e \in KeeperType /\ e.st = "dialling" /\ e.conn = c
  BY DEF KeeperType
<1>4. /\ keepers[k].st = "idle" /\ conns[c].edge = "none"
      /\ keepers' = [keepers EXCEPT ![k] = e] /\ conns' = [conns EXCEPT ![c] = d]
      /\ UNCHANGED <<dsame, dctx, sessions, streams, dfaults>>
  BY <1>1 DEF dialSession
<1> HIDE DEF d, e
<1>5. /\ keepers' \in [DKeepers -> KeeperType] /\ keepers'[k] = e
      /\ \A l \in DKeepers : l # k => keepers'[l] = keepers[l]
  BY <1>3, <1>4, OneKeeper
<1>6. conns' \in [DConns -> ConnType] /\ conns'[c] = d /\ \A f \in DConns : f # c => conns'[f] = conns[f]
  BY <1>2, <1>4, OneConn
<1>7. \A l \in DKeepers : keepers[l].conn # c
  BY <1>4, DirectTyped DEF DirectInv, DKeeperOK, KeeperType
<1>8. dsame' \in BOOLEAN
  BY <1>4, Zenon DEF DirectInv, DirectTypeOK
<1>9. DirectTypeOK'
  BY <1>4, <1>5, <1>6, <1>8 DEF DirectInv, DirectTypeOK
<1>10. DTokenOK'
  BY <1>2, <1>4, <1>6 DEF DirectInv, DTokenOK, ConnRight
<1>11. DKeeperOK'
  <2>1. ASSUME NEW l \in DKeepers
        PROVE  /\ keepers'[l].st \in {"dialling", "up"} <=> keepers'[l].conn \in DConns
               /\ keepers'[l].st = "dialling" => conns'[keepers'[l].conn].edge = "hello"
               /\ keepers'[l].st = "up" => conns'[keepers'[l].conn].edge \in {"up", "dead"}
    BY <1>2, <1>3, <1>5, <1>6, <1>7 DEF DirectInv, DKeeperOK
  <2>2. ASSUME NEW i \in DKeepers, NEW l \in DKeepers, keepers'[i].conn = keepers'[l].conn, keepers'[i].conn \in DConns
        PROVE  i = l
    BY <1>3, <1>5, <1>7, <2>2 DEF DirectInv, DKeeperOK
  <2> QED
    BY <2>1, <2>2 DEF DKeeperOK
<1>12. DListOK'
  BY <1>3, <1>4, <1>5 DEF DirectInv, DListOK
<1>13. DStreamOK'
  BY <1>4 DEF DirectInv, DStreamOK
<1> QED
  BY <1>9, <1>10, <1>11, <1>12, <1>13 DEF DirectInv

(* A keeper lets its connection go: the dial failed or the session ended.   *)
LEMMA LetsGo ==
  ASSUME DirectInv, NEW k \in DKeepers, NEW c \in DConns, keepers[k].conn = c,
         keepers' = [keepers EXCEPT ![k] = [st |-> "waiting", conn |-> DNone]],
         conns' = [conns EXCEPT ![c] = Settled([@ EXCEPT !.edge = "closed"])],
         sessions' \in Seq(DConns), IsInjective(sessions'), ToSet(sessions') = ToSet(sessions) \ {c},
         UNCHANGED <<dsame, dctx>>, dfaults' \in 0 .. DMaxFaults,
         streams' \in [DStreams -> StreamType], \A s \in DStreams : StreamRight(streams'[s])
  PROVE  DirectInv'
<1> DEFINE e == [st |-> "waiting", conn |-> DNone]
           n == [conns[c] EXCEPT !.edge = "closed"]
           d == Settled(n)
<1>1. e \in KeeperType /\ e.st = "waiting" /\ e.conn = DNone
  BY DEF KeeperType
<1>2. conns[c] \in ConnType
  BY DirectTyped
<1>3. n \in ConnType /\ n.edge = "closed" /\ n.given = conns[c].given /\ n.origin = conns[c].origin
  BY <1>2 DEF ConnType
<1>4. keepers' = [keepers EXCEPT ![k] = e] /\ conns' = [conns EXCEPT ![c] = d]
  OBVIOUS
<1> HIDE DEF e, n
<1>5. d \in ConnType /\ ConnRight(d, dsame)
  <2>1. ConnRight(conns[c], dsame)
    BY DEF DirectInv, DTokenOK
  <2>2. ConnRight(n, dsame)
    BY <1>3, <2>1 DEF ConnRight
  <2> QED
    BY <1>3, <2>2, SettledTyped
<1> HIDE DEF d
<1>6. /\ keepers' \in [DKeepers -> KeeperType] /\ keepers'[k] = e
      /\ \A l \in DKeepers : l # k => keepers'[l] = keepers[l]
  BY <1>1, <1>4, OneKeeper
<1>7. conns' \in [DConns -> ConnType] /\ conns'[c] = d /\ \A f \in DConns : f # c => conns'[f] = conns[f]
  BY <1>4, <1>5, OneConn
<1>8. \A l \in DKeepers : l # k => keepers[l].conn # c
  BY DEF DirectInv, DKeeperOK
<1>9. dsame' \in BOOLEAN
  BY Zenon DEF DirectInv, DirectTypeOK
<1>10. DirectTypeOK'
  BY <1>6, <1>7, <1>9 DEF DirectInv, DirectTypeOK
<1>11. DTokenOK'
  BY <1>5, <1>7 DEF DirectInv, DTokenOK
<1>12. DKeeperOK'
  <2>1. ASSUME NEW l \in DKeepers
        PROVE  /\ keepers'[l].st \in {"dialling", "up"} <=> keepers'[l].conn \in DConns
               /\ keepers'[l].st = "dialling" => conns'[keepers'[l].conn].edge = "hello"
               /\ keepers'[l].st = "up" => conns'[keepers'[l].conn].edge \in {"up", "dead"}
    BY <1>1, <1>6, <1>7, <1>8, NoConn DEF DirectInv, DKeeperOK
  <2>2. ASSUME NEW i \in DKeepers, NEW l \in DKeepers, keepers'[i].conn = keepers'[l].conn, keepers'[i].conn \in DConns
        PROVE  i = l
    BY <1>1, <1>6, <2>2, NoConn DEF DirectInv, DKeeperOK
  <2> QED
    BY <2>1, <2>2 DEF DKeeperOK
<1>13. DListOK'
  <2>1. {keepers'[l].conn : l \in {x \in DKeepers : keepers'[x].st = "up"}}
          = {keepers[l].conn : l \in {x \in DKeepers : keepers[x].st = "up"}} \ {c}
    BY <1>1, <1>6, <1>8
  <2> QED
    BY <2>1 DEF DirectInv, DListOK
<1>14. DStreamOK'
  BY DEF DStreamOK
<1> QED
  BY <1>10, <1>11, <1>12, <1>13, <1>14 DEF DirectInv

LEMMA FaultKeeps ==
  ASSUME DirectInv, DirectFault \/ UNCHANGED dfaults
  PROVE  dfaults' \in 0 .. DMaxFaults
BY NoConn DEF DirectInv, DirectTypeOK, DirectFault

LEMMA DirectDialFailsKeeps == ASSUME DirectInv, NEW k \in DKeepers, DirectDialFails(k) PROVE DirectInv'
<1>1. keepers[k].st = "dialling"
  BY DEF DirectDialFails
<1>2. PICK c \in DConns : c = keepers[k].conn
  BY <1>1 DEF DirectInv, DKeeperOK
<1>3. /\ keepers' = [keepers EXCEPT ![k] = [st |-> "waiting", conn |-> DNone]]
      /\ conns' = [conns EXCEPT ![c] = Settled([@ EXCEPT !.edge = "closed"])]
      /\ UNCHANGED <<dsame, dctx, sessions, streams>> /\ (DirectFault \/ UNCHANGED dfaults)
  BY <1>2 DEF DirectDialFails
<1>4. dfaults' \in 0 .. DMaxFaults
  BY <1>3, FaultKeeps
<1>5. c \notin ToSet(sessions)
  BY <1>1, <1>2 DEF DirectInv, DKeeperOK, DListOK
<1>6. sessions' \in Seq(DConns) /\ IsInjective(sessions') /\ ToSet(sessions') = ToSet(sessions) \ {c}
  BY <1>3, <1>5 DEF DirectInv, DirectTypeOK
<1>7. streams' \in [DStreams -> StreamType] /\ \A s \in DStreams : StreamRight(streams'[s])
  BY <1>3 DEF DirectInv, DirectTypeOK, DStreamOK
<1> QED
  BY <1>2, <1>3, <1>4, <1>6, <1>7, LetsGo

LEMMA removeSessionKeeps == ASSUME DirectInv, NEW k \in DKeepers, removeSession(k) PROVE DirectInv'
<1>1. keepers[k].st = "up"
  BY DEF removeSession
<1>2. PICK c \in DConns : c = keepers[k].conn
  BY <1>1 DEF DirectInv, DKeeperOK
<1> DEFINE d(s) == SettledStream([streams[s] EXCEPT !.edge = "closed"])
<1>3. /\ keepers' = [keepers EXCEPT ![k] = [st |-> "waiting", conn |-> DNone]]
      /\ conns' = [conns EXCEPT ![c] = Settled([@ EXCEPT !.edge = "closed"])]
      /\ sessions' = RemoveFirst(sessions, c)
      /\ streams' = [s \in DStreams |-> IF streams[s].conn = c THEN d(s) ELSE streams[s]]
      /\ UNCHANGED <<dsame, dctx, dfaults>>
  BY <1>2 DEF removeSession, Unlisted
<1>4. dfaults' \in 0 .. DMaxFaults
  BY <1>3, FaultKeeps
<1>5. sessions' \in Seq(DConns) /\ IsInjective(sessions') /\ ToSet(sessions') = ToSet(sessions) \ {c}
  <2>1. sessions \in Seq(DConns) /\ IsInjective(sessions)
    BY DEF DirectInv, DirectTypeOK
  <2> QED
    BY <1>3, <2>1, FirstOut
<1>6. ASSUME NEW s \in DStreams PROVE d(s) \in StreamType /\ StreamRight(d(s))
  <2> DEFINE n == [streams[s] EXCEPT !.edge = "closed"]
  <2>1. streams[s] \in StreamType /\ StreamRight(streams[s])
    BY DirectTyped
  <2>2. n \in StreamType /\ n.edge = "closed" /\ n.origin = streams[s].origin /\ n.answer = streams[s].answer
    BY <2>1 DEF StreamType
  <2> HIDE DEF n
  <2>3. StreamRight(n)
    BY <2>1, <2>2 DEF StreamRight
  <2>4. SettledStream(n) \in StreamType /\ StreamRight(SettledStream(n))
    BY <2>2, <2>3, SettledStreamTyped
  <2> QED
    BY <2>4 DEF n
<1> HIDE DEF d
<1>7. streams' \in [DStreams -> StreamType] /\ \A s \in DStreams : StreamRight(streams'[s])
  BY <1>3, <1>6, DirectTyped
<1> QED
  BY <1>2, <1>3, <1>4, <1>5, <1>7, LetsGo

LEMMA EdgeUpKeeps == ASSUME DirectInv, NEW k \in DKeepers, EdgeUp(k) PROVE DirectInv'
<1>1. keepers[k].st = "dialling"
  BY DEF EdgeUp
<1>2. PICK c \in DConns : c = keepers[k].conn
  BY <1>1 DEF DirectInv, DKeeperOK
<1> DEFINE d == [conns[c] EXCEPT !.edge = "up", !.given = "edge"]
           e == [keepers[k] EXCEPT !.st = "up"]
<1>3. /\ dsame /\ conns[c].origin = "replied"
      /\ conns' = [conns EXCEPT ![c] = d] /\ keepers' = [keepers EXCEPT ![k] = e]
      /\ sessions' = Append(sessions, c) /\ UNCHANGED <<dsame, dctx, streams, dfaults>>
  BY <1>2 DEF EdgeUp, OriginProved
<1>4. conns[c] \in ConnType /\ keepers[k] \in KeeperType
  BY DirectTyped
<1>5. d \in ConnType /\ d.edge = "up" /\ d.given = "edge" /\ d.origin = conns[c].origin
  BY <1>4 DEF ConnType
<1>6. e \in KeeperType /\ e.st = "up" /\ e.conn = c
  BY <1>2, <1>4 DEF KeeperType
<1> HIDE DEF d, e
<1>7. /\ keepers' \in [DKeepers -> KeeperType] /\ keepers'[k] = e
      /\ \A l \in DKeepers : l # k => keepers'[l] = keepers[l]
  BY <1>3, <1>6, OneKeeper
<1>8. conns' \in [DConns -> ConnType] /\ conns'[c] = d /\ \A f \in DConns : f # c => conns'[f] = conns[f]
  BY <1>3, <1>5, OneConn
<1>9. \A l \in DKeepers : l # k => keepers[l].conn # c
  BY <1>2 DEF DirectInv, DKeeperOK
<1>10. c \notin ToSet(sessions)
  BY <1>1, <1>9 DEF DirectInv, DListOK
<1>11. sessions' \in Seq(DConns) /\ IsInjective(sessions') /\ ToSet(sessions') = ToSet(sessions) \cup {c}
  <2>1. sessions \in Seq(DConns) /\ IsInjective(sessions)
    BY DEF DirectInv, DirectTypeOK
  <2> QED
    BY <1>3, <1>10, <2>1, Listed
<1>12. dsame' \in BOOLEAN
  BY <1>3, Zenon DEF DirectInv, DirectTypeOK
<1>13. DirectTypeOK'
  BY <1>3, <1>7, <1>8, <1>11, <1>12 DEF DirectInv, DirectTypeOK
<1>14. DTokenOK'
  BY <1>3, <1>5, <1>8 DEF DirectInv, DTokenOK, ConnRight
<1>15. DKeeperOK'
  <2>1. ASSUME NEW l \in DKeepers
        PROVE  /\ keepers'[l].st \in {"dialling", "up"} <=> keepers'[l].conn \in DConns
               /\ keepers'[l].st = "dialling" => conns'[keepers'[l].conn].edge = "hello"
               /\ keepers'[l].st = "up" => conns'[keepers'[l].conn].edge \in {"up", "dead"}
    BY <1>5, <1>6, <1>7, <1>8, <1>9 DEF DirectInv, DKeeperOK
  <2>2. ASSUME NEW i \in DKeepers, NEW l \in DKeepers, keepers'[i].conn = keepers'[l].conn, keepers'[i].conn \in DConns
        PROVE  i = l
    BY <1>6, <1>7, <1>9, <2>2 DEF DirectInv, DKeeperOK
  <2> QED
    BY <2>1, <2>2 DEF DKeeperOK
<1>16. DListOK'
  <2>1. {keepers'[l].conn : l \in {x \in DKeepers : keepers'[x].st = "up"}}
          = {keepers[l].conn : l \in {x \in DKeepers : keepers[x].st = "up"}} \cup {c}
    BY <1>1, <1>6, <1>7
  <2> QED
    BY <1>11, <2>1 DEF DirectInv, DListOK
<1>17. DStreamOK'
  BY <1>3 DEF DirectInv, DStreamOK
<1> QED
  BY <1>13, <1>14, <1>15, <1>16, <1>17 DEF DirectInv

LEMMA sleepUntilKeeps == ASSUME DirectInv, NEW k \in DKeepers, sleepUntil(k) PROVE DirectInv'
<1> DEFINE e == [keepers[k] EXCEPT !.st = "ended"]
<1>1. keepers[k] \in KeeperType /\ keepers[k].st \in {"waiting", "idle"}
  BY DirectTyped DEF sleepUntil
<1>2. e \in KeeperType /\ e.st = "ended" /\ e.conn = keepers[k].conn
  BY <1>1 DEF KeeperType
<1>3. /\ keepers' = [keepers EXCEPT ![k] = IdleKeeper] \/ keepers' = [keepers EXCEPT ![k] = e]
      /\ UNCHANGED <<dsame, dctx, conns, sessions, streams, dfaults>>
  BY DEF sleepUntil
<1> HIDE DEF e
<1>4. keepers[k].conn \notin DConns
  BY <1>1 DEF DirectInv, DKeeperOK
<1>5. PICK d \in KeeperType : keepers' = [keepers EXCEPT ![k] = d] /\ d.st \notin {"dialling", "up"} /\ d.conn \notin DConns
  BY <1>2, <1>3, <1>4, FreeDirect, NoConn
<1>6. /\ keepers' \in [DKeepers -> KeeperType] /\ keepers'[k] = d
      /\ \A l \in DKeepers : l # k => keepers'[l] = keepers[l]
  BY <1>5, OneKeeper
<1>7. dsame' \in BOOLEAN
  BY <1>3, Zenon DEF DirectInv, DirectTypeOK
<1>8. DirectTypeOK'
  BY <1>3, <1>6, <1>7 DEF DirectInv, DirectTypeOK
<1>9. DKeeperOK'
  BY <1>3, <1>5, <1>6 DEF DirectInv, DKeeperOK
<1>10. DListOK'
  <2>1. {x \in DKeepers : keepers'[x].st = "up"} = {x \in DKeepers : keepers[x].st = "up"}
    BY <1>1, <1>5, <1>6
  <2>2. \A x \in {x \in DKeepers : keepers[x].st = "up"} : keepers'[x].conn = keepers[x].conn
    BY <1>1, <1>6
  <2> QED
    BY <1>3, <2>1, <2>2 DEF DirectInv, DListOK
<1>11. DTokenOK' /\ DStreamOK'
  BY <1>3 DEF DirectInv, DTokenOK, DStreamOK
<1> QED
  BY <1>8, <1>9, <1>10, <1>11 DEF DirectInv

LEMMA ConnStepKeeps == ASSUME DirectInv, NEW c \in DConns, ConnStep(c) \/ LinkCut(c) PROVE DirectInv'
<1>1. conns[c] \in ConnType
  BY DirectTyped
<1>2. ConnRight(conns[c], dsame)
  BY DEF DirectInv, DTokenOK
<1>3. streams \in [DStreams -> StreamType] /\ \A s \in DStreams : StreamRight(streams[s])
  BY DEF DirectInv, DirectTypeOK, DStreamOK
<1>4. CASE EdgeDies(c)
  <2> DEFINE d == [conns[c] EXCEPT !.edge = "dead"]
  <2>1. d \in ConnType /\ d.edge = "dead" /\ d.given = conns[c].given /\ d.origin = conns[c].origin
    BY <1>1 DEF ConnType
  <2>2. /\ conns[c].edge = "up" /\ conns' = [conns EXCEPT ![c] = d]
        /\ UNCHANGED <<dsame, dctx, keepers, sessions, streams, dfaults>>
    BY <1>4 DEF EdgeDies
  <2> HIDE DEF d
  <2>3. dfaults' \in 0 .. DMaxFaults
    BY <2>2, FaultKeeps
  <2>4. ConnRight(d, dsame)
    BY <1>2, <2>1, <2>2 DEF ConnRight
  <2> QED
    BY <1>3, <2>1, <2>2, <2>3, <2>4, ConnKeeps
<1>5. CASE OriginReplies(c) \/ OriginUp(c)
  <2> DEFINE d(o) == [conns[c] EXCEPT !.origin = o]
  <2>1. ASSUME NEW o \in {"replied", "up"}
        PROVE  d(o) \in ConnType /\ d(o).origin = o /\ d(o).given = conns[c].given /\ d(o).edge = conns[c].edge
    BY <1>1 DEF ConnType
  <2>2. PICK o \in {"replied", "up"} : /\ conns' = [conns EXCEPT ![c] = d(o)] /\ (o = "up" => conns[c].given = "edge")
                                       /\ UNCHANGED <<dsame, dctx, keepers, sessions, streams, dfaults>>
    BY <1>5 DEF OriginReplies, OriginUp, EdgeProved
  <2> HIDE DEF d
  <2>3. dfaults' \in 0 .. DMaxFaults
    BY <2>2, FaultKeeps
  <2>4. ConnRight(d(o), dsame)
    BY <1>2, <2>1, <2>2 DEF ConnRight
  <2> QED
    BY <1>3, <2>1, <2>2, <2>3, <2>4, ConnKeeps
<1>6. CASE LinkCut(c)
  <2> DEFINE d == [conns[c] EXCEPT !.cut = TRUE]
  <2>1. d \in ConnType /\ d.edge = conns[c].edge /\ d.given = conns[c].given /\ d.origin = conns[c].origin
    BY <1>1 DEF ConnType
  <2>2. /\ conns' = [conns EXCEPT ![c] = d] /\ DirectFault
        /\ UNCHANGED <<dsame, dctx, keepers, sessions, streams>>
    BY <1>6 DEF LinkCut
  <2> HIDE DEF d
  <2>3. dfaults' \in 0 .. DMaxFaults
    BY <2>2, FaultKeeps
  <2>4. ConnRight(d, dsame)
    BY <1>2, <2>1 DEF ConnRight
  <2> QED
    BY <1>3, <2>1, <2>2, <2>3, <2>4, ConnKeeps
<1>7. CASE OriginEnds(c)
  <2> DEFINE n == [conns[c] EXCEPT !.origin = "closed"]
             d == Settled(n)
             m(s) == [streams[s] EXCEPT !.origin = "closed"]
  <2>1. n \in ConnType /\ n.origin = "closed" /\ n.given = conns[c].given /\ n.edge = conns[c].edge
    BY <1>1 DEF ConnType
  <2>2. /\ conns' = [conns EXCEPT ![c] = d] /\ (DirectFault \/ UNCHANGED dfaults)
        /\ streams' = [s \in DStreams |-> IF streams[s].conn = c /\ streams[s].origin \in {"none", "joined"}
                                          THEN SettledStream(m(s)) ELSE streams[s]]
        /\ UNCHANGED <<dsame, dctx, keepers, sessions>>
    BY <1>7 DEF OriginEnds
  <2>3. ASSUME NEW s \in DStreams, streams[s].origin \in {"none", "joined"}
        PROVE  SettledStream(m(s)) \in StreamType /\ StreamRight(SettledStream(m(s)))
    <3>1. streams[s] \in StreamType /\ StreamRight(streams[s])
      BY DirectTyped
    <3>2. m(s) \in StreamType /\ m(s).origin = "closed" /\ m(s).edge = streams[s].edge /\ m(s).answer = streams[s].answer
      BY <3>1 DEF StreamType
    <3> HIDE DEF m
    <3>3. StreamRight(m(s))
      BY <3>1, <3>2 DEF StreamRight
    <3> QED
      BY <3>2, <3>3, SettledStreamTyped
  <2> HIDE DEF n, m
  <2>4. /\ d \in ConnType /\ ConnRight(d, dsame)
        /\ d.edge # conns[c].edge => conns[c].edge \in {"none", "closed", "stranger"}
    <3>1. ConnRight(n, dsame)
      BY <1>2, <2>1 DEF ConnRight
    <3> QED
      BY <2>1, <3>1, SettledTyped
  <2> HIDE DEF d
  <2>5. streams' \in [DStreams -> StreamType] /\ \A s \in DStreams : StreamRight(streams'[s])
    BY <1>3, <2>2, <2>3
  <2>6. dfaults' \in 0 .. DMaxFaults
    BY <2>2, FaultKeeps
  <2> QED
    BY <2>2, <2>4, <2>5, <2>6, ConnKeeps
<1> QED
  BY <1>4, <1>5, <1>6, <1>7 DEF ConnStep

(* The stranger, from his dial to his leaving, gives no proof of the edge's. *)
LEMMA StrangerKeeps ==
  ASSUME DirectInv, NEW c \in DConns, StrangerDials(c) \/ StrangerProves(c) \/ StrangerLeaves(c) PROVE DirectInv'
<1>1. conns[c] \in ConnType /\ ConnRight(conns[c], dsame)
  BY DirectTyped DEF DirectInv, DTokenOK
<1>2. streams \in [DStreams -> StreamType] /\ \A s \in DStreams : StreamRight(streams[s])
  BY DEF DirectInv, DirectTypeOK, DStreamOK
<1>3. PICK n \in ConnType : n = FreeConn /\ n.given = "none" /\ n.edge = "none"
  BY FreeDirect
<1>4. dfaults' \in 0 .. DMaxFaults
  BY FaultKeeps DEF StrangerDials, StrangerProves, StrangerLeaves
<1>5. UNCHANGED <<dsame, dctx, keepers, sessions, streams>>
  BY DEF StrangerDials, StrangerProves, StrangerLeaves
<1>6. CASE StrangerDials(c)
  <2> DEFINE d == [n EXCEPT !.edge = "stranger", !.origin = "accepted"]
  <2>1. d \in ConnType /\ d.edge = "stranger" /\ d.origin = "accepted" /\ d.given = "none"
    BY <1>3 DEF ConnType
  <2>2. conns[c].edge = "none" /\ conns' = [conns EXCEPT ![c] = d]
    BY <1>3, <1>6 DEF StrangerDials
  <2> HIDE DEF d
  <2>3. ConnRight(d, dsame)
    BY <2>1 DEF ConnRight
  <2> QED
    BY <1>2, <1>4, <1>5, <2>1, <2>2, <2>3, ConnKeeps
<1>7. CASE StrangerProves(c)
  <2>1. PICK g \in {"origin", "other"} : conns' = [conns EXCEPT ![c].given = g]
    BY <1>7 DEF StrangerProves
  <2> DEFINE d == [conns[c] EXCEPT !.given = g]
  <2>2. d \in ConnType /\ d.edge = conns[c].edge /\ d.origin = conns[c].origin /\ d.given = g
    BY <1>1 DEF ConnType
  <2>3. conns' = [conns EXCEPT ![c] = d] /\ conns[c].edge = "stranger" /\ conns[c].origin = "replied"
    BY <1>7, <2>1 DEF StrangerProves
  <2> HIDE DEF d
  <2>4. ConnRight(d, dsame)
    BY <2>2, <2>3 DEF ConnRight
  <2> QED
    BY <1>2, <1>4, <1>5, <2>2, <2>3, <2>4, ConnKeeps
<1>8. CASE StrangerLeaves(c)
  <2> DEFINE d == [conns[c] EXCEPT !.edge = "closed"]
  <2>1. d \in ConnType /\ d.edge = "closed" /\ d.origin = conns[c].origin /\ d.given = conns[c].given
    BY <1>1 DEF ConnType
  <2>2. conns' = [conns EXCEPT ![c] = d] /\ conns[c].edge = "stranger"
    BY <1>8 DEF StrangerLeaves
  <2> HIDE DEF d
  <2>3. ConnRight(d, dsame)
    BY <1>1, <2>1, <2>2 DEF ConnRight
  <2> QED
    BY <1>2, <1>4, <1>5, <2>1, <2>2, <2>3, ConnKeeps
<1> QED
  BY <1>6, <1>7, <1>8

LEMMA openStreamKeeps == ASSUME DirectInv, NEW s \in DStreams, openStream(s) PROVE DirectInv'
<1>1. PICK n \in StreamType : n = FreeStream /\ n.answer = "none"
  BY FreeDirect
<1>2. PICK c \in DConns : streams' = [streams EXCEPT ![s] = [n EXCEPT !.conn = c, !.edge = "asking"]]
  BY <1>1 DEF openStream
<1> DEFINE d == [n EXCEPT !.conn = c, !.edge = "asking"]
<1>3. d \in StreamType /\ d.edge = "asking" /\ d.answer = "none"
  BY <1>1 DEF StreamType
<1>4. streams' = [streams EXCEPT ![s] = d] /\ UNCHANGED <<dsame, dctx, keepers, conns, sessions, dfaults>>
  BY <1>2 DEF openStream
<1> HIDE DEF d
<1>5. dfaults' \in 0 .. DMaxFaults
  BY <1>4, FaultKeeps
<1>6. StreamRight(d)
  BY <1>3 DEF StreamRight
<1> QED
  BY <1>3, <1>4, <1>5, <1>6, StreamKeeps

LEMMA readRequestKeeps == ASSUME DirectInv, NEW s \in DStreams, readRequest(s) PROVE DirectInv'
<1> DEFINE d == [streams[s] EXCEPT !.origin = "dialling"]
<1>1. streams[s] \in StreamType /\ StreamRight(streams[s])
  BY DirectTyped
<1>2. d \in StreamType /\ d.edge = streams[s].edge /\ d.answer = streams[s].answer
  BY <1>1 DEF StreamType
<1>3. /\ streams[s].edge = "asking" /\ streams[s].origin = "none"
      /\ streams' = [streams EXCEPT ![s] = d] /\ UNCHANGED <<dsame, dctx, keepers, conns, sessions, dfaults>>
  BY DEF readRequest
<1> HIDE DEF d
<1>4. dfaults' \in 0 .. DMaxFaults
  BY <1>3, FaultKeeps
<1>5. StreamRight(d)
  BY <1>1, <1>2, <1>3 DEF StreamRight
<1> QED
  BY <1>2, <1>3, <1>4, <1>5, StreamKeeps

LEMMA dialBackendKeeps == ASSUME DirectInv, NEW s \in DStreams, dialBackend(s) PROVE DirectInv'
<1> DEFINE n == [streams[s] EXCEPT !.origin = "closed"]
<1>1. streams[s] \in StreamType /\ StreamRight(streams[s]) /\ streams[s].origin = "dialling"
  BY DirectTyped DEF dialBackend
<1>2. n \in StreamType /\ n.edge = streams[s].edge /\ n.answer = streams[s].answer /\ n.origin = "closed"
  BY <1>1 DEF StreamType
<1>3. \A ok \in BOOLEAN : /\ Answered(s, ok) \in StreamType /\ Answered(s, ok).edge = streams[s].edge
                          /\ \/ Answered(s, ok).answer = "ok" /\ Answered(s, ok).origin = "joined"
                             \/ Answered(s, ok).answer = "failed"
  BY <1>1 DEF StreamType, Answered
<1>4. streams[s].edge # "joined" /\ streams[s].answer # "ok"
  BY <1>1 DEF StreamRight
<1>5. PICK ok \in BOOLEAN : \/ streams' = [streams EXCEPT ![s] = SettledStream(Answered(s, ok))]
                            \/ streams' = [streams EXCEPT ![s] = SettledStream(n)]
  BY DEF dialBackend
<1>6. UNCHANGED <<dsame, dctx, keepers, conns, sessions, dfaults>>
  BY DEF dialBackend
<1> HIDE DEF n
<1>7. StreamRight(n) /\ StreamRight(Answered(s, ok))
  BY <1>2, <1>3, <1>4 DEF StreamRight
<1>8. /\ SettledStream(n) \in StreamType /\ StreamRight(SettledStream(n))
      /\ SettledStream(Answered(s, ok)) \in StreamType /\ StreamRight(SettledStream(Answered(s, ok)))
  BY <1>2, <1>3, <1>7, SettledStreamTyped
<1>9. dfaults' \in 0 .. DMaxFaults
  BY <1>6, FaultKeeps
<1> QED
  BY <1>5, <1>6, <1>8, <1>9, StreamKeeps

LEMMA StreamJoinedKeeps == ASSUME DirectInv, NEW s \in DStreams, StreamJoined(s) PROVE DirectInv'
<1> DEFINE d == [streams[s] EXCEPT !.edge = "joined"]
<1>1. streams[s] \in StreamType /\ StreamRight(streams[s])
  BY DirectTyped
<1>2. d \in StreamType /\ d.origin = streams[s].origin /\ d.answer = streams[s].answer
  BY <1>1 DEF StreamType
<1>3. /\ streams[s].answer = "ok" /\ streams' = [streams EXCEPT ![s] = d]
      /\ UNCHANGED <<dsame, dctx, keepers, conns, sessions, dfaults>>
  BY DEF StreamJoined
<1> HIDE DEF d
<1>4. dfaults' \in 0 .. DMaxFaults
  BY <1>3, FaultKeeps
<1>5. StreamRight(d)
  BY <1>1, <1>2, <1>3 DEF StreamRight
<1> QED
  BY <1>2, <1>3, <1>4, <1>5, StreamKeeps

(* Either end of a stream is closed.                                        *)
LEMMA EndClosesKeeps ==
  ASSUME DirectInv, NEW s \in DStreams, StreamFails(s) \/ EdgePipeEnds(s) \/ OriginPipeEnds(s) PROVE DirectInv'
<1> DEFINE n == [streams[s] EXCEPT !.edge = "closed"]
           m == [streams[s] EXCEPT !.origin = "closed"]
<1>1. streams[s] \in StreamType /\ StreamRight(streams[s])
  BY DirectTyped
<1>2. n \in StreamType /\ n.edge = "closed" /\ n.origin = streams[s].origin /\ n.answer = streams[s].answer
  BY <1>1 DEF StreamType
<1>3. m \in StreamType /\ m.edge = streams[s].edge /\ m.origin = "closed" /\ m.answer = streams[s].answer
  BY <1>1 DEF StreamType
<1>4. /\ \/ streams' = [streams EXCEPT ![s] = SettledStream(n)]
         \/ streams' = [streams EXCEPT ![s] = SettledStream(m)]
      /\ UNCHANGED <<dsame, dctx, keepers, conns, sessions>> /\ (DirectFault \/ UNCHANGED dfaults)
  BY DEF StreamFails, EdgePipeEnds, OriginPipeEnds
<1> HIDE DEF n, m
<1>5. StreamRight(n) /\ StreamRight(m)
  BY <1>1, <1>2, <1>3 DEF StreamRight
<1>6. /\ SettledStream(n) \in StreamType /\ StreamRight(SettledStream(n))
      /\ SettledStream(m) \in StreamType /\ StreamRight(SettledStream(m))
  BY <1>2, <1>3, <1>5, SettledStreamTyped
<1>7. dfaults' \in 0 .. DMaxFaults
  BY <1>4, FaultKeeps
<1> QED
  BY <1>4, <1>6, <1>7, StreamKeeps

LEMMA EdgeStopsKeeps == ASSUME DirectInv, NoneUsable \/ EdgeStops \/ UNCHANGED dvars PROVE DirectInv'
<1>1. /\ dctx' \in {"live", "done"} /\ UNCHANGED <<dsame, keepers, conns, sessions, streams, dfaults>>
  BY DEF NoneUsable, EdgeStops, dvars, DirectInv, DirectTypeOK
<1>2. dsame' \in BOOLEAN
  BY <1>1, Zenon DEF DirectInv, DirectTypeOK
<1>3. DirectTypeOK'
  BY <1>1, <1>2 DEF DirectInv, DirectTypeOK
<1> QED
  BY <1>1, <1>3 DEF DirectInv, DTokenOK, DKeeperOK, DListOK, DStreamOK

LEMMA DirectStart == ASSUME DirectInit PROVE DirectInv
<1>1. PICK n \in ConnType : n = FreeConn /\ n.given = "none" /\ n.edge = "none" /\ n.origin = "none"
  BY FreeDirect
<1>2. PICK m \in StreamType : m = FreeStream /\ StreamRight(m)
  BY FreeDirect
<1>3. PICK e \in KeeperType : e = IdleKeeper /\ e.st = "idle" /\ e.conn = DNone
  BY FreeDirect
<1>4. /\ conns \in [DConns -> ConnType] /\ \A c \in DConns : conns[c] = n
      /\ streams \in [DStreams -> StreamType] /\ \A s \in DStreams : streams[s] = m
      /\ keepers \in [DKeepers -> KeeperType] /\ \A k \in DKeepers : keepers[k] = e
  BY <1>1, <1>2, <1>3 DEF DirectInit
<1>5. sessions \in Seq(DConns) /\ IsInjective(sessions) /\ ToSet(sessions) = {}
  BY DEF DirectInit, IsInjective, ToSet
<1>6. dsame \in BOOLEAN
  BY Zenon DEF DirectInit
<1>7. DirectTypeOK
  BY <1>4, <1>5, <1>6, NoConn DEF DirectInit, DirectTypeOK
<1>8. DTokenOK /\ DStreamOK
  BY <1>1, <1>2, <1>4 DEF DTokenOK, ConnRight, DStreamOK
<1>9. DKeeperOK /\ DListOK
  BY <1>3, <1>4, <1>5, NoConn DEF DKeeperOK, DListOK
<1> QED
  BY <1>7, <1>8, <1>9 DEF DirectInv

LEMMA DirectStep == ASSUME DirectInv, [DirectNext]_dvars PROVE DirectInv'
<1>1. CASE \E k \in DKeepers : KeeperStep(k)
  BY <1>1, EdgeUpKeeps, removeSessionKeeps, sleepUntilKeeps, DirectDialFailsKeeps, dialSessionKeeps DEF KeeperStep
<1>2. CASE \E c \in DConns : ConnStep(c) \/ LinkCut(c) \/ StrangerDials(c) \/ StrangerProves(c) \/ StrangerLeaves(c)
  BY <1>2, ConnStepKeeps, StrangerKeeps
<1>3. CASE \E s \in DStreams : openStream(s) \/ StreamStep(s) \/ EdgePipeEnds(s) \/ OriginPipeEnds(s)
  BY <1>3, openStreamKeeps, readRequestKeeps, dialBackendKeeps, StreamJoinedKeeps, EndClosesKeeps DEF StreamStep
<1>4. CASE NoneUsable \/ EdgeStops \/ UNCHANGED dvars
  BY <1>4, EdgeStopsKeeps
<1> QED
  BY <1>1, <1>2, <1>3, <1>4 DEF DirectNext

LEMMA DirectFollows == ASSUME DirectInv PROVE DirectTypeOK /\ DirectIsRight
<1>1. SessionsProved
  <2>1. \A k, l \in DKeepers : keepers[k].st = "up" /\ keepers[k].conn = keepers[l].conn => k = l
    BY DEF DirectInv, DKeeperOK
  <2> QED
    BY <2>1 DEF DirectInv, DTokenOK, ConnRight, DListOK, SessionsProved
<1>2. JoinedToBackend
  BY DEF DirectInv, DStreamOK, StreamRight, JoinedToBackend
<1> QED
  BY <1>1, <1>2 DEF DirectInv, DirectIsRight

(* direct/edge.go, origin.go and handshake.go, for any number of keepers,   *)
(* connections, streams, strangers and failures: the edge proves the token  *)
(* to, and serves, only an origin that holds it; the origin serves only an  *)
(* edge that holds it, whatever proofs strangers give; Edge.sessions lists  *)
(* exactly the keepers' sessions; and a user is joined only to a stream     *)
(* whose backend was reached.                                               *)
THEOREM DirectStaysRight == DirectSpec => []DirectIsRight
<1>1. DirectInit => DirectInv
  BY DirectStart
<1>2. DirectInv /\ [DirectNext]_dvars => DirectInv'
  BY DirectStep
<1>3. DirectInv => DirectIsRight
  BY DirectFollows
<1> QED
  BY <1>1, <1>2, <1>3, PTL DEF DirectSpec

-----------------------------------------------------------------------------
(* Endpoints. *)

(* The streak is of checks the candidate won.                               *)
SteerOK ==
  /\ candidate = NoCandidate => streak = 0
  /\ streak <= Len(verdicts)
  /\ \A i \in 1 .. streak : verdicts[i].best = candidate /\ verdicts[i].wins

EndInv == EndpointsTypeOK /\ SteerOK

LEMMA EndBounds == /\ NumEndpoints \in Nat /\ NumEndpoints > 0 /\ NeedStreak \in Nat /\ NeedStreak > 0
                   /\ NoCandidate \notin Positions /\ 0 \in Positions /\ Positions \subseteq Nat
BY EndpointAssumption DEF NoCandidate, Positions

LEMMA CurrentTyped == ASSUME EndInv PROVE Current \in Positions
BY DEF EndInv, EndpointsTypeOK, Current

LEMMA Stepped == ASSUME NEW i \in Positions PROVE (i + 1) % NumEndpoints \in Positions
<1>1. i + 1 \in Nat /\ NumEndpoints \in Nat \ {0}
  BY EndBounds
<1> QED
  BY <1>1, Modulo DEF Positions

LEMMA EndUnchanged == ASSUME EndInv, UNCHANGED endpointVars PROVE EndInv' /\ steer' = steer /\ idx' = idx
<1>1. UNCHANGED <<idx, spreadIdx, preferred, candidate, streak, verdicts>> /\ steer' = steer /\ spread' = spread
  BY DEF endpointVars
<1>2. steer' \in BOOLEAN /\ spread' \in BOOLEAN
  BY <1>1, Zenon DEF EndInv, EndpointsTypeOK
<1> QED
  BY <1>1, <1>2 DEF EndInv, EndpointsTypeOK, SteerOK

LEMMA RotateKeeps == ASSUME EndInv, Rotate PROVE EndInv' /\ steer' = steer
<1>1. UNCHANGED <<spreadIdx, candidate, streak, verdicts>> /\ steer' = steer /\ spread' = spread
  BY DEF Rotate
<1>2. steer' \in BOOLEAN /\ spread' \in BOOLEAN
  BY <1>1, Zenon DEF EndInv, EndpointsTypeOK
<1>3. idx' \in Positions /\ preferred' \in Positions
  BY Stepped DEF EndInv, EndpointsTypeOK, Rotate
<1> QED
  BY <1>1, <1>2, <1>3 DEF EndInv, EndpointsTypeOK, SteerOK

LEMMA NextKeeps == ASSUME EndInv, NEW at, Next(at) PROVE EndInv' /\ steer' = steer /\ idx' = idx /\ preferred' = preferred
<1>1. UNCHANGED <<idx, preferred, candidate, streak, verdicts>> /\ steer' = steer /\ spread' = spread
  BY DEF Next
<1>2. steer' \in BOOLEAN /\ spread' \in BOOLEAN
  BY <1>1, Zenon DEF EndInv, EndpointsTypeOK
<1>3. spreadIdx' \in Positions
  BY Stepped DEF EndInv, EndpointsTypeOK, Next
<1> QED
  BY <1>1, <1>2, <1>3 DEF EndInv, EndpointsTypeOK, SteerOK

(* The history takes the latest verdict in front, and forgets the oldest.   *)
LEMMA NotedRight ==
  ASSUME EndInv, NEW best \in Positions, NEW wins \in BOOLEAN, NEW dead \in BOOLEAN, Noted(best, wins, dead)
  PROVE  /\ verdicts' \in Seq(Verdict)
         /\ Len(verdicts') = IF Len(verdicts) < NeedStreak THEN Len(verdicts) + 1 ELSE NeedStreak
         /\ verdicts'[1].best = best /\ (verdicts'[1].wins <=> wins) /\ (verdicts'[1].dead <=> dead)
         /\ \A i \in 2 .. Len(verdicts') : verdicts'[i] = verdicts[i - 1]
<1> DEFINE v == [best |-> best, wins |-> wins, dead |-> dead]
           m == IF Len(verdicts) < NeedStreak THEN Len(verdicts) + 1 ELSE NeedStreak
           w == <<v>> \o verdicts
<1>1. v \in Verdict /\ v.best = best /\ (v.wins <=> wins) /\ (v.dead <=> dead)
  BY DEF Verdict
<1>2. verdicts' = SubSeq(w, 1, m)
  BY DEF Noted
<1> HIDE DEF v
<1>3. verdicts \in Seq(Verdict) /\ Len(verdicts) \in Nat /\ Len(verdicts) <= NeedStreak /\ NeedStreak \in Nat /\ NeedStreak > 0
  BY EndBounds DEF EndInv, EndpointsTypeOK
<1>4. <<v>> \in Seq(Verdict) /\ Len(<<v>>) = 1 /\ <<v>>[1] = v
  BY <1>1
<1>5. /\ w \in Seq(Verdict) /\ Len(w) = Len(<<v>>) + Len(verdicts)
      /\ \A i \in 1 .. Len(<<v>>) + Len(verdicts) : w[i] = IF i <= Len(<<v>>) THEN <<v>>[i] ELSE verdicts[i - Len(<<v>>)]
  BY <1>3, <1>4, ConcatProperties
<1>6. Len(w) = Len(verdicts) + 1 /\ w[1] = v /\ \A i \in 2 .. Len(verdicts) + 1 : w[i] = verdicts[i - 1]
  BY <1>3, <1>4, <1>5
<1> HIDE DEF w
<1>7. m \in Nat /\ m >= 1 /\ m <= Len(verdicts) + 1 /\ m <= NeedStreak
  BY <1>3
<1> HIDE DEF m
<1>8. verdicts' \in Seq(Verdict) /\ Len(verdicts') = m /\ \A i \in 1 .. m : verdicts'[i] = w[i]
  BY <1>2, <1>5, <1>6, <1>7
<1>9. verdicts'[1] = v /\ \A i \in 2 .. m : verdicts'[i] = verdicts[i - 1]
  BY <1>3, <1>6, <1>7, <1>8
<1> QED
  BY <1>1, <1>8, <1>9 DEF m

(* One check keeps the streak true, and moves only for one that earned it.  *)
LEMMA steerLoopKeeps ==
  ASSUME EndInv, NEW up \in SUBSET Positions, NEW best \in Positions, NEW clear \in BOOLEAN, steerLoop(up, best, clear)
  PROVE  EndInv' /\ steer' = steer /\ idx' = idx /\ SteersWhenEarned
<1>1. UNCHANGED <<idx, spreadIdx>> /\ steer' = steer /\ spread' = spread
  BY DEF steerLoop
<1>2. steer' \in BOOLEAN /\ spread' \in BOOLEAN
  BY <1>1, Zenon DEF EndInv, EndpointsTypeOK
<1>3. CASE UNCHANGED <<preferred, candidate, streak, verdicts>>
  BY <1>1, <1>2, <1>3 DEF EndInv, EndpointsTypeOK, SteerOK, SteersWhenEarned
<1>4. CASE ~UNCHANGED <<preferred, candidate, streak, verdicts>>
  <2>1. PICK wins \in BOOLEAN : wins <=> (best # preferred /\ (clear \/ preferred \notin up))
    BY Zenon
  <2>2. PICK dead \in BOOLEAN : dead <=> preferred \notin up
    BY Zenon
  <2>3. Noted(best, best # preferred /\ (clear \/ preferred \notin up), preferred \notin up)
    BY <1>4 DEF steerLoop
  <2>4. Noted(best, wins, dead)
    <3>1. wins = (best # preferred /\ (clear \/ preferred \notin up)) /\ dead = (preferred \notin up)
      BY <2>1, <2>2, Zenon
    <3> QED
      BY <2>3, <3>1, Zenon
  <2>5. /\ verdicts' \in Seq(Verdict)
        /\ Len(verdicts') = IF Len(verdicts) < NeedStreak THEN Len(verdicts) + 1 ELSE NeedStreak
        /\ verdicts'[1].best = best /\ (verdicts'[1].wins <=> wins) /\ (verdicts'[1].dead <=> dead)
        /\ \A i \in 2 .. Len(verdicts') : verdicts'[i] = verdicts[i - 1]
    BY <2>4, NotedRight
  <2>6. /\ NeedStreak \in Nat /\ NeedStreak > 0 /\ streak \in 0 .. NeedStreak - 1 /\ verdicts \in Seq(Verdict)
        /\ Len(verdicts) \in Nat /\ Len(verdicts) <= NeedStreak /\ streak <= Len(verdicts)
        /\ candidate \in Positions \cup {NoCandidate} /\ preferred \in Positions
        /\ idx \in Positions /\ spreadIdx \in Positions
        /\ candidate = NoCandidate => streak = 0
    BY EndBounds DEF EndInv, EndpointsTypeOK, SteerOK
  <2>7. Len(verdicts') \in Nat /\ Len(verdicts') >= 1 /\ Len(verdicts') <= NeedStreak
    BY <2>5, <2>6
  <2>8. CASE best = preferred \/ (preferred \in up /\ ~clear)
    <3>1. candidate' = NoCandidate /\ streak' = 0 /\ preferred' = preferred
      BY <1>4, <2>8 DEF steerLoop, Steady
    <3> QED
      BY <1>1, <1>2, <2>5, <2>6, <2>7, <3>1 DEF EndInv, EndpointsTypeOK, SteerOK, SteersWhenEarned
  <2>9. CASE ~(best = preferred \/ (preferred \in up /\ ~clear))
    <3>1. wins
      BY <2>1, <2>9
    <3>2. Challenge(best, preferred \notin up)
      BY <1>4, <2>9 DEF steerLoop
    <3>3. won(best) \in Nat /\ won(best) >= 1 /\ won(best) <= NeedStreak /\ won(best) <= streak + 1
      BY <2>6 DEF won
    <3>4. ASSUME NEW i \in 1 .. won(best), i <= Len(verdicts') PROVE verdicts'[i].best = best /\ verdicts'[i].wins
      <4>1. CASE i = 1
        BY <2>5, <3>1, <4>1
      <4>2. CASE i # 1
        <5>1. i \in 2 .. Len(verdicts') /\ i - 1 \in 1 .. streak /\ candidate = best
          BY <2>6, <2>7, <3>3, <3>4, <4>2 DEF won
        <5>2. verdicts[i - 1].best = candidate /\ verdicts[i - 1].wins
          BY <5>1 DEF EndInv, SteerOK
        <5> QED
          BY <2>5, <5>1, <5>2
      <4> QED
        BY <4>1, <4>2
    <3>5. won(best) <= Len(verdicts')
      BY <2>5, <2>6, <3>3
    <3>6. CASE preferred \notin up \/ won(best) >= NeedStreak
      <4>1. preferred' = best /\ candidate' = NoCandidate /\ streak' = 0
        BY <3>2, <3>6 DEF Challenge
      <4>2. EndInv'
        BY <1>1, <1>2, <2>5, <2>6, <2>7, <4>1 DEF EndInv, EndpointsTypeOK, SteerOK
      <4>3. SteersWhenEarned
        <5>1. CASE preferred \notin up
          BY <2>2, <2>5, <5>1 DEF SteersWhenEarned
        <5>2. CASE won(best) >= NeedStreak
          <6>1. won(best) = NeedStreak /\ Len(verdicts') = NeedStreak
            BY <2>6, <2>7, <3>3, <3>5, <5>2
          <6>2. \A i \in 1 .. NeedStreak : verdicts'[i].best = best /\ verdicts'[i].wins
            BY <3>4, <6>1
          <6> QED
            BY <4>1, <6>1, <6>2 DEF SteersWhenEarned
        <5> QED
          BY <3>6, <5>1, <5>2
      <4> QED
        BY <1>1, <4>2, <4>3
    <3>7. CASE ~(preferred \notin up \/ won(best) >= NeedStreak)
      <4>1. candidate' = best /\ streak' = won(best) /\ preferred' = preferred
        BY <3>2, <3>7 DEF Challenge
      <4>2. streak' \in 0 .. NeedStreak - 1 /\ best # NoCandidate
        BY <2>6, <3>3, <3>7, <4>1, EndBounds
      <4>3. EndpointsTypeOK'
        BY <1>1, <1>2, <2>5, <2>6, <2>7, <4>1, <4>2 DEF EndpointsTypeOK
      <4>4. SteerOK'
        <5>1. \A i \in 1 .. streak' : verdicts'[i].best = candidate' /\ verdicts'[i].wins
          BY <2>7, <3>3, <3>4, <3>5, <4>1
        <5> QED
          BY <3>5, <4>1, <4>2, <5>1 DEF SteerOK
      <4> QED
        BY <1>1, <4>1, <4>3, <4>4 DEF EndInv, SteersWhenEarned
    <3> QED
      BY <3>6, <3>7
  <2> QED
    BY <2>8, <2>9
<1> QED
  BY <1>3, <1>4

-----------------------------------------------------------------------------
(* ClientControl. *)

Flag(f) == IF f THEN 1 ELSE 0

CBools == legacy \in BOOLEAN /\ answered \in BOOLEAN /\ reader \in BOOLEAN /\ handler \in BOOLEAN /\ restarting \in BOOLEAN
CRest  == /\ dialer \in {"off", "dialing", "awaiting", "waiting"} /\ sent \in {"v1", "v2"} /\ misses \in 0 .. 2
          /\ conn \in {"none", "up", "closed"} /\ on \in Positions
          /\ msgChan \in Seq(Messages) /\ Len(msgChan) <= 1 /\ pending \in 0 .. 2
          /\ status \in {"Disconnected", "Connected"} /\ faults \in 0 .. MaxFaults

(* The dialer runs only when nothing of the last generation is left, and    *)
(* what can still ask for a Restart is bounded by what runs.                *)
CDialOK ==
  /\ dialer # "off" => conn = "none" /\ pending = 0 /\ ~reader /\ ~handler /\ ~restarting
  /\ pending + Flag(reader) + Flag(handler) <= 2

(* legacyProbe falls back after enough misses, and never once answered.     *)
CProbeOK ==
  /\ answered => ~legacy
  /\ ~legacy => misses < 2
  /\ dialer = "awaiting" /\ transport \in Probing => (sent = "v1" <=> legacy)

(* What is dialled is where the cursor is.                                  *)
COnOK == (dialer = "awaiting" \/ conn = "up") /\ ~steer => idx = on

ClientInv == EndInv /\ CBools /\ CRest /\ CDialOK /\ CProbeOK /\ COnOK

LEMMA Faulty == ASSUME ClientInv, Fault \/ UNCHANGED faults PROVE faults' \in 0 .. MaxFaults
BY FaultAssumption DEF ClientInv, CRest, Fault

(* A step of the dialer that leaves it waiting or dialling.                 *)
LEMMA DialerKeeps ==
  ASSUME ClientInv, dialer # "off", dialer' \in {"dialing", "waiting"}, EndInv', CProbeOK', legacy' \in BOOLEAN,
         answered' \in BOOLEAN, misses' \in 0 .. 2, Fault \/ UNCHANGED faults,
         UNCHANGED <<sent, conn, on, msgChan, pending, status>>,
         reader' = reader, handler' = handler, restarting' = restarting
  PROVE  ClientInv'
<1>1. CBools'
  BY Zenon DEF ClientInv, CBools
<1>2. CRest'
  BY Faulty DEF ClientInv, CRest
<1>3. CDialOK'
  BY DEF ClientInv, CDialOK, Flag
<1>4. COnOK'
  BY DEF ClientInv, CDialOK, COnOK
<1> QED
  BY <1>1, <1>2, <1>3, <1>4 DEF ClientInv

LEMMA ProbeStays ==
  ASSUME ClientInv, UNCHANGED probeVars, dialer' # "awaiting"
  PROVE  CProbeOK' /\ legacy' \in BOOLEAN /\ answered' \in BOOLEAN /\ misses' \in 0 .. 2
<1>1. legacy' = legacy /\ answered' = answered /\ misses' = misses
  BY DEF probeVars
<1>2. legacy' \in BOOLEAN /\ answered' \in BOOLEAN
  BY <1>1, Zenon DEF ClientInv, CBools
<1> QED
  BY <1>1, <1>2 DEF ClientInv, CRest, CProbeOK

LEMMA DialFailsKeeps == ASSUME ClientInv, DialFails PROVE ClientInv'
<1>1. /\ dialer = "dialing" /\ dialer' = "waiting" /\ Rotate /\ UNCHANGED probeVars /\ (Fault \/ UNCHANGED faults)
      /\ UNCHANGED <<sent, conn, on, msgChan, pending, status>>
      /\ reader' = reader /\ handler' = handler /\ restarting' = restarting
  BY DEF DialFails, channelVars
<1>2. EndInv'
  BY <1>1, RotateKeeps DEF ClientInv
<1>3. CProbeOK' /\ legacy' \in BOOLEAN /\ answered' \in BOOLEAN /\ misses' \in 0 .. 2
  BY <1>1, ProbeStays
<1> QED
  BY <1>1, <1>2, <1>3, DialerKeeps

LEMMA RetriesKeeps == ASSUME ClientInv, Retries PROVE ClientInv'
<1>1. /\ dialer = "waiting" /\ dialer' = "dialing" /\ UNCHANGED endpointVars /\ UNCHANGED probeVars /\ UNCHANGED faults
      /\ UNCHANGED <<sent, conn, on, msgChan, pending, status>>
      /\ reader' = reader /\ handler' = handler /\ restarting' = restarting
  BY DEF Retries, channelVars
<1>2. EndInv'
  BY <1>1, EndUnchanged DEF ClientInv
<1>3. CProbeOK' /\ legacy' \in BOOLEAN /\ answered' \in BOOLEAN /\ misses' \in 0 .. 2
  BY <1>1, ProbeStays
<1> QED
  BY <1>1, <1>2, <1>3, DialerKeeps

LEMMA ClaimsKeeps == ASSUME ClientInv, Claims PROVE ClientInv'
<1>1. /\ dialer = "dialing" /\ dialer' = "awaiting" /\ sent' = signal /\ on' = Current
      /\ legacy' = legacy /\ answered' = answered /\ transport' = transport
      /\ reader' = reader /\ handler' = handler /\ restarting' = restarting
      /\ UNCHANGED <<misses, conn, msgChan, pending, status, faults>> /\ UNCHANGED endpointVars
  BY DEF Claims, channelVars, probeVars, rigidVars
<1>2. EndInv' /\ steer' = steer /\ idx' = idx
  BY <1>1, EndUnchanged DEF ClientInv
<1>3. CBools'
  BY <1>1, Zenon DEF ClientInv, CBools
<1>4. sent' \in {"v1", "v2"} /\ (transport \in Probing => (sent' = "v1" <=> legacy))
  BY <1>1 DEF signal
<1>5. on' \in Positions /\ (~steer => on' = idx)
  BY <1>1, CurrentTyped DEF ClientInv, Current
<1>6. CRest'
  BY <1>1, <1>4, <1>5 DEF ClientInv, CRest
<1>7. CDialOK'
  BY <1>1 DEF ClientInv, CDialOK, Flag
<1>8. CProbeOK'
  BY <1>1, <1>4 DEF ClientInv, CProbeOK
<1>9. COnOK'
  BY <1>1, <1>2, <1>5 DEF COnOK
<1> QED
  BY <1>2, <1>3, <1>6, <1>7, <1>8, <1>9 DEF ClientInv

(* A claim that was closed without an answer counts against the present     *)
(* handshake, unless the server is known to speak it.                       *)
LEMMA missRight ==
  ASSUME ClientInv, dialer = "awaiting", transport \in Probing, miss(sent), dialer' # "awaiting"
  PROVE  CProbeOK' /\ legacy' \in BOOLEAN /\ answered' \in BOOLEAN /\ misses' \in 0 .. 2
<1>1. CASE sent # "v2" \/ answered
  <2>1. UNCHANGED probeVars
    BY <1>1 DEF miss
  <2> QED
    BY <2>1, ProbeStays
<1>2. CASE ~(sent # "v2" \/ answered)
  <2>1. misses' = misses + 1 /\ legacy' = (legacy \/ misses + 1 >= 2) /\ answered' = answered
    BY <1>2 DEF miss, legacyMissThreshold
  <2>2. legacy' \in BOOLEAN
    <3>1. (legacy \/ misses + 1 >= 2) \in BOOLEAN
      BY Zenon
    <3> QED
      BY <2>1, <3>1, Zenon
  <2>3. legacy' <=> (legacy \/ misses + 1 >= 2)
    BY <2>1, Zenon
  <2>4. answered' \in BOOLEAN /\ ~answered'
    BY <1>2, <2>1, Zenon DEF ClientInv, CBools
  <2>5. ~legacy /\ misses \in 0 .. 1
    BY <1>2 DEF ClientInv, CProbeOK, CRest
  <2>6. misses' \in 0 .. 2 /\ (~legacy' => misses' < 2)
    BY <2>1, <2>3, <2>5
  <2> QED
    BY <2>2, <2>4, <2>6 DEF CProbeOK
<1> QED
  BY <1>1, <1>2

LEMMA NoAnswerKeeps == ASSUME ClientInv, NEW rotates, NoAnswer(rotates) PROVE ClientInv'
<1>1. /\ dialer = "awaiting" /\ dialer' = "waiting" /\ (Fault \/ UNCHANGED faults)
      /\ Rotate \/ UNCHANGED endpointVars
      /\ (transport \in Probing /\ miss(sent)) \/ UNCHANGED probeVars
      /\ UNCHANGED <<sent, conn, on, msgChan, pending, status>>
      /\ reader' = reader /\ handler' = handler /\ restarting' = restarting
  BY DEF NoAnswer, channelVars
<1>2. EndInv'
  BY <1>1, RotateKeeps, EndUnchanged DEF ClientInv
<1>3. CProbeOK' /\ legacy' \in BOOLEAN /\ answered' \in BOOLEAN /\ misses' \in 0 .. 2
  BY <1>1, ProbeStays, missRight
<1> QED
  BY <1>1, <1>2, <1>3, DialerKeeps

LEMMA RefusedKeeps == ASSUME ClientInv, Refused PROVE ClientInv'
<1>1. /\ dialer = "awaiting" /\ dialer' = "waiting" /\ (Fault \/ UNCHANGED faults) /\ UNCHANGED endpointVars
      /\ (misses' = 0 /\ legacy' = legacy /\ answered' = answered) \/ UNCHANGED probeVars
      /\ UNCHANGED <<sent, conn, on, msgChan, pending, status>>
      /\ reader' = reader /\ handler' = handler /\ restarting' = restarting
  BY DEF Refused, ack, channelVars
<1>2. EndInv'
  BY <1>1, EndUnchanged DEF ClientInv
<1>3. CProbeOK' /\ legacy' \in BOOLEAN /\ answered' \in BOOLEAN /\ misses' \in 0 .. 2
  <2>1. CASE UNCHANGED probeVars
    BY <1>1, <2>1, ProbeStays
  <2>2. CASE misses' = 0 /\ legacy' = legacy /\ answered' = answered
    <3>1. legacy' \in BOOLEAN /\ answered' \in BOOLEAN
      BY <2>2, Zenon DEF ClientInv, CBools
    <3> QED
      BY <1>1, <2>2, <3>1 DEF ClientInv, CProbeOK
  <2> QED
    BY <1>1, <2>1, <2>2
<1> QED
  BY <1>1, <1>2, <1>3, DialerKeeps

LEMMA NotSentKeeps == ASSUME ClientInv, NotSent PROVE ClientInv'
<1>1. /\ dialer = "dialing" /\ dialer' = "waiting" /\ UNCHANGED endpointVars /\ UNCHANGED probeVars
      /\ (Fault \/ UNCHANGED faults) /\ UNCHANGED <<sent, conn, on, msgChan, pending, status>>
      /\ reader' = reader /\ handler' = handler /\ restarting' = restarting
  BY DEF NotSent, channelVars
<1>2. EndInv'
  BY <1>1, EndUnchanged DEF ClientInv
<1>3. CProbeOK' /\ legacy' \in BOOLEAN /\ answered' \in BOOLEAN /\ misses' \in 0 .. 2
  BY <1>1, ProbeStays
<1> QED
  BY <1>1, <1>2, <1>3, DialerKeeps

LEMMA EstablishedKeeps == ASSUME ClientInv, Established PROVE ClientInv'
<1>1. /\ dialer # "off" /\ dialer' = "off" /\ conn' = "up" /\ status' = "Connected" /\ msgChan' = <<>>
      /\ reader' = TRUE /\ handler' = TRUE /\ restarting' = restarting /\ UNCHANGED <<sent, pending, faults>>
      /\ UNCHANGED endpointVars
  BY DEF Established, StaysThere
<1>2. EndInv' /\ steer' = steer /\ idx' = idx
  BY <1>1, EndUnchanged DEF ClientInv
<1>3. CProbeOK' /\ legacy' \in BOOLEAN /\ answered' \in BOOLEAN /\ misses' \in 0 .. 2
  <2>1. ASSUME UNCHANGED probeVars PROVE CProbeOK' /\ legacy' \in BOOLEAN /\ answered' \in BOOLEAN /\ misses' \in 0 .. 2
    BY <1>1, <2>1, ProbeStays
  <2>2. ASSUME ack(sent) PROVE CProbeOK' /\ legacy' \in BOOLEAN /\ answered' \in BOOLEAN /\ misses' \in 0 .. 2
    <3>1. misses' = 0 /\ ((answered' = TRUE /\ legacy' = FALSE) \/ (answered' = answered /\ legacy' = legacy))
      BY <2>2, Zenon DEF ack
    <3>2. legacy' \in BOOLEAN /\ answered' \in BOOLEAN
      BY <3>1, Zenon DEF ClientInv, CBools
    <3>3. answered' => ~legacy'
      BY <3>1, Zenon DEF ClientInv, CProbeOK
    <3> QED
      BY <1>1, <3>1, <3>2, <3>3 DEF CProbeOK
  <2> QED
    BY <2>1, <2>2 DEF Established
<1>4. CBools'
  BY <1>1, <1>3, Zenon DEF ClientInv, CBools
<1>5. on' \in Positions /\ (~steer => on' = idx)
  <2>1. CASE transport \in Websocket
    BY <2>1, CurrentTyped DEF Established, StaysThere, ClientInv, Current
  <2>2. CASE transport \notin Websocket
    BY <2>2 DEF Established, ClientInv, COnOK, CRest
  <2> QED
    BY <2>1, <2>2
<1>6. CRest'
  BY <1>1, <1>3, <1>5 DEF ClientInv, CRest
<1>7. CDialOK'
  BY <1>1 DEF ClientInv, CDialOK, Flag
<1>8. COnOK'
  BY <1>2, <1>5 DEF COnOK
<1> QED
  BY <1>2, <1>3, <1>4, <1>6, <1>7, <1>8 DEF ClientInv

LEMMA channelDialerKeeps == ASSUME ClientInv, channelDialer PROVE ClientInv'
BY DialFailsKeeps, NotSentKeeps, ClaimsKeeps, RetriesKeeps, NoAnswerKeeps, RefusedKeeps, EstablishedKeeps
DEF channelDialer, TcpChannelDialer, TcpMuxChannelDialer, UdpChannelDialer, KcpChannelDialer, QuicChannelDialer,
    WsChannelDialer, WsMuxChannelDialer

-----------------------------------------------------------------------------
(* What happens while the dialer is off. *)

(* A step of the reader, the handler, the peer or a Restart that only ends  *)
(* things: it asks for a Restart by ending what may ask for one.            *)
LEMMA ChannelKeeps ==
  ASSUME ClientInv, EndInv', steer' = steer, idx' = idx, dialer' = dialer, transport' = transport,
         UNCHANGED <<sent, on, status>>, UNCHANGED probeVars, Fault \/ UNCHANGED faults,
         conn' \in {"none", "up", "closed"}, conn' = "up" => conn = "up", dialer # "off" => conn' = conn,
         msgChan' \in Seq(Messages), Len(msgChan') <= 1,
         reader' \in BOOLEAN, handler' \in BOOLEAN, restarting' \in BOOLEAN,
         pending' \in Nat, pending' + Flag(reader') + Flag(handler') <= 2,
         dialer # "off" => pending' = 0 /\ ~reader' /\ ~handler' /\ ~restarting'
  PROVE  ClientInv'
<1>1. legacy' = legacy /\ answered' = answered /\ misses' = misses
  BY DEF probeVars
<1>2. CBools'
  BY <1>1, Zenon DEF ClientInv, CBools
<1>3. pending' \in 0 .. 2
  <2>1. Flag(reader') \in Nat /\ Flag(handler') \in Nat
    BY DEF Flag
  <2> QED
    BY <2>1
<1>4. CRest'
  BY <1>1, <1>3, Faulty DEF ClientInv, CRest
<1>5. CDialOK'
  BY DEF ClientInv, CDialOK, Flag
<1>6. CProbeOK'
  BY <1>1 DEF ClientInv, CProbeOK
<1>7. COnOK'
  BY DEF ClientInv, COnOK
<1> QED
  BY <1>2, <1>4, <1>5, <1>6, <1>7 DEF ClientInv

(* What an invariant state says of the channel, in the form ChannelKeeps    *)
(* takes it.                                                                *)
LEMMA ChannelHas ==
  ASSUME ClientInv
  PROVE  /\ conn \in {"none", "up", "closed"} /\ msgChan \in Seq(Messages) /\ Len(msgChan) <= 1
         /\ reader \in BOOLEAN /\ handler \in BOOLEAN /\ restarting \in BOOLEAN
         /\ pending \in Nat /\ pending + Flag(reader) + Flag(handler) <= 2
         /\ dialer # "off" => conn = "none" /\ pending = 0 /\ ~reader /\ ~handler /\ ~restarting
         /\ EndInv
<1>1. reader \in BOOLEAN /\ handler \in BOOLEAN /\ restarting \in BOOLEAN
  BY Zenon DEF ClientInv, CBools
<1> QED
  BY <1>1 DEF ClientInv, CRest, CDialOK

LEMMA ReceiveKeeps == ASSUME ClientInv, NEW m \in Messages, Receive(m) PROVE ClientInv'
<1>1. /\ dialer' = dialer /\ transport' = transport /\ conn' = conn /\ msgChan' = <<m>>
      /\ reader' = reader /\ handler' = handler /\ restarting' = restarting /\ pending' = pending
      /\ UNCHANGED <<sent, on, status>> /\ UNCHANGED probeVars /\ UNCHANGED endpointVars /\ (Fault \/ UNCHANGED faults)
  BY DEF Receive, rigidVars
<1>2. EndInv' /\ steer' = steer /\ idx' = idx
  BY <1>1, EndUnchanged DEF ClientInv
<1>3. msgChan' \in Seq(Messages) /\ Len(msgChan') <= 1
  BY <1>1
<1>4. Flag(reader') = Flag(reader) /\ Flag(handler') = Flag(handler)
  BY <1>1
<1> QED
  BY <1>1, <1>2, <1>3, <1>4, ChannelHas, ChannelKeeps

LEMMA BreaksKeeps == ASSUME ClientInv, Breaks PROVE ClientInv'
<1>1. /\ dialer' = dialer /\ transport' = transport /\ conn = "up" /\ conn' = "closed" /\ msgChan' = msgChan
      /\ reader' = reader /\ handler' = handler /\ restarting' = restarting /\ pending' = pending
      /\ UNCHANGED <<sent, on, status>> /\ UNCHANGED probeVars /\ UNCHANGED endpointVars /\ Fault
  BY DEF Breaks, rigidVars, channelVars
<1>2. EndInv' /\ steer' = steer /\ idx' = idx
  BY <1>1, EndUnchanged DEF ClientInv
<1>3. Flag(reader') = Flag(reader) /\ Flag(handler') = Flag(handler)
  BY <1>1
<1> QED
  BY <1>1, <1>2, <1>3, ChannelHas, ChannelKeeps

LEMMA ReadFailsKeeps == ASSUME ClientInv, ReadFails PROVE ClientInv'
<1>1. /\ dialer' = dialer /\ transport' = transport /\ conn = "closed" /\ conn' = conn /\ msgChan' = msgChan
      /\ reader /\ reader' = FALSE /\ handler' = handler /\ restarting' = restarting /\ pending' = pending + 1
      /\ UNCHANGED <<sent, on, status>> /\ UNCHANGED probeVars /\ UNCHANGED endpointVars /\ UNCHANGED faults
  BY DEF ReadFails, rigidVars
<1>2. EndInv' /\ steer' = steer /\ idx' = idx
  BY <1>1, EndUnchanged DEF ClientInv
<1>3. Flag(handler') = Flag(handler) /\ Flag(reader) = 1 /\ Flag(reader') = 0 /\ Flag(handler) \in Nat
  BY <1>1 DEF Flag
<1>4. pending' \in Nat /\ pending' + Flag(reader') + Flag(handler') <= 2
  <2>1. pending \in Nat /\ pending + Flag(reader) + Flag(handler) <= 2
    BY ChannelHas
  <2>2. pending' = pending + 1
    BY <1>1
  <2>3. pending' \in Nat
    BY <2>1, <2>2
  <2> QED
    BY <2>1, <2>2, <2>3, <1>3
<1>5. dialer = "off"
  BY <1>1, ChannelHas
<1> QED
  BY <1>1, <1>2, <1>4, <1>5, ChannelHas, ChannelKeeps

LEMMA HandlerEndsKeeps == ASSUME ClientInv, HandlerEnds PROVE ClientInv'
<1>1. /\ dialer' = dialer /\ transport' = transport /\ restarting /\ conn' = conn /\ msgChan' = msgChan
      /\ handler /\ handler' = FALSE /\ reader' = reader /\ restarting' = restarting /\ pending' = pending
      /\ UNCHANGED <<sent, on, status>> /\ UNCHANGED probeVars /\ UNCHANGED endpointVars /\ UNCHANGED faults
  BY DEF HandlerEnds, rigidVars
<1>2. EndInv' /\ steer' = steer /\ idx' = idx
  BY <1>1, EndUnchanged DEF ClientInv
<1>3. Flag(reader') = Flag(reader) /\ Flag(handler) = 1 /\ Flag(handler') = 0 /\ Flag(reader) \in Nat
  BY <1>1 DEF Flag
<1>4. pending' \in Nat /\ pending' + Flag(reader') + Flag(handler') <= 2
  <2>1. pending \in Nat /\ pending + Flag(reader) + Flag(handler) <= 2
    BY ChannelHas
  <2>2. pending' = pending
    BY <1>1
  <2>3. pending' \in Nat
    BY <2>1, <2>2
  <2> QED
    BY <2>1, <2>2, <2>3, <1>3
<1>5. dialer = "off"
  BY <1>1, ChannelHas
<1> QED
  BY <1>1, <1>2, <1>4, <1>5, ChannelHas, ChannelKeeps

LEMMA HandleMessageKeeps == ASSUME ClientInv, NEW answers, HandleMessage(answers) PROVE ClientInv'
<1>1. /\ dialer' = dialer /\ transport' = transport /\ conn' = conn /\ msgChan' = <<>>
      /\ handler /\ reader' = reader /\ restarting' = restarting
      /\ (handler' = FALSE /\ pending' = pending + 1) \/ (handler' = handler /\ pending' = pending)
      /\ UNCHANGED <<sent, on, status>> /\ UNCHANGED probeVars /\ UNCHANGED endpointVars /\ UNCHANGED faults
  BY DEF HandleMessage, rigidVars
<1>2. EndInv' /\ steer' = steer /\ idx' = idx
  BY <1>1, EndUnchanged DEF ClientInv
<1>3. msgChan' \in Seq(Messages) /\ Len(msgChan') <= 1
  BY <1>1
<1>4. Flag(reader') = Flag(reader) /\ Flag(handler) = 1 /\ Flag(reader) \in Nat
  BY <1>1 DEF Flag
<1>5. pending' \in Nat /\ pending' + Flag(reader') + Flag(handler') <= 2
  <2>1. CASE handler' = FALSE /\ pending' = pending + 1
    <3>1. Flag(handler') = 0
      BY <2>1 DEF Flag
    <3> QED
      BY <2>1, <3>1, <1>4, ChannelHas
  <2>2. CASE handler' = handler /\ pending' = pending
    BY <2>2, <1>4, ChannelHas
  <2> QED
    BY <1>1, <2>1, <2>2
<1>6. dialer = "off"
  BY <1>1, ChannelHas
<1>7. handler' \in BOOLEAN
  BY <1>1, ChannelHas
<1> QED
  BY <1>1, <1>2, <1>3, <1>5, <1>6, <1>7, ChannelHas, ChannelKeeps

LEMMA channelHandlerKeeps == ASSUME ClientInv, channelHandler PROVE ClientInv'
BY ReadFailsKeeps, HandlerEndsKeeps, HandleMessageKeeps
DEF channelHandler, TcpChannelHandler, TcpMuxChannelHandler, KcpChannelHandler, QuicChannelHandler, UdpChannelHandler,
    WsChannelHandler, WsMuxChannelHandler

LEMMA AlreadyRestartingKeeps == ASSUME ClientInv, AlreadyRestarting PROVE ClientInv'
<1>1. /\ dialer' = dialer /\ transport' = transport /\ conn' = conn /\ msgChan' = msgChan /\ restarting
      /\ reader' = reader /\ handler' = handler /\ restarting' = restarting /\ pending > 0 /\ pending' = pending - 1
      /\ UNCHANGED <<sent, on, status>> /\ UNCHANGED probeVars /\ UNCHANGED endpointVars /\ UNCHANGED faults
  BY DEF AlreadyRestarting, rigidVars, channelVars
<1>2. EndInv' /\ steer' = steer /\ idx' = idx
  BY <1>1, EndUnchanged DEF ClientInv
<1>3. Flag(reader') = Flag(reader) /\ Flag(handler') = Flag(handler) /\ Flag(reader) \in Nat /\ Flag(handler) \in Nat
  BY <1>1 DEF Flag
<1>4. pending' \in Nat /\ pending' + Flag(reader') + Flag(handler') <= 2
  BY <1>1, <1>3, ChannelHas
<1>5. dialer = "off"
  BY <1>1, ChannelHas
<1> QED
  BY <1>1, <1>2, <1>4, <1>5, ChannelHas, ChannelKeeps

LEMMA RestartStopsKeeps == ASSUME ClientInv, RestartStops PROVE ClientInv'
<1>1. /\ dialer' = dialer /\ transport' = transport /\ conn' = (IF conn = "up" THEN "closed" ELSE conn) /\ msgChan' = msgChan
      /\ reader' = reader /\ handler' = handler /\ restarting' = TRUE /\ pending > 0 /\ pending' = pending - 1
      /\ UNCHANGED <<sent, on, status>> /\ UNCHANGED probeVars /\ UNCHANGED endpointVars /\ UNCHANGED faults
  BY DEF RestartStops, rigidVars, channelVars
<1>2. EndInv' /\ steer' = steer /\ idx' = idx
  BY <1>1, EndUnchanged DEF ClientInv
<1>3. Flag(reader') = Flag(reader) /\ Flag(handler') = Flag(handler) /\ Flag(reader) \in Nat /\ Flag(handler) \in Nat
  BY <1>1 DEF Flag
<1>4. pending' \in Nat /\ pending' + Flag(reader') + Flag(handler') <= 2
  BY <1>1, <1>3, ChannelHas
<1>5. dialer = "off"
  BY <1>1, ChannelHas
<1>6. conn' \in {"none", "up", "closed"} /\ conn' # "up"
  BY <1>1, ChannelHas
<1> QED
  BY <1>1, <1>2, <1>4, <1>5, <1>6, ChannelHas, ChannelKeeps

(* Everything of the last generation has ended when the next one dials.     *)
LEMMA RestartStartsKeeps == ASSUME ClientInv, NEW probes, RestartStarts(probes) PROVE ClientInv'
<1>1. /\ dialer' = "dialing" /\ conn' = "none" /\ msgChan' = <<>> /\ status' = "Disconnected"
      /\ ~reader /\ ~handler /\ pending = 0 /\ reader' = reader /\ handler' = handler /\ restarting' = FALSE /\ pending' = pending
      /\ UNCHANGED <<sent, on, faults>> /\ UNCHANGED endpointVars
      /\ (legacy' = FALSE /\ misses' = 0 /\ answered' = answered) \/ UNCHANGED probeVars
  BY DEF RestartStarts
<1>2. EndInv'
  BY <1>1, EndUnchanged DEF ClientInv
<1>3. CProbeOK' /\ legacy' \in BOOLEAN /\ answered' \in BOOLEAN /\ misses' \in 0 .. 2
  <2>1. CASE UNCHANGED probeVars
    BY <1>1, <2>1, ProbeStays
  <2>2. CASE legacy' = FALSE /\ misses' = 0 /\ answered' = answered
    <3>1. answered' \in BOOLEAN /\ legacy' \in BOOLEAN
      BY <2>2, Zenon DEF ClientInv, CBools
    <3> QED
      BY <1>1, <2>2, <3>1 DEF CProbeOK
  <2> QED
    BY <1>1, <2>1, <2>2
<1>4. CBools'
  BY <1>1, <1>3, Zenon DEF ClientInv, CBools
<1>5. CRest'
  BY <1>1, <1>3 DEF ClientInv, CRest
<1>6. CDialOK'
  BY <1>1 DEF CDialOK, Flag
<1>7. COnOK'
  BY <1>1 DEF COnOK
<1> QED
  BY <1>2, <1>3, <1>4, <1>5, <1>6, <1>7 DEF ClientInv

LEMMA RestartKeeps == ASSUME ClientInv, Restart PROVE ClientInv'
BY AlreadyRestartingKeeps, RestartStopsKeeps, RestartStartsKeeps
DEF Restart, TcpRestart, TcpMuxRestart, KcpRestart, QuicRestart, UdpRestart, WsRestart, WsMuxRestart

(* The endpoints move by themselves, and everything else stays.             *)
LEMMA EndpointsMove ==
  ASSUME ClientInv, EndInv', steer' = steer, idx' = idx,
         UNCHANGED <<rigidVars, dialer, sent, probeVars, conn, on, channelVars, restarting, pending, status, faults>>
  PROVE  ClientInv'
<1>1. /\ dialer' = dialer /\ transport' = transport /\ conn' = conn /\ msgChan' = msgChan
      /\ reader' = reader /\ handler' = handler /\ restarting' = restarting /\ pending' = pending
      /\ UNCHANGED <<sent, on, status>> /\ UNCHANGED probeVars /\ UNCHANGED faults
  BY DEF rigidVars, channelVars
<1>2. Flag(reader') = Flag(reader) /\ Flag(handler') = Flag(handler)
  BY <1>1
<1> QED
  BY <1>1, <1>2, ChannelHas, ChannelKeeps

LEMMA SteersKeeps == ASSUME ClientInv, Steers PROVE ClientInv' /\ SteersWhenEarned
<1>1. PICK up \in SUBSET Positions, best \in Positions, clear \in BOOLEAN : steerLoop(up, best, clear)
  BY DEF Steers
<1>2. EndInv' /\ SteersWhenEarned
  BY <1>1, steerLoopKeeps DEF ClientInv
<1>3. steer' = steer /\ idx' = idx
  BY <1>1 DEF steerLoop
<1> QED
  BY <1>2, <1>3, EndpointsMove DEF Steers

LEMMA DialsPoolKeeps == ASSUME ClientInv, NEW at, DialsPool(at) PROVE ClientInv' /\ preferred' = preferred
BY NextKeeps, EndpointsMove DEF DialsPool, ClientInv

LEMMA ClientStart == ASSUME Init PROVE ClientInv
<1>1. EndInv
  <2>1. steer \in BOOLEAN /\ spread \in BOOLEAN
    <3>1. FALSE \in BOOLEAN /\ (~steer) \in BOOLEAN
      BY Zenon
    <3>2. (NumEndpoints > 1) \in BOOLEAN
      BY EndBounds, SMT
    <3> QED
      BY <3>1, <3>2, Zenon DEF Init, EndpointsInit
  <2> QED
    BY <2>1, EndBounds DEF Init, EndpointsInit, EndInv, EndpointsTypeOK, SteerOK
<1>2. CBools
  BY Zenon DEF Init, CBools
<1>3. CRest
  BY EndBounds, FaultAssumption DEF Init, CRest
<1>4. CDialOK /\ CProbeOK /\ COnOK
  BY DEF Init, CDialOK, CProbeOK, COnOK, Flag
<1> QED
  BY <1>1, <1>2, <1>3, <1>4 DEF ClientInv

LEMMA ClientStep == ASSUME ClientInv, [Step]_vars PROVE ClientInv'
<1>1. ASSUME UNCHANGED vars PROVE ClientInv'
  <2>1. UNCHANGED endpointVars /\ UNCHANGED <<rigidVars, dialer, sent, probeVars, conn, on, channelVars, restarting, pending, status, faults>>
    BY <1>1 DEF vars
  <2> QED
    BY <2>1, EndUnchanged, EndpointsMove DEF ClientInv
<1> QED
  BY <1>1, channelDialerKeeps, channelHandlerKeeps, RestartKeeps, BreaksKeeps, ReceiveKeeps, DialsPoolKeeps, SteersKeeps DEF Step

(* The dialer may turn the preferred exit only in a step that ends its      *)
(* attempt, so a step that leaves the dialer where it is is a check of      *)
(* steerLoop or leaves the exit alone.                                      *)
LEMMA SteeringStep == ASSUME ClientInv, [Step]_vars, dialer' = dialer PROVE SteersWhenEarned
<1>1. ASSUME preferred' = preferred PROVE SteersWhenEarned
  BY <1>1 DEF SteersWhenEarned
<1>2. ASSUME UNCHANGED endpointVars PROVE preferred' = preferred
  BY <1>2 DEF endpointVars
<1>3. ~channelDialer
  <2>1. ~DialFails /\ ~NotSent /\ ~Claims /\ ~Retries /\ ~Refused /\ ~NoAnswer(TRUE) /\ ~NoAnswer(FALSE)
    BY DEF DialFails, NotSent, Claims, Retries, Refused, NoAnswer
  <2>2. ~Established
    BY DEF Established
  <2> QED
    BY <2>1, <2>2 DEF channelDialer, TcpChannelDialer, TcpMuxChannelDialer, UdpChannelDialer, KcpChannelDialer,
      QuicChannelDialer, WsChannelDialer, WsMuxChannelDialer
<1>4. ASSUME channelHandler PROVE UNCHANGED endpointVars
  BY <1>4 DEF channelHandler, TcpChannelHandler, TcpMuxChannelHandler, KcpChannelHandler, QuicChannelHandler,
    UdpChannelHandler, WsChannelHandler, WsMuxChannelHandler, ReadFails, HandlerEnds, HandleMessage
<1>5. ASSUME Restart PROVE UNCHANGED endpointVars
  BY <1>5 DEF Restart, AlreadyRestarting, RestartStops, RestartStarts, TcpRestart, TcpMuxRestart, KcpRestart,
    QuicRestart, UdpRestart, WsRestart, WsMuxRestart
<1>6. ASSUME Breaks \/ (\E m \in Messages : Receive(m)) \/ UNCHANGED vars PROVE UNCHANGED endpointVars
  BY <1>6 DEF Breaks, Receive, vars
<1>7. ASSUME NEW at \in Positions, DialsPool(at) PROVE preferred' = preferred
  BY <1>7, DialsPoolKeeps
<1> QED
  BY <1>1, <1>2, <1>3, <1>4, <1>5, <1>6, <1>7, SteersKeeps DEF Step

LEMMA ClientFollows == ASSUME ClientInv PROVE TypeOK /\ NeverDowngraded /\ PoolFollowsControl
<1>1. TypeOK
  <2>1. legacyMissThreshold = 2
    BY DEF legacyMissThreshold
  <2>2. legacy \in BOOLEAN /\ answered \in BOOLEAN /\ reader \in BOOLEAN /\ handler \in BOOLEAN /\ restarting \in BOOLEAN
    BY Zenon DEF ClientInv, CBools
  <2> QED
    BY <2>1, <2>2 DEF ClientInv, CRest, EndInv, TypeOK
<1>2. NeverDowngraded
  <2>1. ASSUME answered, dialer = "awaiting", transport \in Probing PROVE sent = "v2"
    BY <2>1 DEF ClientInv, CProbeOK, CRest
  <2> QED
    BY <2>1 DEF NeverDowngraded
<1>3. PoolFollowsControl
  BY DEF ClientInv, COnOK, PoolFollowsControl, Current
<1> QED
  BY <1>1, <1>2, <1>3

-----------------------------------------------------------------------------
(* BackendPool. *)

(* A set of naturals that has a member has a least one.                     *)
LEMMA Least == ASSUME NEW T \in SUBSET Nat, T # {} PROVE \E i \in T : \A j \in T : i <= j
<1> DEFINE R == {p \in Nat \X Nat : p[1] < p[2]}
<1>1. OpToRel(<, Nat) = R
  BY DEF OpToRel
<1>2. IsWellFoundedOn(R, Nat)
  BY <1>1, NatLessThanWellFounded
<1>3. PICK i \in T : \A j \in T : ~(<<j, i>> \in R)
  BY <1>2, WFMin
<1>4. ASSUME NEW j \in T PROVE i <= j
  <2>1. i \in Nat /\ j \in Nat
    OBVIOUS
  <2>2. <<j, i>> \in R <=> j < i
    BY <2>1
  <2> QED
    BY <1>3, <2>1, <2>2
<1> QED
  BY <1>3, <1>4

(* One further on, within two rounds.                                       *)
LEMMA NextRound ==
  ASSUME NEW n \in Nat \ {0}, NEW a \in 0 .. 2 * n - 1
  PROVE  (a + 1) % n = ((a % n) + 1) % n
<1>1. CASE a < n
  <2>1. a \in 0 .. n - 1
    BY <1>1
  <2> QED
    BY <2>1, Wraps
<1>2. CASE ~(a < n)
  <2>1. PICK t \in 0 .. n - 1 : a = t + n
    <3>1. a - n \in 0 .. n - 1 /\ a = (a - n) + n
      BY <1>2
    <3> QED
      BY <3>1
  <2>2. a % n = t
    BY <2>1, Wraps
  <2>3. CASE t + 1 < n
    <3>1. PICK u \in 0 .. n - 1 : u = t + 1
      BY <2>3
    <3>2. u % n = u /\ (u + n) % n = u
      BY Wraps
    <3>3. a + 1 = u + n
      BY <2>1, <3>1
    <3> QED
      BY <2>2, <3>1, <3>2, <3>3
  <2>4. CASE ~(t + 1 < n)
    <3>1. t + 1 = n /\ a + 1 = 2 * n
      BY <2>1, <2>4
    <3>2. (2 * n) % n = 0 /\ n % n = 0
      OBVIOUS
    <3> QED
      BY <2>2, <3>1, <3>2
  <2> QED
    BY <2>3, <2>4
<1> QED
  BY <1>1, <1>2

(* From behind p one comes to p again only after all the others.            *)
LEMMA OneBehind ==
  ASSUME NEW n \in Nat \ {0}, NEW p \in 0 .. n - 1, NEW k \in 0 .. n - 1, (((p + 1) % n) + k) % n = p
  PROVE  k = n - 1
<1>1. CASE p + 1 < n
  <2>1. PICK u \in 0 .. n - 1 : u = p + 1
    BY <1>1
  <2>2. (u + k) % n = p
    BY <2>1, Wraps
  <2>3. CASE u + k < n
    <3>1. PICK v \in 0 .. n - 1 : v = u + k
      BY <2>3
    <3>2. v = p
      BY <2>2, <3>1, Wraps
    <3> QED
      BY <2>1, <3>1, <3>2
  <2>4. CASE ~(u + k < n)
    <3>1. PICK v \in 0 .. n - 1 : u + k = v + n
      <4>1. u + k - n \in 0 .. n - 1 /\ u + k = (u + k - n) + n
        BY <2>4
      <4> QED
        BY <4>1
    <3>2. v = p
      BY <2>2, <3>1, Wraps
    <3> QED
      BY <2>1, <3>1, <3>2
  <2> QED
    BY <2>3, <2>4
<1>2. CASE ~(p + 1 < n)
  <2>1. p + 1 = n /\ n % n = 0
    BY <1>2
  <2>2. k % n = p
    BY <2>1
  <2>3. k = p
    BY <2>2, Wraps
  <2> QED
    BY <2>1, <2>3
<1> QED
  BY <1>1, <1>2

LEMMA MembersBounds == Members \in Nat \ {0} /\ backendMaxGroups \in Nat \ {0} /\ backendMaxFailed \in Nat \ {0} /\ 0 \in Places /\ Places \subseteq Nat
BY BackendAssumption DEF Places

(* pick lands on the first backend in rotation after the cursor.            *)
LEMMA SkippedRight ==
  ASSUME NEW g \in Group
  PROVE  /\ Skipped(g) \in 0 .. Members /\ At(g, Skipped(g)) \in Places
         /\ g.healthy # {} => /\ Skipped(g) \in Places /\ At(g, Skipped(g)) \in g.healthy
                              /\ \A j \in 0 .. Skipped(g) - 1 : At(g, j) \notin g.healthy
<1>1. g.next \in Places /\ g.healthy \subseteq Places
  BY DEF Group
<1>2. ASSUME NEW i \in 0 .. Members PROVE At(g, i) \in Places
  <2>1. g.next + i \in Nat
    <3>1. g.next \in Nat
      BY <1>1, MembersBounds
    <3>2. Members \in Nat
      BY MembersBounds
    <3>3. i \in Nat
      BY <3>2
    <3> QED
      BY <3>1, <3>3
  <2> QED
    BY <2>1, Modulo, MembersBounds DEF At, Places
<1>3. CASE g.healthy = {}
  BY <1>2, <1>3, MembersBounds DEF Skipped
<1>4. CASE g.healthy # {}
  <2> DEFINE P(i) == At(g, i) \in g.healthy /\ \A j \in 0 .. i - 1 : At(g, j) \notin g.healthy
             T == {i \in Places : At(g, i) \in g.healthy}
  <2>1. PICK h \in g.healthy : TRUE
    BY <1>4
  <2>2. \E i \in Places : (g.next + i) % Members = h
    BY <1>1, <2>1, Reached, MembersBounds DEF Places
  <2>3. T # {} /\ T \subseteq Nat
    BY <2>1, <2>2, MembersBounds DEF At
  <2>4. PICK i \in T : \A j \in T : i <= j
    BY <2>3, Least
  <2>5. i \in Places /\ P(i)
    <3>1. ASSUME NEW j \in 0 .. i - 1 PROVE At(g, j) \notin g.healthy
      <4>1. j \in Places /\ ~(i <= j)
        BY <2>4, MembersBounds DEF Places
      <4> QED
        BY <2>4, <4>1
    <3> QED
      BY <2>4, <3>1
  <2>6. Skipped(g) = CHOOSE k \in Places : P(k)
    BY <1>4 DEF Skipped
  <2> HIDE DEF P
  <2>7. Skipped(g) \in Places /\ P(Skipped(g))
    BY <2>5, <2>6
  <2> QED
    BY <1>2, <2>7, MembersBounds DEF P, Places
<1> QED
  BY <1>3, <1>4

-----------------------------------------------------------------------------
(* The map and its order of use. *)

(* The cursor stands behind the last pick, while its group is in the map.   *)
CursorOK == ~picked.gone => picked.target \in DOMAIN groups /\ groups[picked.target].next = (picked.place + 1) % Members

Hands == [st : {"none", "map", "out"}, target : Targets \cup {"none"}, group : Group]
Picks == [target : Targets \cup {"none"}, place : Places, healthy : SUBSET Places, gone : BOOLEAN, turn : 0 .. 1]

(* The group in hand is the map's, or left a map that is full.              *)
HandOK ==
  /\ hand \in Hands
  /\ hand.st = "map" => hand.target \in DOMAIN groups
  /\ hand.st = "out" => Cardinality(DOMAIN groups) = backendMaxGroups

BackendInv == BackendTypeOK /\ GroupsBounded /\ CursorOK /\ IsFiniteSet(DOMAIN groups)

LEMMA Fronted ==
  ASSUME NEW S, NEW s \in Seq(S), NEW e \in S, IsInjective(s), e \notin ToSet(s)
  PROVE  <<e>> \o s \in Seq(S) /\ IsInjective(<<e>> \o s) /\ ToSet(<<e>> \o s) = ToSet(s) \cup {e}
<1> DEFINE d == <<e>> \o s
<1>1. <<e>> \in Seq(S) /\ Len(<<e>>) = 1 /\ <<e>>[1] = e
  OBVIOUS
<1>2. /\ d \in Seq(S) /\ Len(d) = Len(<<e>>) + Len(s)
      /\ \A i \in 1 .. Len(<<e>>) + Len(s) : d[i] = IF i <= Len(<<e>>) THEN <<e>>[i] ELSE s[i - Len(<<e>>)]
  BY <1>1, ConcatProperties
<1>3. Len(s) \in Nat /\ DOMAIN s = 1 .. Len(s)
  OBVIOUS
<1>4. Len(d) = Len(s) + 1 /\ d[1] = e /\ \A i \in 2 .. Len(s) + 1 : d[i] = s[i - 1]
  BY <1>1, <1>2, <1>3
<1>5. DOMAIN d = 1 .. Len(s) + 1
  BY <1>2, <1>4
<1> HIDE DEF d
<1>6. \A i \in 1 .. Len(s) + 1 : i = 1 \/ (i \in 2 .. Len(s) + 1 /\ i - 1 \in 1 .. Len(s))
  BY <1>3
<1>7. \A i \in 1 .. Len(s) : i + 1 \in 2 .. Len(s) + 1 /\ i + 1 - 1 = i /\ i + 1 \in 1 .. Len(s) + 1
  BY <1>3
<1>8. ToSet(d) = ToSet(s) \cup {e}
  <2>1. ASSUME NEW i \in 1 .. Len(s) + 1 PROVE d[i] \in ToSet(s) \cup {e}
    BY <1>3, <1>4, <1>6 DEF ToSet
  <2>2. ASSUME NEW i \in 1 .. Len(s) PROVE s[i] \in ToSet(d)
    <3>1. d[i + 1] = s[i] /\ i + 1 \in DOMAIN d
      BY <1>4, <1>5, <1>7
    <3> QED
      BY <3>1 DEF ToSet
  <2>3. e \in ToSet(d)
    <3>1. 1 \in DOMAIN d
      BY <1>3, <1>5
    <3> QED
      BY <1>4, <3>1 DEF ToSet
  <2> QED
    BY <1>3, <1>5, <2>1, <2>2, <2>3 DEF ToSet
<1>9. IsInjective(d)
  <2>1. ASSUME NEW i \in 1 .. Len(s) + 1, NEW j \in 1 .. Len(s) + 1, d[i] = d[j] PROVE i = j
    <3>1. \A k \in 1 .. Len(s) : s[k] # e
      BY <1>3 DEF ToSet
    <3>2. CASE i = 1
      BY <1>4, <1>6, <2>1, <3>1, <3>2
    <3>3. CASE j = 1
      BY <1>4, <1>6, <2>1, <3>1, <3>3
    <3>4. CASE i # 1 /\ j # 1
      <4>1. s[i - 1] = s[j - 1] /\ i - 1 \in DOMAIN s /\ j - 1 \in DOMAIN s
        BY <1>3, <1>4, <1>6, <2>1, <3>4
      <4>2. i - 1 = j - 1
        BY <4>1 DEF IsInjective
      <4> QED
        BY <4>2
    <3> QED
      BY <3>2, <3>3, <3>4
  <2> QED
    BY <1>5, <2>1 DEF IsInjective
<1> QED
  BY <1>2, <1>8, <1>9 DEF d

LEMMA LastOut ==
  ASSUME NEW S, NEW s \in Seq(S), IsInjective(s), s # <<>>
  PROVE  /\ Front(s) \in Seq(S) /\ IsInjective(Front(s)) /\ ToSet(Front(s)) = ToSet(s) \ {Last(s)}
         /\ Last(s) \in ToSet(s)
<1>1. Len(s) \in Nat /\ Len(s) >= 1 /\ DOMAIN s = 1 .. Len(s)
  OBVIOUS
<1> DEFINE f == SubSeq(s, 1, Len(s) - 1)
           t == SubSeq(s, Len(s) + 1, Len(s))
<1>2. t = <<>>
  BY <1>1
<1>3. f \in Seq(S)
  BY <1>1
<1>4. f \o <<>> = f
  BY <1>3, ConcatEmptySeq
<1>5. RemoveAt(s, Len(s)) = f
  BY <1>2, <1>4 DEF RemoveAt
<1>6. Len(s) \in 1 .. Len(s)
  BY <1>1
<1>7. Last(s) = s[Len(s)] /\ Front(s) = f
  BY DEF Last, Front
<1>8. Last(s) \in ToSet(s)
  BY <1>1, <1>6, <1>7 DEF ToSet
<1> HIDE DEF f, t
<1> QED
  BY <1>5, <1>6, <1>7, <1>8, TakenOut

LEMMA NewGroupTyped == NewGroup \in Group /\ NewGroup.next = 0
<1>1. 0 \in 0 .. backendMaxFailed /\ Members \in 0 .. Members /\ 0 \in Places
  BY MembersBounds
<1>2. [i \in Places |-> 0] \in [Places -> 0 .. backendMaxFailed]
  BY <1>1
<1> QED
  BY <1>1, <1>2 DEF NewGroup, Group

(* What the map holds is what the order of use lists.                       *)
LEMMA Held ==
  ASSUME BackendInv
  PROVE  /\ recent \in Seq(Targets) /\ IsInjective(recent) /\ ToSet(recent) = DOMAIN groups
         /\ DOMAIN groups \subseteq Targets /\ groups \in [DOMAIN groups -> Group] /\ IsFiniteSet(DOMAIN groups)
         /\ Cardinality(DOMAIN groups) \in Nat /\ Cardinality(DOMAIN groups) <= backendMaxGroups
<1>1. recent \in Seq(Targets) /\ DOMAIN recent = 1 .. Len(recent)
  BY DEF BackendInv, BackendTypeOK
<1>2. ToSet(recent) = DOMAIN groups
  BY <1>1 DEF BackendInv, GroupsBounded, ToSet
<1>3. Cardinality(DOMAIN groups) \in Nat
  BY FS_CardinalityType DEF BackendInv
<1> QED
  BY <1>1, <1>2, <1>3 DEF BackendInv, BackendTypeOK, GroupsBounded

(* Room is made before a group is added, and t is then the last used.       *)
LEMMA GroupRight ==
  ASSUME BackendInv, NEW t \in Targets
  PROVE  /\ group(t) \in [DOMAIN group(t) -> Group] /\ t \in DOMAIN group(t) /\ DOMAIN group(t) \subseteq Targets
         /\ IsFiniteSet(DOMAIN group(t)) /\ Cardinality(DOMAIN group(t)) <= backendMaxGroups
         /\ \A u \in DOMAIN group(t) : u \in DOMAIN groups => group(t)[u] = groups[u]
         /\ Cardinality(DOMAIN groups) = backendMaxGroups \/ ~(DOMAIN groups \subseteq DOMAIN group(t))
              => Cardinality(DOMAIN group(t)) = backendMaxGroups
         /\ Older(t) \in Seq(Targets) /\ IsInjective(Older(t)) /\ t \notin ToSet(Older(t))
         /\ ToSet(Older(t)) \cup {t} = DOMAIN group(t)
<1>1. CASE t \in DOMAIN groups
  <2>1. group(t) = groups /\ Older(t) = RemoveFirst(recent, t)
    BY <1>1 DEF group, Older
  <2>2. /\ RemoveFirst(recent, t) \in Seq(Targets) /\ IsInjective(RemoveFirst(recent, t))
        /\ ToSet(RemoveFirst(recent, t)) = DOMAIN groups \ {t}
    BY Held, FirstOut
  <2> QED
    BY <1>1, <2>1, <2>2, Held
<1>2. CASE t \notin DOMAIN groups
  <2> DEFINE E == evictOldestLocked
  <2>1. /\ group(t) = [u \in E \cup {t} |-> IF u = t THEN NewGroup ELSE groups[u]]
        /\ Older(t) = IF Full THEN Front(recent) ELSE recent
    BY <1>2 DEF group, Older
  <2>2. /\ E \subseteq DOMAIN groups /\ IsFiniteSet(E) /\ Cardinality(E) + 1 <= backendMaxGroups
        /\ Cardinality(DOMAIN groups) = backendMaxGroups \/ E # DOMAIN groups => Cardinality(E) + 1 = backendMaxGroups
        /\ Older(t) \in Seq(Targets) /\ IsInjective(Older(t)) /\ ToSet(Older(t)) = E
    <3>1. CASE Full
      <4>1. Cardinality(DOMAIN groups) >= backendMaxGroups /\ E = DOMAIN groups \ {Last(recent)} /\ Older(t) = Front(recent)
        BY <2>1, <3>1 DEF Full, evictOldestLocked
      <4>2. Cardinality(DOMAIN groups) # 0
        BY <4>1, Held, MembersBounds
      <4>3. DOMAIN groups # {}
        BY <4>2, FS_EmptySet
      <4>4. recent # <<>>
        <5>1. ToSet(<<>>) = {}
          BY DEF ToSet
        <5> QED
          BY <4>3, <5>1, Held
      <4>5. /\ Front(recent) \in Seq(Targets) /\ IsInjective(Front(recent))
            /\ ToSet(Front(recent)) = DOMAIN groups \ {Last(recent)} /\ Last(recent) \in DOMAIN groups
        BY <4>4, Held, LastOut
      <4>6. IsFiniteSet(E) /\ Cardinality(E) = Cardinality(DOMAIN groups) - 1
        BY <4>1, <4>5, Held, FS_RemoveElement
      <4>7. Cardinality(E) + 1 = backendMaxGroups /\ Cardinality(E) + 1 <= backendMaxGroups
        BY <4>1, <4>6, Held, MembersBounds
      <4> QED
        BY <4>1, <4>5, <4>6, <4>7
    <3>2. CASE ~Full
      <4>1. ~(Cardinality(DOMAIN groups) >= backendMaxGroups) /\ E = DOMAIN groups /\ Older(t) = recent
        BY <2>1, <3>2 DEF Full, evictOldestLocked
      <4>2. Cardinality(E) + 1 <= backendMaxGroups /\ Cardinality(DOMAIN groups) # backendMaxGroups
        BY <4>1, Held, MembersBounds
      <4> QED
        BY <4>1, <4>2, Held
    <3> QED
      BY <3>1, <3>2
  <2> HIDE DEF E
  <2>3. DOMAIN group(t) = E \cup {t}
    BY <2>1
  <2>4. IsFiniteSet(E \cup {t}) /\ Cardinality(E \cup {t}) = Cardinality(E) + 1
    BY <1>2, <2>2, FS_AddElement
  <2>5. group(t) \in [E \cup {t} -> Group]
    BY <2>1, <2>2, Held, NewGroupTyped
  <2>6. \A u \in DOMAIN group(t) : u \in DOMAIN groups => group(t)[u] = groups[u]
    BY <1>2, <2>1, <2>3
  <2>7. ~(DOMAIN groups \subseteq DOMAIN group(t)) => E # DOMAIN groups
    BY <2>3
  <2>8. Cardinality(DOMAIN groups) = backendMaxGroups \/ ~(DOMAIN groups \subseteq DOMAIN group(t))
          => Cardinality(DOMAIN group(t)) = backendMaxGroups
    BY <2>2, <2>3, <2>4, <2>7
  <2>9. /\ t \in DOMAIN group(t) /\ DOMAIN group(t) \subseteq Targets
        /\ IsFiniteSet(DOMAIN group(t)) /\ Cardinality(DOMAIN group(t)) <= backendMaxGroups
        /\ t \notin ToSet(Older(t)) /\ ToSet(Older(t)) \cup {t} = DOMAIN group(t)
    BY <1>2, <2>2, <2>3, <2>4, Held
  <2> QED
    BY <2>2, <2>3, <2>5, <2>6, <2>8, <2>9
<1> QED
  BY <1>1, <1>2

LEMMA PickOfTyped ==
  ASSUME BackendInv, NEW t \in Targets \cup {"none"}, NEW g \in Group, NEW gone \in BOOLEAN
  PROVE  /\ PickOf(t, g, gone) \in Picks /\ PickOf(t, g, gone).target = t /\ PickOf(t, g, gone).gone = gone
         /\ PickOf(t, g, gone).place = At(g, Skipped(g)) /\ PickOf(t, g, gone).healthy = g.healthy
<1>1. 1 - picked.turn \in 0 .. 1
  BY DEF BackendInv, BackendTypeOK
<1>2. At(g, Skipped(g)) \in Places /\ g.healthy \in SUBSET Places
  BY SkippedRight DEF Group
<1> QED
  BY <1>1, <1>2 DEF Picks, PickOf

(* A pick from t's group in the map, whoever has what in hand.              *)
LEMMA PickingKeeps ==
  ASSUME BackendInv, NEW t \in Targets, NEW due \in BOOLEAN, HandOK',
         groups' = [group(t) EXCEPT ![t] = Chosen(group(t)[t], due)], recent' = <<t>> \o Older(t),
         picked' = PickOf(t, group(t)[t], FALSE)
  PROVE  BackendInv'
<1>1. /\ group(t) \in [DOMAIN group(t) -> Group] /\ t \in DOMAIN group(t) /\ DOMAIN group(t) \subseteq Targets
      /\ IsFiniteSet(DOMAIN group(t)) /\ Cardinality(DOMAIN group(t)) <= backendMaxGroups
      /\ Older(t) \in Seq(Targets) /\ IsInjective(Older(t)) /\ t \notin ToSet(Older(t))
      /\ ToSet(Older(t)) \cup {t} = DOMAIN group(t)
  BY GroupRight
<1>2. PICK g \in Group : g = group(t)[t]
  BY <1>1
<1> DEFINE n == (g.next + Skipped(g) + 1) % Members
           c == IF g.checking = Members /\ due THEN 0 ELSE g.checking
           h == [g EXCEPT !.next = n, !.checking = c]
           p == At(g, Skipped(g))
<1>3. /\ groups' = [group(t) EXCEPT ![t] = h] /\ recent' = <<t>> \o Older(t)
      /\ picked' = [target |-> t, place |-> p, healthy |-> g.healthy, gone |-> FALSE, turn |-> 1 - picked.turn]
  BY <1>2 DEF Chosen, PickOf
<1>4. /\ g.next \in Places /\ g.healthy \in SUBSET Places /\ g.checking \in 0 .. Members
      /\ Skipped(g) \in 0 .. Members /\ p \in Places
  BY SkippedRight DEF Group
<1>5. Members \in Nat \ {0} /\ g.next \in 0 .. Members - 1
  BY <1>4, MembersBounds DEF Places
<1>6. n \in Places /\ n = (p + 1) % Members
  <2>1. PICK k \in 0 .. Members : k = Skipped(g)
    BY <1>4
  <2>2. CASE g.next + k \in 0 .. 2 * Members - 1
    <3>1. PICK a \in 0 .. 2 * Members - 1 : a = g.next + k
      BY <2>2
    <3>2. (a + 1) % Members = ((a % Members) + 1) % Members
      BY <1>5, NextRound
    <3>4. a + 1 \in Nat
      BY <1>5
    <3>3. n = (a + 1) % Members /\ p = a % Members
      BY <2>1, <3>1 DEF At
    <3> QED
      BY <1>5, <3>2, <3>3, <3>4, Modulo DEF Places
  <2>3. g.next + k \in 0 .. 2 * Members - 1
    BY <1>5
  <2> QED
    BY <2>2, <2>3
<1>7. c \in 0 .. Members
  BY <1>4, <1>5
<1> HIDE DEF n, c, p
<1>8. h \in Group /\ h.next = n
  BY <1>4, <1>6, <1>7 DEF Group
<1> HIDE DEF h
<1>9. DOMAIN groups' = DOMAIN group(t) /\ groups' \in [DOMAIN groups' -> Group] /\ groups'[t] = h
  BY <1>1, <1>3, <1>8
<1>10. recent' \in Seq(Targets) /\ IsInjective(recent') /\ ToSet(recent') = DOMAIN groups'
  <2>1. /\ <<t>> \o Older(t) \in Seq(Targets) /\ IsInjective(<<t>> \o Older(t))
        /\ ToSet(<<t>> \o Older(t)) = ToSet(Older(t)) \cup {t}
    BY <1>1, Fronted
  <2> QED
    BY <1>1, <1>3, <1>9, <2>1
<1>11. {recent'[i] : i \in 1 .. Len(recent')} = DOMAIN groups'
  <2>1. DOMAIN recent' = 1 .. Len(recent')
    BY <1>10
  <2> QED
    BY <1>10, <2>1 DEF ToSet
<1>12. picked' \in Picks /\ picked'.target = t /\ picked'.place = p
  <2>1. PICK no \in BOOLEAN : no = FALSE
    OBVIOUS
  <2>4. PICK u \in Targets \cup {"none"} : u = t
    OBVIOUS
  <2>2. /\ PickOf(u, g, no) \in Picks /\ PickOf(u, g, no).target = u
        /\ PickOf(u, g, no).place = At(g, Skipped(g))
    BY PickOfTyped
  <2>3. picked' = PickOf(u, g, no)
    BY <1>2, <2>1, <2>4, Zenon
  <2> QED
    BY <2>2, <2>3, <2>4, Zenon DEF p
<1>13. hand' \in Hands /\ DOMAIN groups' \subseteq Targets
  BY <1>1, <1>9 DEF HandOK
<1>14. BackendTypeOK'
  BY <1>9, <1>10, <1>12, <1>13, Zenon DEF BackendTypeOK, Picks, Hands
<1>15. GroupsBounded'
  BY <1>1, <1>9, <1>11 DEF GroupsBounded, HandOK
<1>16. CursorOK'
  BY <1>1, <1>6, <1>8, <1>9, <1>12 DEF CursorOK
<1> QED
  BY <1>1, <1>9, <1>14, <1>15, <1>16 DEF BackendInv

LEMMA HandIs == ASSUME BackendInv PROVE HandOK
BY DEF BackendInv, BackendTypeOK, GroupsBounded, HandOK, Hands

LEMMA NoHandTyped == NoHand \in Hands /\ NoHand.st = "none"
BY NewGroupTyped DEF NoHand, Hands

(* What another connection evicts stays with the one that has it in hand.   *)
LEMMA HandAfterRight ==
  ASSUME BackendInv, NEW t \in Targets, hand' = HandAfter(t), DOMAIN groups' = DOMAIN group(t)
  PROVE  HandOK'
<1>1. HandOK
  BY HandIs
<1>2. Cardinality(DOMAIN groups) = backendMaxGroups \/ ~(DOMAIN groups \subseteq DOMAIN group(t))
        => Cardinality(DOMAIN group(t)) = backendMaxGroups
  BY GroupRight
<1>3. CASE hand.st = "map" /\ hand.target \notin DOMAIN group(t)
  <2>1. PICK g \in Group : g = groups[hand.target]
    BY <1>1, <1>3, Held DEF HandOK
  <2>2. hand' = [hand EXCEPT !.st = "out", !.group = g]
    BY <1>3, <2>1 DEF HandAfter
  <2>3. hand' \in Hands /\ hand'.st = "out"
    BY <1>1, <2>2 DEF HandOK, Hands
  <2>4. Cardinality(DOMAIN groups') = backendMaxGroups
    BY <1>1, <1>2, <1>3 DEF HandOK
  <2> QED
    BY <2>3, <2>4 DEF HandOK
<1>4. CASE ~(hand.st = "map" /\ hand.target \notin DOMAIN group(t))
  <2>1. hand' = hand
    BY <1>4 DEF HandAfter
  <2> QED
    BY <1>1, <1>2, <1>4, <2>1 DEF HandOK
<1> QED
  BY <1>3, <1>4

LEMMA pickKeeps == ASSUME BackendInv, NEW t \in Targets, NEW due \in BOOLEAN, pick(t, due) PROVE BackendInv'
<1>1. /\ groups' = [group(t) EXCEPT ![t] = Chosen(group(t)[t], due)] /\ recent' = <<t>> \o Older(t)
      /\ picked' = PickOf(t, group(t)[t], FALSE) /\ hand' = HandAfter(t)
  BY DEF pick
<1>2. DOMAIN groups' = DOMAIN group(t)
  BY <1>1, GroupRight
<1>3. HandOK'
  BY <1>1, <1>2, HandAfterRight
<1> QED
  BY <1>1, <1>3, PickingKeeps

LEMMA picksHeldKeeps == ASSUME BackendInv, NEW due \in BOOLEAN, picksHeld(due) PROVE BackendInv'
<1>1. PICK t \in Targets : t = hand.target /\ t \in DOMAIN groups
  BY HandIs, Held DEF picksHeld, HandOK
<1>2. group(t) = groups /\ Older(t) = RemoveFirst(recent, t)
  BY <1>1 DEF group, Older
<1>3. /\ groups' = [group(t) EXCEPT ![t] = Chosen(group(t)[t], due)] /\ recent' = <<t>> \o Older(t)
      /\ picked' = PickOf(t, group(t)[t], FALSE) /\ hand' = NoHand
  BY <1>1, <1>2 DEF picksHeld
<1>4. HandOK'
  BY <1>3, NoHandTyped DEF HandOK
<1> QED
  BY <1>3, <1>4, PickingKeeps

LEMMA GetsGroupKeeps == ASSUME BackendInv, NEW t \in Targets, GetsGroup(t) PROVE BackendInv'
<1>1. /\ groups' = group(t) /\ recent' = <<t>> \o Older(t)
      /\ hand' = [NoHand EXCEPT !.st = "map", !.target = t]
      /\ picked' = [picked EXCEPT !.gone = picked.gone \/ picked.target \notin DOMAIN group(t)]
  BY DEF GetsGroup
<1>2. /\ group(t) \in [DOMAIN group(t) -> Group] /\ t \in DOMAIN group(t) /\ DOMAIN group(t) \subseteq Targets
      /\ IsFiniteSet(DOMAIN group(t)) /\ Cardinality(DOMAIN group(t)) <= backendMaxGroups
      /\ \A u \in DOMAIN group(t) : u \in DOMAIN groups => group(t)[u] = groups[u]
      /\ Older(t) \in Seq(Targets) /\ IsInjective(Older(t)) /\ t \notin ToSet(Older(t))
      /\ ToSet(Older(t)) \cup {t} = DOMAIN group(t)
  BY GroupRight
<1>3. recent' \in Seq(Targets) /\ IsInjective(recent') /\ ToSet(recent') = DOMAIN groups'
  <2>1. /\ <<t>> \o Older(t) \in Seq(Targets) /\ IsInjective(<<t>> \o Older(t))
        /\ ToSet(<<t>> \o Older(t)) = ToSet(Older(t)) \cup {t}
    BY <1>2, Fronted
  <2> QED
    BY <1>1, <1>2, <2>1
<1>4. {recent'[i] : i \in 1 .. Len(recent')} = DOMAIN groups'
  <2>1. DOMAIN recent' = 1 .. Len(recent')
    BY <1>3
  <2> QED
    BY <1>3, <2>1 DEF ToSet
<1>5. hand' \in Hands /\ hand'.st = "map" /\ hand'.target = t
  BY <1>1, NoHandTyped DEF Hands
<1>6. picked \in Picks
  BY DEF BackendInv, BackendTypeOK, Picks
<1>7. PICK gone \in BOOLEAN : gone = (picked.gone \/ picked.target \notin DOMAIN group(t))
  OBVIOUS
<1>8. /\ picked' \in Picks /\ picked'.target = picked.target /\ picked'.place = picked.place
      /\ picked'.gone = gone
  BY <1>1, <1>6, <1>7 DEF Picks
<1>9. BackendTypeOK'
  BY <1>1, <1>2, <1>3, <1>5, <1>8 DEF BackendTypeOK, Picks, Hands
<1>10. GroupsBounded'
  BY <1>1, <1>2, <1>4, <1>5 DEF GroupsBounded
<1>11. CursorOK'
  <2>1. ASSUME ~picked'.gone
        PROVE  picked'.target \in DOMAIN groups' /\ groups'[picked'.target].next = (picked'.place + 1) % Members
    <3>1. ~picked.gone /\ picked.target \in DOMAIN group(t)
      BY <1>7, <1>8, <2>1
    <3>2. picked.target \in DOMAIN groups /\ groups[picked.target].next = (picked.place + 1) % Members
      BY <3>1 DEF BackendInv, CursorOK
    <3> QED
      BY <1>1, <1>2, <1>8, <3>1, <3>2
  <2> QED
    BY <2>1 DEF CursorOK
<1> QED
  BY <1>1, <1>2, <1>9, <1>10, <1>11 DEF BackendInv

LEMMA picksOutKeeps == ASSUME BackendInv, picksOut PROVE BackendInv'
<1>1. PICK g \in Group : g = hand.group
  BY HandIs DEF HandOK, Hands
<1>2. picked' = PickOf(hand.target, g, TRUE) /\ hand' = NoHand /\ groups' = groups /\ recent' = recent
  BY <1>1 DEF picksOut
<1>3. picked' \in Picks /\ picked'.gone
  BY <1>2, HandIs, PickOfTyped DEF HandOK, Hands
<1>4. hand' \in Hands /\ hand'.st = "none"
  BY <1>2, NoHandTyped
<1> QED
  BY <1>2, <1>3, <1>4 DEF BackendInv, BackendTypeOK, GroupsBounded, CursorOK, Picks, Hands

(* check: one backend is probed; neither the cursor nor the map changes.    *)
LEMMA ProbedTyped ==
  ASSUME NEW g \in Group, NEW i \in Places, NEW ok \in BOOLEAN
  PROVE  Probed(g, i, ok) \in Group /\ Probed(g, i, ok).next = g.next /\ Probed(g, i, ok).checking = g.checking
<1> DEFINE x == IF g.fails[i] < backendMaxFailed THEN g.fails[i] + 1 ELSE g.fails[i]
           y == IF g.fails[i] + 1 >= backendMaxFailed THEN g.healthy \ {i} ELSE g.healthy
<1>1. g.fails \in [Places -> 0 .. backendMaxFailed] /\ g.healthy \in SUBSET Places /\ backendMaxFailed \in Nat \ {0}
  BY MembersBounds DEF Group
<1>2. 0 \in 0 .. backendMaxFailed /\ g.fails[i] \in 0 .. backendMaxFailed
  BY <1>1
<1>3. x \in 0 .. backendMaxFailed /\ y \in SUBSET Places
  BY <1>1, <1>2
<1>4. [g EXCEPT !.fails[i] = 0, !.healthy = @ \cup {i}] \in Group
  <2>1. [g.fails EXCEPT ![i] = 0] \in [Places -> 0 .. backendMaxFailed] /\ g.healthy \cup {i} \in SUBSET Places
    BY <1>1, <1>2
  <2> QED
    BY <2>1 DEF Group
<1>5. [g EXCEPT !.fails[i] = x, !.healthy = y] \in Group
  <2>1. [g.fails EXCEPT ![i] = x] \in [Places -> 0 .. backendMaxFailed]
    BY <1>1, <1>3
  <2> HIDE DEF x, y
  <2> QED
    BY <1>3, <2>1 DEF Group
<1>6. Probed(g, i, ok) = IF ok THEN [g EXCEPT !.fails[i] = 0, !.healthy = @ \cup {i}] ELSE [g EXCEPT !.fails[i] = x, !.healthy = y]
  BY DEF Probed
<1> HIDE DEF x, y
<1>7. CASE ok
  BY <1>4, <1>6, <1>7 DEF Group
<1>8. CASE ~ok
  BY <1>5, <1>6, <1>8 DEF Group
<1> QED
  BY <1>7, <1>8

(* One probe of a pass under way, wherever the group is.                    *)
LEMMA ProbedOnce ==
  ASSUME NEW g \in Group, g.checking < Members, NEW ok \in BOOLEAN
  PROVE  /\ [Probed(g, g.checking, ok) EXCEPT !.checking = @ + 1] \in Group
         /\ [Probed(g, g.checking, ok) EXCEPT !.checking = @ + 1].next = g.next
<1>1. g.checking \in Places
  BY MembersBounds DEF Group, Places
<1>2. PICK h \in Group : h = Probed(g, g.checking, ok) /\ h.next = g.next /\ h.checking = g.checking
  BY <1>1, ProbedTyped
<1>3. h.checking + 1 \in 0 .. Members
  BY <1>1, <1>2, MembersBounds DEF Places
<1>4. [h EXCEPT !.checking = h.checking + 1] \in Group /\ [h EXCEPT !.checking = h.checking + 1].next = g.next
  BY <1>2, <1>3 DEF Group
<1> QED
  BY <1>2, <1>4

LEMMA checkKeeps == ASSUME BackendInv, NEW t \in Targets, NEW ok \in BOOLEAN, check(t, ok) PROVE BackendInv'
<1>1. t \in DOMAIN groups /\ groups[t].checking < Members
  BY DEF check
<1>2. PICK g \in Group : g = groups[t]
  BY <1>1, Held
<1> DEFINE k == [Probed(g, g.checking, ok) EXCEPT !.checking = @ + 1]
<1>6. groups' = [groups EXCEPT ![t] = k] /\ recent' = recent /\ hand' = hand /\ picked' = picked
  BY <1>2 DEF check
<1>7. k \in Group /\ k.next = g.next
  BY <1>1, <1>2, ProbedOnce
<1> HIDE DEF k
<1>8. DOMAIN groups' = DOMAIN groups /\ groups' \in [DOMAIN groups' -> Group] /\ \A u \in DOMAIN groups : groups'[u].next = groups[u].next
  BY <1>1, <1>2, <1>6, <1>7, Held
<1>9. BackendTypeOK'
  BY <1>6, <1>8 DEF BackendInv, BackendTypeOK
<1>10. GroupsBounded'
  BY <1>6, <1>8 DEF BackendInv, GroupsBounded
<1>11. CursorOK'
  BY <1>6, <1>8 DEF BackendInv, CursorOK
<1> QED
  BY <1>8, <1>9, <1>10, <1>11 DEF BackendInv

LEMMA checkOutKeeps == ASSUME BackendInv, NEW ok \in BOOLEAN, checkOut(ok) PROVE BackendInv'
<1>1. HandOK
  BY HandIs
<1>2. PICK g \in Group : g = hand.group
  BY <1>1 DEF HandOK, Hands
<1> DEFINE k == [Probed(g, g.checking, ok) EXCEPT !.checking = @ + 1]
<1>3. hand' = [hand EXCEPT !.group = k] /\ groups' = groups /\ recent' = recent /\ picked' = picked
  BY <1>2 DEF checkOut
<1>4. k \in Group
  BY <1>2, ProbedOnce DEF checkOut
<1> HIDE DEF k
<1>5. hand' \in Hands /\ hand'.st = hand.st /\ hand'.target = hand.target
  BY <1>1, <1>3, <1>4 DEF HandOK, Hands
<1> QED
  BY <1>3, <1>5 DEF BackendInv, BackendTypeOK, GroupsBounded, CursorOK, Hands

LEMMA BackendStart == ASSUME BackendInit PROVE BackendInv
<1>1. DOMAIN groups = {} /\ recent = <<>> /\ picked = NoPick /\ hand = NoHand
  BY DEF BackendInit
<1>2. groups \in [DOMAIN groups -> Group]
  BY DEF BackendInit
<1>3. IsFiniteSet({}) /\ Cardinality({}) = 0
  BY FS_EmptySet
<1>4. recent \in Seq(Targets) /\ IsInjective(recent) /\ {recent[i] : i \in 1 .. Len(recent)} = {}
  BY <1>1 DEF IsInjective
<1>5. picked \in Picks /\ picked.gone /\ hand \in Hands /\ hand.st = "none"
  BY <1>1, MembersBounds, NoHandTyped DEF NoPick, Picks
<1>6. BackendTypeOK
  BY <1>1, <1>2, <1>4, <1>5 DEF BackendTypeOK, Picks, Hands
<1>7. GroupsBounded
  BY <1>1, <1>3, <1>4, <1>5, MembersBounds DEF GroupsBounded
<1>8. CursorOK
  BY <1>5 DEF CursorOK
<1> QED
  BY <1>1, <1>3, <1>6, <1>7, <1>8 DEF BackendInv

LEMMA BackendStep == ASSUME BackendInv, [BackendNext]_backendVars PROVE BackendInv'
<1>1. ASSUME UNCHANGED backendVars PROVE BackendInv'
  BY <1>1 DEF backendVars, BackendInv, BackendTypeOK, GroupsBounded, CursorOK
<1> QED
  BY <1>1, pickKeeps, picksHeldKeeps, picksOutKeeps, GetsGroupKeeps, checkKeeps, checkOutKeeps DEF BackendNext

-----------------------------------------------------------------------------
(* Two picks in a row. *)

Spreads ==
  picked'.turn # picked.turn =>
    /\ picked'.healthy # {} => picked'.place \in picked'.healthy
    /\ /\ picked'.target = picked.target /\ picked'.healthy = picked.healthy
       /\ ~picked.gone /\ ~picked'.gone /\ Cardinality(picked'.healthy) > 1
       => picked'.place # picked.place

(* From behind place, the first one in rotation is place again only when it *)
(* is the last that is asked, so when it is the only one.                   *)
LEMMA AllTheWayRound ==
  ASSUME NEW g \in Group, NEW place \in Places, g.next = (place + 1) % Members, g.healthy # {}, At(g, Skipped(g)) = place
  PROVE  g.healthy \subseteq {place}
<1> DEFINE k == Skipped(g)
<1>1. k \in Places /\ \A j \in 0 .. k - 1 : At(g, j) \notin g.healthy
  BY SkippedRight
<1>2. Members \in Nat \ {0} /\ k \in 0 .. Members - 1 /\ place \in 0 .. Members - 1 /\ g.next \in 0 .. Members - 1 /\ g.healthy \subseteq 0 .. Members - 1
  BY <1>1, MembersBounds DEF Places, Group
<1> HIDE DEF k
<1>3. (g.next + k) % Members = place
  BY DEF At, k
<1>4. k = Members - 1
  BY <1>2, <1>3, OneBehind
<1>5. ASSUME NEW h \in g.healthy PROVE h = place
  <2>1. PICK i \in 0 .. Members - 1 : (g.next + i) % Members = h
    BY <1>2, Reached
  <2>2. At(g, i) = h
    BY <2>1 DEF At
  <2>3. i = k
    BY <1>1, <1>2, <1>4, <2>2
  <2> QED
    BY <1>3, <2>1, <2>3
<1> QED
  BY <1>5

LEMMA PickSpreads ==
  ASSUME BackendInv, NEW t \in Targets, picked' = PickOf(t, group(t)[t], FALSE)
  PROVE  Spreads
<1>1. /\ group(t) \in [DOMAIN group(t) -> Group] /\ t \in DOMAIN group(t)
      /\ t \in DOMAIN groups => group(t)[t] = groups[t]
  BY GroupRight
<1>2. PICK g \in Group : g = group(t)[t]
  BY <1>1
<1>3. picked'.target = t /\ picked'.place = At(g, Skipped(g)) /\ picked'.healthy = g.healthy
  BY <1>2 DEF PickOf
<1>4. ASSUME t = picked.target, ~picked.gone, Cardinality(g.healthy) > 1, At(g, Skipped(g)) = picked.place PROVE FALSE
  <2>1. g.next = (picked.place + 1) % Members /\ picked.place \in Places
    BY <1>1, <1>2, <1>4 DEF BackendInv, CursorOK, BackendTypeOK
  <2>2. g.healthy # {}
    BY <1>4, FS_EmptySet
  <2>3. g.healthy \subseteq {picked.place}
    BY <1>4, <2>1, <2>2, AllTheWayRound
  <2>4. g.healthy = {picked.place}
    BY <2>2, <2>3
  <2>5. Cardinality({picked.place}) = 1
    BY FS_Singleton
  <2> QED
    BY <1>4, <2>4, <2>5
<1>5. g.healthy # {} => At(g, Skipped(g)) \in g.healthy
  BY SkippedRight
<1> QED
  BY <1>3, <1>4, <1>5 DEF Spreads

LEMMA SpreadStep == ASSUME BackendInv, [BackendNext]_backendVars PROVE Spreads
<1>1. ASSUME picked'.turn = picked.turn PROVE Spreads
  BY <1>1 DEF Spreads
<1>2. ASSUME NEW t \in Targets, NEW due \in BOOLEAN, pick(t, due) PROVE Spreads
  BY <1>2, PickSpreads DEF pick
<1>3. ASSUME NEW due \in BOOLEAN, picksHeld(due) PROVE Spreads
  <2>1. PICK t \in Targets : t = hand.target /\ t \in DOMAIN groups
    BY <1>3, HandIs, Held DEF picksHeld, HandOK
  <2>2. picked' = PickOf(t, group(t)[t], FALSE)
    BY <1>3, <2>1 DEF picksHeld, group
  <2> QED
    BY <2>2, PickSpreads
<1>4. ASSUME picksOut PROVE Spreads
  <2>1. PICK g \in Group : g = hand.group
    BY HandIs DEF HandOK, Hands
  <2>2. picked'.gone /\ picked'.place = At(g, Skipped(g)) /\ picked'.healthy = g.healthy
    BY <1>4, <2>1 DEF picksOut, PickOf
  <2>3. g.healthy # {} => At(g, Skipped(g)) \in g.healthy
    BY SkippedRight
  <2> QED
    BY <2>2, <2>3 DEF Spreads
<1>5. ASSUME NEW t \in Targets, GetsGroup(t) PROVE picked'.turn = picked.turn
  BY <1>5 DEF GetsGroup, BackendInv, BackendTypeOK
<1>6. ASSUME NEW t \in Targets, NEW ok \in BOOLEAN, check(t, ok) PROVE picked'.turn = picked.turn
  BY <1>6 DEF check
<1>7. ASSUME NEW ok \in BOOLEAN, checkOut(ok) PROVE picked'.turn = picked.turn
  BY <1>7 DEF checkOut
<1>8. ASSUME UNCHANGED backendVars PROVE picked'.turn = picked.turn
  BY <1>8 DEF backendVars
<1> QED
  BY <1>1, <1>2, <1>3, <1>4, <1>5, <1>6, <1>7, <1>8 DEF BackendNext

-----------------------------------------------------------------------------
(* The parts together. *)

(* A step of the composition is a step of one part and none of the others.  *)
LEMMA PartStep ==
  [PartNext]_partVars => [Step]_vars /\ [BackendNext]_backendVars /\ [DirectNext]_dvars /\ [PfNext]_pfvars
<1>1. ASSUME UNCHANGED partVars
      PROVE  UNCHANGED vars /\ UNCHANGED backendVars /\ UNCHANGED dvars /\ UNCHANGED pfvars
  BY <1>1 DEF partVars
<1>2. ASSUME PartNext
      PROVE  /\ Step \/ UNCHANGED vars
             /\ BackendNext \/ UNCHANGED backendVars
             /\ DirectNext \/ UNCHANGED dvars
             /\ PfNext \/ UNCHANGED pfvars
  BY <1>2, Zenon DEF PartNext
<1> QED
  BY <1>1, <1>2, Zenon

DiallersInv == ClientInv /\ BackendInv /\ DirectInv /\ PfInv

LEMMA PartsInvariant == PartSpec => []DiallersInv
<1>1. PartInit => DiallersInv
  BY ClientStart, BackendStart, DirectStart, PfStart DEF PartInit, DiallersInv
<1>2. DiallersInv /\ [PartNext]_partVars => DiallersInv'
  BY PartStep, ClientStep, BackendStep, DirectStep, PfStep DEF DiallersInv
<1> QED
  BY <1>1, <1>2, PTL DEF PartSpec

(* Every counter, cursor, queue and history of the ends that dial keeps its *)
(* type and bound: no more than two Restarts are ever pending, misses stop  *)
(* at the threshold, cursors stay within their lists.                       *)
THEOREM PartsTypeCorrect == PartSpec => []PartsTyped
<1>1. DiallersInv => PartsTyped
  BY ClientFollows, DirectFollows, PfFollows DEF DiallersInv, BackendInv, PartsTyped
<1> QED
  BY <1>1, PartsInvariant, PTL

(* channelDialer, legacyProbe, Endpoints.Next and backendPool.group, for    *)
(* any number of endpoints, targets and failures: a server that has         *)
(* answered the current handshake is never sent the older one, data         *)
(* connections follow the control channel, and the map of groups keeps its  *)
(* bound, and loses a group somebody has in hand only when it is full.      *)
THEOREM ClientStaysRight == PartSpec => []ClientIsRight
<1>1. DiallersInv => ClientIsRight
  BY ClientFollows DEF DiallersInv, BackendInv, ClientIsRight
<1> QED
  BY <1>1, PartsInvariant, PTL

(* steerLoop and backendGroup.pick: the preferred exit changes only for a   *)
(* challenger that won NeedStreak checks in a row or an exit that is dead,  *)
(* and a pick is of a healthy backend, also from a group that was evicted,  *)
(* and another one than the pick before it from the same group when there   *)
(* are two.                                                                 *)
THEOREM ChoicesStayRight == PartSpec => ChoicesAreRight
<1>1. DiallersInv /\ [PartNext]_partVars => [dialer' = dialer => SteersWhenEarned]_vars
  BY PartStep, SteeringStep DEF DiallersInv
<1>2. DiallersInv /\ [PartNext]_partVars => [Spreads]_backendVars
  BY PartStep, SpreadStep DEF DiallersInv
<1>3. PartSpec => [][dialer' = dialer => SteersWhenEarned]_vars
  BY <1>1, PartsInvariant, PTL DEF PartSpec
<1>4. PartSpec => [][Spreads]_backendVars
  BY <1>2, PartsInvariant, PTL DEF PartSpec
<1> QED
  BY <1>3, <1>4, PTL DEF ChoicesAreRight, SteeringIsEarned, PicksSpread, Spreads
=============================================================================
