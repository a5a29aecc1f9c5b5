----------------------------- MODULE BackendPool -----------------------------
(***************************************************************************)
(* The client's backend pool (backendpool.go): a target that names several *)
(* services becomes a group, pick spreads connections over the services of *)
(* it that answer, one check pass at a time runs beside the picks, and the *)
(* number of groups is bounded.  Targets are their parsed lists.           *)
(*                                                                         *)
(* A connection gets its group under one lock and picks from it under      *)
(* another.  One connection at a time may be between the two; it keeps a   *)
(* group that is evicted meanwhile.  The others do both in one step.       *)
(***************************************************************************)
EXTENDS Integers, Sequences, FiniteSets, SequencesExt

CONSTANTS
  Targets,            \* the parsed backend lists
  Members,            \* how many backends a list has
  backendMaxGroups,
  backendMaxFailed

ASSUME BackendAssumption ==
  /\ Members \in Nat \ {0} /\ backendMaxGroups \in Nat \ {0} /\ backendMaxFailed \in Nat \ {0}
  /\ "none" \notin Targets

VARIABLES
  groups,      \* target -> its group; the domain is what the map holds
  recent,      \* the targets in the map, last used first
  hand,        \* the group a connection has got and not picked from yet: "none",
               \* the one in the map ("map") or one that was evicted ("out")
  picked       \* history: target, backend and healthy set of the last pick, whether
               \* its group has left the map, and a bit that tells it from the one before

backendVars == <<groups, recent, hand, picked>>

Places == 0 .. Members - 1
NoPick == [target |-> "none", place |-> 0, healthy |-> {}, gone |-> TRUE, turn |-> 0]

(* A group: which backends are healthy, their failures in a row, the        *)
(* round-robin cursor modulo the length, and how far the check pass under   *)
(* way has come; Members when none is.                                      *)
NewGroup == [healthy |-> Places, fails |-> [i \in Places |-> 0], next |-> 0, checking |-> Members]

NoHand == [st |-> "none", target |-> "none", group |-> NewGroup]

BackendInit ==
  /\ groups = [t \in {} |-> NewGroup]
  /\ recent = <<>>
  /\ hand = NoHand /\ picked = NoPick

-----------------------------------------------------------------------------
(* evictOldestLocked: what stays when one more is to be added.              *)
Full              == Cardinality(DOMAIN groups) >= backendMaxGroups
evictOldestLocked == IF Full THEN DOMAIN groups \ {Last(recent)} ELSE DOMAIN groups

(* group: the one in the map, or a new one for which room is made.          *)
group(t) ==
  IF t \in DOMAIN groups THEN groups
  ELSE [u \in evictOldestLocked \cup {t} |-> IF u = t THEN NewGroup ELSE groups[u]]

(* The order of last use of the others, once t is used.                     *)
Older(t) ==
  IF t \in DOMAIN groups THEN RemoveFirst(recent, t) ELSE IF Full THEN Front(recent) ELSE recent

fromFirstMutant(g, i) == i

(* How far from the cursor the pick lands: the first healthy one, or all    *)
(* round and the one after when none is.                                    *)
At(g, i) == (g.next + i) % Members

Skipped(g) ==
  IF g.healthy = {} THEN Members
  ELSE CHOOSE i \in Places : At(g, i) \in g.healthy /\ \A j \in 0 .. i - 1 : At(g, j) \notin g.healthy

(* The group after a pick, which starts a check pass when the last one is   *)
(* over and the next is due, and the note of the pick.                      *)
Chosen(g, due) == [g EXCEPT !.next = (g.next + Skipped(g) + 1) % Members,
                            !.checking = IF g.checking = Members /\ due THEN 0 ELSE @]

PickOf(t, g, gone) == [target |-> t, place |-> At(g, Skipped(g)), healthy |-> g.healthy,
                       gone |-> gone, turn |-> 1 - picked.turn]

(* A connection gets its group and is held up before it picks: ...          *)
GetsGroup(t) ==
  /\ hand = NoHand
  /\ groups' = group(t) /\ recent' = <<t>> \o Older(t)
  /\ hand' = [NoHand EXCEPT !.st = "map", !.target = t]
  /\ picked' = [picked EXCEPT !.gone = @ \/ picked.target \notin DOMAIN group(t)]

(* ... it picks from what is still the map's, ...                           *)
picksHeld(due) ==
  /\ hand.st = "map"
  /\ LET t == hand.target IN
     /\ groups' = [groups EXCEPT ![t] = Chosen(groups[t], due)]
     /\ recent' = <<t>> \o RemoveFirst(recent, t)
     /\ picked' = PickOf(t, groups[t], FALSE)
  /\ hand' = NoHand

(* ... or from a group that only it has now.                                *)
picksOut ==
  /\ hand.st = "out"
  /\ picked' = PickOf(hand.target, hand.group, TRUE)
  /\ hand' = NoHand /\ UNCHANGED <<groups, recent>>

(* What the one in between has once another asks for t.                     *)
HandAfter(t) ==
  IF hand.st = "map" /\ hand.target \notin DOMAIN group(t)
  THEN [hand EXCEPT !.st = "out", !.group = groups[hand.target]] ELSE hand

(* Another connection: its group, and its pick.                             *)
pick(t, due) ==
  /\ groups' = [group(t) EXCEPT ![t] = Chosen(group(t)[t], due)]
  /\ recent' = <<t>> \o Older(t)
  /\ picked' = PickOf(t, group(t)[t], FALSE)
  /\ hand' = HandAfter(t)

(* What a probe says of backend i: an answer restores it, the               *)
(* backendMaxFailed'th failure in a row takes it out.                       *)
Probed(g, i, ok) ==
  IF ok THEN [g EXCEPT !.fails[i] = 0, !.healthy = @ \cup {i}]
  ELSE [g EXCEPT !.fails[i] = IF @ < backendMaxFailed THEN @ + 1 ELSE @,
                 !.healthy = IF g.fails[i] + 1 >= backendMaxFailed THEN @ \ {i} ELSE @]

(* check: one probe of the pass, whatever it finds, and what is noted of it. *)
check(t, ok) ==
  /\ t \in DOMAIN groups /\ groups[t].checking < Members
  /\ LET g == groups[t]
         i == g.checking IN
     groups' = [groups EXCEPT ![t] = [Probed(g, i, ok) EXCEPT !.checking = @ + 1]]
  /\ UNCHANGED <<recent, hand, picked>>

(* A group that left the map finishes the pass it was in.                   *)
checkOut(ok) ==
  /\ hand.st = "out" /\ hand.group.checking < Members
  /\ LET g == hand.group
         i == g.checking IN
     hand' = [hand EXCEPT !.group = [Probed(g, i, ok) EXCEPT !.checking = @ + 1]]
  /\ UNCHANGED <<groups, recent, picked>>

BackendNext ==
  \/ \E t \in Targets, due \in BOOLEAN : pick(t, due)
  \/ \E t \in Targets, ok \in BOOLEAN : check(t, ok)
  \/ \E t \in Targets : GetsGroup(t)
  \/ \E due \in BOOLEAN : picksHeld(due)
  \/ \E ok \in BOOLEAN : checkOut(ok)
  \/ picksOut

BackendSpec == BackendInit /\ [][BackendNext]_backendVars

-----------------------------------------------------------------------------
(* Properties. *)

Group == [healthy : SUBSET Places, fails : [Places -> 0 .. backendMaxFailed], next : Places,
          checking : 0 .. Members]

BackendTypeOK ==
  /\ DOMAIN groups \subseteq Targets /\ groups \in [DOMAIN groups -> Group]
  /\ recent \in Seq(Targets) /\ IsInjective(recent)
  /\ picked \in [target : Targets \cup {"none"}, place : Places, healthy : SUBSET Places,
                 gone : BOOLEAN, turn : 0 .. 1]
  /\ hand \in [st : {"none", "map", "out"}, target : Targets \cup {"none"}, group : Group]

(* The map keeps its bound and knows what it holds, and a group is evicted  *)
(* under the connection that has it in hand only from a map that is full.   *)
GroupsBounded ==
  /\ Cardinality(DOMAIN groups) <= backendMaxGroups
  /\ {recent[i] : i \in 1 .. Len(recent)} = DOMAIN groups
  /\ hand.st = "map" => hand.target \in DOMAIN groups
  /\ hand.st = "out" => Cardinality(DOMAIN groups) = backendMaxGroups

(* pick hands out a backend that is in rotation whenever there is one, also *)
(* from a group that was evicted, and two picks in a row from one group     *)
(* that find the same backends in rotation spread over them.                *)
PicksSpread ==
  [][picked'.turn # picked.turn =>
       /\ picked'.healthy # {} => picked'.place \in picked'.healthy
       /\ /\ picked'.target = picked.target /\ picked'.healthy = picked.healthy
          /\ ~picked.gone /\ ~picked'.gone /\ Cardinality(picked'.healthy) > 1
          => picked'.place # picked.place]_backendVars
=============================================================================
