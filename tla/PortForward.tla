---------------------------- MODULE PortForward ----------------------------
(***************************************************************************)
(* The forwarded ports of the layer-3 tunnel (l3/forward.go) and of the    *)
(* direct tunnel's edge (direct/edge.go): a handler per accepted TCP       *)
(* connection, a flow per UDP source with a pump of its own for the        *)
(* answers, a reaper, and one connection limit over both.  A backend is    *)
(* reached by dialling it ("l3") or by a stream on a session ("edge"): one *)
(* session is picked for a connection, and every backend is tried on it.   *)
(***************************************************************************)
EXTENDS Integers, Sequences, FiniteSets

CONSTANTS
  PfKinds,     \* "l3", "edge"
  PfTargets,   \* number of backends of the mapping
  PfUsers,     \* TCP connections that can exist at once
  PfPeers,     \* UDP source addresses
  PfFlows,     \* udpFlow objects that can exist at once
  PfSessions,  \* usable sessions of the edge that can exist at once
  PfMax,       \* MaxConnections
  PfCursor     \* bound: the cursor is followed modulo this

ASSUME PfAssumption ==
  /\ PfTargets \in Nat \ {0} /\ PfMax \in Nat /\ PfCursor \in Nat \ {0}
  /\ IsFiniteSet(PfUsers) /\ IsFiniteSet(PfFlows) /\ "none" \notin PfFlows \cup PfSessions

VARIABLES
  pfkind, answering,   \* rigid: the engine, and the backends that answer
  pfctx,               \* "live", then "done"
  slots,               \* limiter.active
  pup,                 \* the edge's usable sessions (DirectTunnel says how they come and go)
  users, pflows, ptable,
  pcursor,
  pdown                \* reach.state: the mapping is said to be down

pfvars == <<pfkind, answering, pfctx, slots, pup, users, pflows, ptable, pcursor, pdown>>

PNone    == "none"
FreeUser == [st |-> "free", sess |-> PNone, start |-> 0, tried |-> 0]
FreePf   == [st |-> "free", peer |-> PNone, sess |-> PNone, open |-> FALSE, idle |-> FALSE]

PfInit ==
  /\ pfkind \in PfKinds /\ answering \in SUBSET (0..PfTargets - 1)
  /\ pfctx = "live" /\ slots = 0 /\ pup = {}
  /\ users = [u \in PfUsers |-> FreeUser] /\ pflows = [f \in PfFlows |-> FreePf]
  /\ ptable = [p \in PfPeers |-> PNone]
  /\ pcursor = 0 /\ pdown = FALSE

-----------------------------------------------------------------------------
(* limits.go *)
oneMoreMutant == slots <= PfMax
Acquire       == slots < PfMax

(* A cursor that moves on by n.                                             *)
Turned(n) == pcursor' = (pcursor + n) % PfCursor

NthTarget(start, n)       == (start + n) % PfTargets

-----------------------------------------------------------------------------
(* The edge's sessions: a new one is a new object, whoever still holds an   *)
(* old one.                                                                 *)
SessionUp(s) ==
  /\ pfkind = "edge" /\ pfctx = "live" /\ s \notin pup
  /\ (\A u \in PfUsers : users[u].sess # s) /\ (\A f \in PfFlows : pflows[f].sess # s)
  /\ pup' = pup \cup {s}
  /\ UNCHANGED <<pfkind, answering, pfctx, slots, users, pflows, ptable, pcursor, pdown>>

SessionDies(s) ==
  /\ s \in pup /\ pup' = pup \ {s}
  /\ UNCHANGED <<pfkind, answering, pfctx, slots, users, pflows, ptable, pcursor, pdown>>

-----------------------------------------------------------------------------
(* TCP *)

(* A connection is accepted and takes a slot, or is closed.                 *)
Takes(u, st) ==
  /\ pfctx = "live" /\ users[u].st = "free" /\ Acquire
  /\ slots' = slots + 1
  /\ users' = [users EXCEPT ![u].st = st]
  /\ UNCHANGED <<pfkind, answering, pfctx, pup, pflows, ptable, pcursor, pdown>>

L3Takes(u)   == pfkind = "l3"   /\ Takes(u, "picked")
EdgeTakes(u) == pfkind = "edge" /\ Takes(u, "taken")

Release         == slots' = slots - 1

(* pickSession: a usable session, if there is one (DirectTunnel says which). *)
EdgePicks(u) ==
  /\ users[u].st = "taken"
  /\ \E s \in pup : users' = [users EXCEPT ![u].st = "picked", ![u].sess = s]
  /\ Turned(1)
  /\ UNCHANGED <<pfkind, answering, pfctx, slots, pup, pflows, ptable, pdown>>

(* errNoSession: there is none and the user is refused.  The cursor has     *)
(* moved if one that is dead is still listed.                               *)
EdgeNoSession(u) ==
  /\ users[u].st = "taken" /\ pup = {}
  /\ users' = [users EXCEPT ![u] = FreeUser]
  /\ Release /\ \E n \in 0..1 : Turned(n)
  /\ UNCHANGED <<pfkind, answering, pfctx, pup, pflows, ptable, pdown>>

(* dialBackend and openFor: targets are tried from a start that moves on    *)
(* with each attempt (the edge has one cursor for sessions and targets), ... *)
Starts(u) ==
  /\ users[u].st = "picked"
  /\ users' = [users EXCEPT ![u].st = "dialling", ![u].start = pcursor % PfTargets]
  /\ Turned(1)
  /\ UNCHANGED <<pfkind, answering, pfctx, slots, pup, pflows, ptable, pdown>>

L3Starts(u)   == pfkind = "l3"   /\ Starts(u)
EdgeStarts(u) == pfkind = "edge" /\ Starts(u)

(* ... each in turn, by a dial or on the session that was picked, which may *)
(* have died since.                                                         *)
L3Reaches(t)      == t \in answering
EdgeReaches(u, t) == t \in answering /\ users[u].sess \in pup

Dials(u, reached) ==
  /\ users[u].st = "dialling" /\ users[u].tried < PfTargets
  /\ users' = [users EXCEPT ![u].tried = @ + 1, ![u].st = IF reached /\ pfctx = "live" THEN "piped" ELSE @]
  /\ UNCHANGED <<pfkind, answering, pfctx, slots, pup, pflows, ptable, pcursor>>

NextTarget(u) == NthTarget(users[u].start, users[u].tried)

(* The forwarder notes that a backend answered; the edge keeps no note.     *)
L3Dials(u) ==
  /\ pfkind = "l3" /\ Dials(u, L3Reaches(NextTarget(u)))
  /\ pdown' = (pdown /\ users'[u].st # "piped")
EdgeDials(u) == pfkind = "edge" /\ Dials(u, EdgeReaches(u, NextTarget(u))) /\ UNCHANGED pdown

(* Every target failed: the user is refused.                                *)
PfRefused(u) ==
  /\ users[u].st = "dialling" /\ users[u].tried = PfTargets
  /\ users' = [users EXCEPT ![u] = FreeUser]
  /\ Release
  /\ UNCHANGED <<pfkind, answering, pfctx, pup, pflows, ptable, pcursor>>

L3Refused(u)   == pfkind = "l3" /\ PfRefused(u) /\ pdown' = TRUE
EdgeRefused(u) == pfkind = "edge" /\ PfRefused(u) /\ UNCHANGED pdown

(* pipe: a copy ends or the context does; both connections are closed, ...  *)
PipeCloses(u) ==
  /\ users[u].st = "piped"
  /\ users' = [users EXCEPT ![u].st = "closing"]
  /\ UNCHANGED <<pfkind, answering, pfctx, slots, pup, pflows, ptable, pcursor, pdown>>

(* ... which ends the other copy, and the handler.                          *)
PipeReturns(u) ==
  /\ users[u].st = "closing"
  /\ users' = [users EXCEPT ![u] = FreeUser]
  /\ Release
  /\ UNCHANGED <<pfkind, answering, pfctx, pup, pflows, ptable, pcursor, pdown>>

L3Pipe(u)   == pfkind = "l3"   /\ (PipeCloses(u) \/ PipeReturns(u))
EdgePipe(u) == pfkind = "edge" /\ (PipeCloses(u) \/ PipeReturns(u))

-----------------------------------------------------------------------------
(* UDP *)

(* serveUDP reads the next datagram: it is not opening a flow.              *)
Listening == pfctx = "live" /\ \A f \in PfFlows : pflows[f].st # "opening"

(* A datagram of a known source goes to its flow.                           *)
DatagramOn(p) ==
  /\ Listening /\ ptable[p] # PNone
  /\ pflows' = [pflows EXCEPT ![ptable[p]].idle = FALSE]
  /\ UNCHANGED <<pfkind, answering, pfctx, slots, pup, users, ptable, pcursor, pdown>>

(* udpFlowFor: a new source takes a slot, ...                               *)
AsksFlow(p, f, as) ==
  /\ Listening /\ ptable[p] = PNone /\ pflows[f].st = "free" /\ Acquire
  /\ slots' = slots + 1
  /\ pflows' = [pflows EXCEPT ![f] = as]
  /\ UNCHANGED <<pfkind, answering, pfctx, pup, users, pdown>>

LiveFlow(p) == [FreePf EXCEPT !.st = "live", !.peer = p, !.open = TRUE]

(* ... and a backend.  A UDP dial does not wait and does not refuse (it has *)
(* a cursor of its own); a stream on a session may do both.                 *)
L3UdpFlowFor(p, f) ==
  /\ pfkind = "l3" /\ AsksFlow(p, f, LiveFlow(p))
  /\ ptable' = [ptable EXCEPT ![p] = f]
  /\ UNCHANGED pcursor

EdgeUdpFlowFor(p, f) ==
  /\ pfkind = "edge"
  /\ \E s \in pup : AsksFlow(p, f, [FreePf EXCEPT !.st = "opening", !.peer = p, !.sess = s])
  /\ Turned(2) /\ UNCHANGED ptable

(* With no session the slot is given back within the same call.             *)
EdgeNoFlow(p) ==
  /\ pfkind = "edge" /\ Listening /\ ptable[p] = PNone /\ Acquire /\ pup = {}
  /\ Turned(1)
  /\ UNCHANGED <<pfkind, answering, pfctx, slots, pup, users, pflows, ptable, pdown>>

(* openFor returns: a backend answered on that session, ...                 *)
EdgeFlowOpens(f) ==
  /\ pflows[f].st = "opening" /\ pflows[f].sess \in pup /\ answering # {}
  /\ pflows' = [pflows EXCEPT ![f] = LiveFlow(@.peer)]
  /\ ptable' = [ptable EXCEPT ![pflows[f].peer] = f]
  /\ UNCHANGED <<pfkind, answering, pfctx, slots, pup, users, pcursor, pdown>>

(* ... or none did, or the session is gone.                                 *)
EdgeFlowRefused(f) ==
  /\ pflows[f].st = "opening" /\ (pflows[f].sess \notin pup \/ answering = {})
  /\ pflows' = [pflows EXCEPT ![f] = FreePf]
  /\ Release
  /\ UNCHANGED <<pfkind, answering, pfctx, pup, users, ptable, pcursor, pdown>>

GoesQuiet(f) ==
  /\ pflows[f].st = "live" /\ ~pflows[f].idle
  /\ pflows' = [pflows EXCEPT ![f].idle = TRUE]
  /\ UNCHANGED <<pfkind, answering, pfctx, slots, pup, users, ptable, pcursor, pdown>>

(* reapUDPFlows closes a quiet flow's socket or stream; the pump does the   *)
(* rest.  The idle test and the close are not one step with the listener's  *)
(* touch: a flow closed here may have been written to a moment ago.         *)
Reaps(f) ==
  /\ pfctx = "live" /\ pflows[f].st = "live" /\ pflows[f].open /\ pflows[f].idle
  /\ pflows' = [pflows EXCEPT ![f].open = FALSE]
  /\ UNCHANGED <<pfkind, answering, pfctx, slots, pup, users, ptable, pcursor, pdown>>

L3Reaps(f)   == pfkind = "l3"   /\ Reaps(f)
EdgeReaps(f) == pfkind = "edge" /\ Reaps(f)

(* The socket fails, or the stream, alone or with its session; on the edge  *)
(* a datagram that cannot be written closes it.                             *)
FlowFails(f) ==
  /\ pflows[f].st = "live" /\ pflows[f].open
  /\ pflows' = [pflows EXCEPT ![f].open = FALSE]
  /\ UNCHANGED <<pfkind, answering, pfctx, slots, pup, users, ptable, pcursor, pdown>>

Untracked(f)         == [ptable EXCEPT ![pflows[f].peer] = PNone]

(* The pump ends: its read failed, or (l3) timed out on an idle flow.       *)
EndsFlow(f) ==
  /\ pflows[f].st = "live"
  /\ ptable' = Untracked(f)
  /\ pflows' = [pflows EXCEPT ![f] = FreePf]
  /\ Release
  /\ UNCHANGED <<pfkind, answering, pfctx, pup, users, pcursor, pdown>>

L3PumpUDPReplies(f)   == pfkind = "l3" /\ (~pflows[f].open \/ pflows[f].idle) /\ EndsFlow(f)
EdgePumpUDPReplies(f) == pfkind = "edge" /\ ~pflows[f].open /\ EndsFlow(f)

(* The context ends: listeners and sessions close, and serveUDP closes      *)
(* every flow.                                                              *)
Cancelled(u) == IF users[u].st = "piped" THEN [users[u] EXCEPT !.st = "closing"] ELSE users[u]

FlowClosed(f)        == [pflows[f] EXCEPT !.open = FALSE]

Cancel ==
  /\ pfctx = "live" /\ pfctx' = "done"
  /\ users' = [u \in PfUsers |-> Cancelled(u)]
  /\ pflows' = [f \in PfFlows |-> FlowClosed(f)]
  /\ pup' = {}
  /\ UNCHANGED <<pfkind, answering, slots, ptable, pcursor, pdown>>

L3Cancel   == pfkind = "l3"   /\ Cancel
EdgeCancel == pfkind = "edge" /\ Cancel

UserStep(u) == \/ EdgePicks(u) \/ EdgeNoSession(u) \/ L3Starts(u) \/ EdgeStarts(u)
               \/ L3Dials(u) \/ EdgeDials(u) \/ L3Refused(u) \/ EdgeRefused(u)
               \/ L3Pipe(u) \/ EdgePipe(u)
PumpStep(f) == EdgeFlowOpens(f) \/ EdgeFlowRefused(f) \/ L3PumpUDPReplies(f) \/ EdgePumpUDPReplies(f)

PfNext ==
  \/ \E u \in PfUsers : L3Takes(u) \/ EdgeTakes(u) \/ UserStep(u)
  \/ \E p \in PfPeers : DatagramOn(p) \/ EdgeNoFlow(p) \/ \E f \in PfFlows : L3UdpFlowFor(p, f) \/ EdgeUdpFlowFor(p, f)
  \/ \E f \in PfFlows : GoesQuiet(f) \/ L3Reaps(f) \/ EdgeReaps(f) \/ FlowFails(f) \/ PumpStep(f)
  \/ \E s \in PfSessions : SessionUp(s) \/ SessionDies(s)
  \/ L3Cancel \/ EdgeCancel

(* Handlers, pumps and the reaper run; nobody has to connect or stop.       *)
PfFairness ==
  /\ \A u \in PfUsers : WF_pfvars(UserStep(u))
  /\ \A f \in PfFlows : WF_pfvars(PumpStep(f))
PfSpec == PfInit /\ [][PfNext]_pfvars /\ PfFairness

-----------------------------------------------------------------------------
UserType == [st : {"free", "taken", "picked", "dialling", "piped", "closing"}, sess : PfSessions \cup {PNone},
             start : 0..PfTargets - 1, tried : 0..PfTargets]
PfType   == [st : {"free", "opening", "live"}, peer : PfPeers \cup {PNone}, sess : PfSessions \cup {PNone},
             open : BOOLEAN, idle : BOOLEAN]

PfTypeOK ==
  /\ pfkind \in PfKinds /\ answering \subseteq 0..PfTargets - 1 /\ pfctx \in {"live", "done"}
  /\ slots \in 0..PfMax + 1 /\ pup \subseteq PfSessions /\ pdown \in BOOLEAN
  /\ users \in [PfUsers -> UserType] /\ pflows \in [PfFlows -> PfType]
  /\ ptable \in [PfPeers -> PfFlows \cup {PNone}] /\ pcursor \in 0..PfCursor - 1

(* The limit counts exactly the connections and flows that hold a slot, and *)
(* is never passed, whatever ends them: no path gives a slot back twice or  *)
(* not at all.                                                              *)
SlotsCounted ==
  /\ slots = Cardinality({u \in PfUsers : users[u].st # "free"})
             + Cardinality({f \in PfFlows : pflows[f].st # "free"})
  /\ slots <= PfMax

(* The table and the pumps agree: a source's entry is a flow whose pump     *)
(* runs, and no pump runs for a flow nobody tracks.                         *)
FlowsTracked ==
  /\ \A p \in PfPeers : ptable[p] # PNone => pflows[ptable[p]].st = "live" /\ pflows[ptable[p]].peer = p
  /\ \A f \in PfFlows : pflows[f].st = "live" => ptable[pflows[f].peer] = f

(* A member that refuses is skipped rather than failing the connection: one *)
(* that has tried every target of the mapping found none of them answering, *)
(* unless the forwarder stopped or, on the edge, the one session all were   *)
(* tried on died meanwhile (another may be up: it is not tried).  The edge  *)
(* refuses besides, in EdgeNoSession, whoever comes while no session is up. *)
RefusedForCause ==
  \A u \in PfUsers : users[u].st = "dialling" /\ users[u].tried = PfTargets /\ pfctx = "live"
                     => answering = {} \/ (pfkind = "edge" /\ users[u].sess \notin pup)

(* Stopping leaves nothing behind: every handler and every pump returns and *)
(* gives its slot back (Run waits for none of them).                        *)
AllReturn == (pfctx = "done") ~> (slots = 0 /\ \A p \in PfPeers : ptable[p] = PNone)
=============================================================================
