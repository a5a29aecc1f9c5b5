------------------------------ MODULE MtuProbe ------------------------------
(***************************************************************************)
(* The search for the largest packet the path carries, and what it does to *)
(* the interface (mtuprobe.go).  One end probes; the path drops what is    *)
(* too large, loses what it likes and answers late; the session can go     *)
(* away and the generation of the tunnel can end in the middle.            *)
(***************************************************************************)
EXTENDS Integers, FiniteSetsExt

CONSTANTS
  minMTU,         \* the floor of the search
  Ceiling,        \* MTUFor(1500, ...), capped at maxMTU
  Configured,     \* the MTU of the config
  Sizes,          \* what the path may carry at one time or another
  probeAttempts,  \* tries before a size is called too large
  ProbeIds        \* probe identifiers that can be told apart: 1 .. n

ASSUME SizeAssumption    == /\ minMTU \in Nat /\ Ceiling \in Nat /\ Configured \in Nat
                            /\ 0 < minMTU /\ minMTU <= Ceiling
                            /\ Sizes \subseteq Nat
ASSUME AttemptAssumption == probeAttempts \in Nat \ {0}
ASSUME ProbeIdAssumption == ProbeIds \subseteq Nat \ {0}

VARIABLES
  mtu,        \* the MTU of the interface, and mtuCurrent
  ctxDone,    \* the generation has ended
  session,    \* whether there is a session and a peer to send a probe with
  path,       \* the largest inner packet the path carries now
  phase,      \* where searchMTU stands: "rest" between rounds
  size,       \* the size probeOnce is trying
  tries,      \* tries of it that failed
  best, lo, hi,
  waiter,     \* the identifier in probeWaiters, 0 when nobody waits
  probes,     \* probes on the path
  acks,       \* identifiers of answers on the path
  found,      \* what the last round returned, 0 for an error
  widest,     \* the most the path has carried since the round began
  disturbed   \* whether path, session or generation changed, or every try of
              \* a size that fits was lost, since the round began

search   == <<phase, size, tries, best, lo, hi>>
wire     == <<waiter, probes, acks>>
history  == <<widest, disturbed>>
mtuVars     == <<mtu, ctxDone, session, path, search, wire, found, history>>

MtuInit ==
  /\ mtu = Configured
  /\ ctxDone = FALSE
  /\ session \in BOOLEAN
  /\ path \in Sizes
  /\ phase = "rest" /\ size = 0 /\ tries = 0 /\ best = 0 /\ lo = 0 /\ hi = 0
  /\ waiter = 0 /\ probes = {} /\ acks = {}
  /\ found = 0 /\ widest = 0 /\ disturbed = TRUE

-----------------------------------------------------------------------------
(* How a round ends and how it goes on. *)

(* searchMTU returned an error: the interface is left alone. *)
GiveUp ==
  /\ phase' = "rest" /\ found' = 0
  /\ size' = 0 /\ tries' = 0 /\ best' = 0 /\ lo' = 0 /\ hi' = 0
  /\ UNCHANGED mtu

(* measureAndApply with a figure: SetMTU takes it or fails. *)
Apply(f) ==
  /\ phase' = "rest" /\ found' = f
  /\ size' = 0 /\ tries' = 0 /\ best' = 0 /\ lo' = 0 /\ hi' = 0
  /\ mtu' \in {f, mtu}

(* probeOnce on another size. *)
Try(p, s) ==
  /\ phase' = p /\ size' = s /\ tries' = 0
  /\ UNCHANGED <<mtu, found>>

(* The head of the loop of searchMTU. *)
Bisect(b, l, h) ==
  \/ /\ l > h
     /\ Apply(b)
  \/ /\ l <= h
     /\ ctxDone
     /\ GiveUp
  \/ /\ l <= h
     /\ ~ctxDone
     /\ Try("bisect", (l + h) \div 2)
     /\ best' = b /\ lo' = l /\ hi' = h

AnsweredStuckMutant(ok) ==
  CASE phase = "ceiling" -> IF ok THEN Apply(Ceiling)
                                  ELSE Try("floor", minMTU) /\ UNCHANGED <<best, lo, hi>>
    [] phase = "floor"   -> IF ok THEN Bisect(minMTU, minMTU + 1, Ceiling - 1) ELSE GiveUp
    [] phase = "bisect"  -> IF ok THEN Bisect(size, size, hi) ELSE Bisect(best, lo, size - 1)

(* searchMTU once probeOnce has answered for size. *)
Answered(ok) ==
  CASE phase = "ceiling" -> IF ok THEN Apply(Ceiling)
                                  ELSE Try("floor", minMTU) /\ UNCHANGED <<best, lo, hi>>
    [] phase = "floor"   -> IF ok THEN Bisect(minMTU, minMTU + 1, Ceiling - 1) ELSE GiveUp
    [] phase = "bisect"  -> IF ok THEN Bisect(size, size + 1, hi) ELSE Bisect(best, lo, size - 1)

(* One try failed: probeOnce tries again or answers no. *)
TryFailed ==
  IF tries + 1 < probeAttempts /\ ~ctxDone
    THEN /\ tries' = tries + 1
         /\ UNCHANGED <<mtu, phase, size, best, lo, hi, found, disturbed>>
    ELSE /\ Answered(FALSE)
         /\ disturbed' = (disturbed \/ size <= path)

-----------------------------------------------------------------------------
(* The prober. *)

(* probeLoop starts a round: the ceiling first. *)
StartRound ==
  /\ phase = "rest"
  /\ ~ctxDone
  /\ Try("ceiling", Ceiling)
  /\ widest' = path /\ disturbed' = ~session
  /\ UNCHANGED <<ctxDone, session, path, best, lo, hi, wire>>

(* sendProbe: without a session it fails at once; otherwise it registers    *)
(* its waiter, and only then sends.                                         *)
sendProbe ==
  /\ phase # "rest"
  /\ waiter = 0
  /\ ~ctxDone
  /\ \/ /\ ~session
        /\ TryFailed
        /\ UNCHANGED wire
     \/ /\ session
        /\ LET free == ProbeIds \ ({p.id : p \in probes} \cup acks) IN
             /\ free # {}
             /\ waiter' = Min(free)
             /\ probes' = probes \cup {[id |-> Min(free), size |-> size]}
        /\ UNCHANGED <<mtu, search, acks, found, disturbed>>
  /\ UNCHANGED <<ctxDone, session, path, widest>>

(* probeTimeout passes. *)
ProbeTimeout ==
  /\ waiter # 0
  /\ waiter' = 0
  /\ TryFailed
  /\ UNCHANGED <<ctxDone, session, path, probes, acks, widest>>

(* The generation ended under a try: the wait and the tries are cut short.  *)
Interrupted ==
  /\ phase # "rest"
  /\ ctxDone
  /\ waiter' = 0
  /\ TryFailed
  /\ UNCHANGED <<ctxDone, session, path, probes, acks, widest>>

handleProbeAckAnyMutant(i) ==
  /\ i \in acks
  /\ acks' = acks \ {i}
  /\ \/ /\ waiter # 0
        /\ waiter' = 0
        /\ Answered(TRUE)
     \/ /\ waiter = 0
        /\ UNCHANGED <<mtu, search, waiter, found>>
  /\ UNCHANGED <<ctxDone, session, path, probes, history>>

(* handleProbeAck: an answer wakes the probe it names; one that nobody      *)
(* waits for any more is ignored.                                           *)
handleProbeAck(i) ==
  /\ i \in acks
  /\ acks' = acks \ {i}
  /\ \/ /\ waiter = i
        /\ waiter' = 0
        /\ Answered(TRUE)
     \/ /\ waiter # i
        /\ UNCHANGED <<mtu, search, waiter, found>>
  /\ UNCHANGED <<ctxDone, session, path, probes, history>>

-----------------------------------------------------------------------------
(* The peer, the path and the rest of the tunnel. *)

(* A probe that fits arrives, and answerProbe sends its small answer.       *)
CarryProbe(p) ==
  /\ p \in probes
  /\ p.size <= path
  /\ probes' = probes \ {p}
  /\ acks' = acks \cup {p.id}
  /\ UNCHANGED <<mtu, ctxDone, session, path, search, waiter, found, history>>

Lose ==
  /\ \/ /\ \E p \in probes : probes' = probes \ {p}
        /\ UNCHANGED acks
     \/ /\ \E i \in acks : acks' = acks \ {i}
        /\ UNCHANGED probes
  /\ UNCHANGED <<mtu, ctxDone, session, path, search, waiter, found, history>>

(* The session expires, and nothing sealed under it opens any more ...      *)
SessionLost ==
  /\ session
  /\ session' = FALSE
  /\ probes' = {} /\ acks' = {}
  /\ disturbed' = TRUE
  /\ UNCHANGED <<mtu, ctxDone, path, search, waiter, found, widest>>

(* ... or one comes up. *)
SessionUp ==
  /\ ~session
  /\ session' = TRUE
  /\ disturbed' = TRUE
  /\ UNCHANGED <<mtu, ctxDone, path, search, wire, found, widest>>

PathChange ==
  /\ path' \in Sizes \ {path}
  /\ disturbed' = TRUE
  /\ widest' = Max({widest, path'})
  /\ UNCHANGED <<mtu, ctxDone, session, search, wire, found>>

EndGeneration ==
  /\ ~ctxDone
  /\ ctxDone' = TRUE
  /\ disturbed' = TRUE
  /\ UNCHANGED <<mtu, session, path, search, wire, found, widest>>

(* Run again: the device is opened with the configured MTU.                 *)
NewGeneration ==
  /\ ctxDone
  /\ phase = "rest"
  /\ ctxDone' = FALSE
  /\ mtu' = Configured
  /\ found' = 0
  /\ UNCHANGED <<session, path, search, wire, history>>

MtuNext ==
  \/ StartRound \/ sendProbe \/ ProbeTimeout \/ Interrupted
  \/ \E i \in ProbeIds : handleProbeAck(i)
  \/ \E p \in probes : CarryProbe(p)
  \/ Lose \/ SessionLost \/ SessionUp \/ PathChange \/ EndGeneration \/ NewGeneration

MtuSpec == MtuInit /\ [][MtuNext]_mtuVars

(* The prober's goroutine runs, its timer fires, and datagrams do not stay  *)
(* on the path for ever.                                                    *)
MtuFairSpec ==
  MtuSpec /\ WF_mtuVars(sendProbe) /\ WF_mtuVars(ProbeTimeout) /\ WF_mtuVars(Interrupted) /\ WF_mtuVars(Lose)

-----------------------------------------------------------------------------
(* Properties. *)

(* The search stays inside its bounds and the buffers hold identifiers.     *)
MtuTypeOK ==
  /\ mtu \in {Configured} \cup (minMTU .. Ceiling)
  /\ ctxDone \in BOOLEAN /\ session \in BOOLEAN
  /\ path \in Sizes
  /\ phase \in {"rest", "ceiling", "floor", "bisect"}
  /\ size \in {0} \cup (minMTU .. Ceiling)
  /\ tries \in 0 .. (probeAttempts - 1)
  /\ {best, lo, hi} \subseteq 0 .. Ceiling
  /\ waiter \in {0} \cup ProbeIds
  /\ probes \subseteq [id : ProbeIds, size : minMTU .. Ceiling]
  /\ acks \subseteq ProbeIds
  /\ found \in {0} \cup (minMTU .. Ceiling)
  /\ widest \in Nat /\ disturbed \in BOOLEAN

(* The interface is never set to more than the path carried at some time    *)
(* during the round: a late answer to another probe never vouches for a     *)
(* size.                                                                    *)
NeverAbovePath == phase = "rest" /\ found # 0 => found <= widest

(* On a path that holds still and loses fewer than probeAttempts of any one *)
(* size, the search returns exactly what the path carries, or an error when *)
(* that is below the floor.                                                 *)
ExactWhenUndisturbed ==
  phase = "rest" /\ ~disturbed =>
    found = IF path < minMTU THEN 0 ELSE Min({path, Ceiling})

(* Every round ends. *)
RoundEnds == [](phase # "rest" => <>(phase = "rest"))
=============================================================================
