------------------------ MODULE ServerControlProofs ------------------------
(***************************************************************************)
(* What ServerControl keeps, for any number of connections and clients,    *)
(* any capacity of the pool and any number of faults and of Restarts that  *)
(* are remembered: its types, and that a pool is within its capacity and,  *)
(* with kcp and quic, of a run that has a control channel.                 *)
(***************************************************************************)
EXTENDS ServerControl, FiniteSetTheorems, TLAPS

CtlConnType == [st : {"free", "open", "acked", "checked", "taken", "control", "pool", "gone"},
                kind : {"none", "claim", "pool"}, who : CtlClients \cup {"nobody"}, stale : BOOLEAN]

(* The inductive invariant, in parts: the pool is within its capacity, ...  *)
RoomOK == IsFiniteSet(Present) /\ Cardinality(Present) <= CtlChannelSize

(* ... only a claim is answered and taken, and start holds the one it took  *)
(* until it has published it, ...                                           *)
ClaimsOK ==
  /\ \A c \in CtlConns : ctlConns[c].st \in {"acked", "taken"} => ctlConns[c].kind # "pool"
  /\ ctlRun = "taken" =>
       ctlTransport \in Announced /\ \E c \in CtlConns : ctlConns[c].st = "taken"

(* ... and with kcp and quic a run that is neither up nor being stopped has *)
(* no control channel, and no pool connection of it has passed its check.   *)
RunsOK ==
  ctlTransport \in Announced /\ ctlRun \notin {"up", "stopping"} =>
    /\ ctlChannel = 0
    /\ \A c \in CtlConns : /\ ctlConns[c].st # "pool"
                           /\ ctlConns[c].kind = "pool" /\ ctlConns[c].st = "checked" => ctlConns[c].stale

CtlInv == CtlTypeOK /\ RoomOK /\ ClaimsOK /\ RunsOK

USE CtlConnAssumption, CtlSizeAssumption

-----------------------------------------------------------------------------
(* The parts the actions are made of. *)

(* A pool that grew no member is still within its capacity.                 *)
LEMMA NoNewMember == ASSUME RoomOK, Present' \subseteq Present PROVE RoomOK'
  <1>1. /\ IsFiniteSet(Present') /\ Cardinality(Present') <= Cardinality(Present)
    BY FS_Subset DEF RoomOK
  <1>2. Cardinality(Present) \in Nat /\ Cardinality(Present') \in Nat
    BY <1>1, FS_CardinalityType DEF RoomOK
  <1> QED
    BY <1>1, <1>2 DEF RoomOK

(* Closing a connection leaves the others alone.                            *)
LEMMA ShutOK ==
  ASSUME NEW cs \in [CtlConns -> CtlConnType], NEW c
  PROVE  /\ Shut(cs, c) \in [CtlConns -> CtlConnType]
         /\ \A x \in CtlConns : x # c => Shut(cs, c)[x] = cs[x]
         /\ \A x \in CtlConns : Shut(cs, c)[x] = cs[x] \/ Shut(cs, c)[x].st \in {"free", "gone"}
         /\ c \in CtlConns => Shut(cs, c)[c].st \in {"free", "gone"}
  <1>1. CtlFree \in CtlConnType /\ CtlFree.st = "free"
    BY DEF CtlFree, CtlConnType
  <1>2. \A d \in CtlConnType : [d EXCEPT !.st = "gone"] \in CtlConnType /\ [d EXCEPT !.st = "gone"].st = "gone"
    BY DEF CtlConnType
  <1> QED
    BY <1>1, <1>2 DEF Shut

(* Connections that stay as they are, or are closed.                        *)
Closing == \A x \in CtlConns : ctlConns'[x] = ctlConns[x] \/ ctlConns'[x].st \in {"free", "gone"}

LEMMA ClosingKeeps ==
  ASSUME CtlInv, CtlTypeOK', Closing, UNCHANGED ctlTransport,
         ctlRun' = "taken" => ctlRun = "taken" /\ \A x \in CtlConns : ctlConns[x].st = "taken" => ctlConns'[x] = ctlConns[x],
         ctlTransport \in Announced /\ ctlRun' \notin {"up", "stopping"} =>
           \/ UNCHANGED <<ctlRun, ctlChannel>>
           \/ /\ ctlChannel' = 0
              /\ \A x \in CtlConns : ctlConns'[x].st # "pool" /\ (ctlConns'[x].stale \/ ctlConns'[x].st # "checked")
  PROVE  CtlInv'
  <1>1. RoomOK'
    <2>1. Present' \subseteq Present
      BY DEF Present, Closing
    <2> QED
      BY <2>1, NoNewMember DEF CtlInv
  <1>2. ClaimsOK'
    BY DEF CtlInv, ClaimsOK, Closing
  <1>3. RunsOK'
    BY DEF CtlInv, RunsOK, Closing
  <1> QED
    BY <1>1, <1>2, <1>3 DEF CtlInv

(* One connection changes, and is not put into the pool by it.              *)
LEMMA OneKeeps ==
  ASSUME CtlInv, NEW c \in CtlConns, NEW d \in CtlConnType, ctlConns' = [ctlConns EXCEPT ![c] = d],
         UNCHANGED <<ctlTransport, runVars>>, pending' \in 0 .. MaxPending, ctlFaults' \in 0 .. CtlMaxFaults,
         ctlConns[c].st = "taken" => d.st = "taken",
         d.st = "pool" => ctlConns[c].st = "pool", d.st \in {"acked", "taken"} => d.kind # "pool",
         ctlTransport \in Announced /\ ctlRun \notin {"up", "stopping"} =>
           ~(d.kind = "pool" /\ d.st = "checked" /\ ~d.stale)
  PROVE  CtlInv'
  <1>1. ctlConns'[c] = d /\ \A x \in CtlConns : x # c => ctlConns'[x] = ctlConns[x]
    BY DEF CtlInv, CtlTypeOK
  <1>2. CtlTypeOK'
    BY DEF CtlInv, CtlTypeOK, CtlConnType, runVars
  <1>3. RoomOK'
    <2>1. Present' \subseteq Present
      BY <1>1 DEF Present
    <2> QED
      BY <2>1, NoNewMember DEF CtlInv
  <1>4. ClaimsOK'
    BY <1>1 DEF CtlInv, ClaimsOK, runVars
  <1>5. RunsOK'
    <2> SUFFICES ASSUME ctlTransport \in Announced, ctlRun \notin {"up", "stopping"}
                 PROVE  /\ ctlChannel' = 0
                        /\ \A x \in CtlConns :
                             /\ ctlConns'[x].st # "pool"
                             /\ ctlConns'[x].kind = "pool" /\ ctlConns'[x].st = "checked" => ctlConns'[x].stale
      BY DEF RunsOK, runVars
    <2> QED
      BY <1>1 DEF CtlInv, RunsOK, runVars
  <1> QED
    BY <1>2, <1>3, <1>4, <1>5 DEF CtlInv

LEMMA MovedTo ==
  ASSUME CtlInv, NEW c \in CtlConns, NEW st \in {"open", "acked", "checked", "taken", "control", "pool", "gone"}
  PROVE  LET d == [ctlConns[c] EXCEPT !.st = st] IN
         /\ d \in CtlConnType /\ d.st = st /\ d.kind = ctlConns[c].kind
         /\ d.who = ctlConns[c].who /\ d.stale = ctlConns[c].stale
  <1>1. ctlConns[c] \in CtlConnType
    BY DEF CtlInv, CtlTypeOK, CtlConnType
  <1> QED
    BY <1>1 DEF CtlConnType

LEMMA CtlMoveKeeps ==
  ASSUME CtlInv, NEW c \in CtlConns, NEW st \in {"acked", "checked"}, CtlMove(c, st),
         UNCHANGED <<ctlTransport, runVars, pending, ctlFaults>>,
         ctlConns[c].st # "taken", st = "acked" => ctlConns[c].kind # "pool",
         ctlTransport \in Announced /\ ctlRun \notin {"up", "stopping"} =>
           ~(ctlConns[c].kind = "pool" /\ st = "checked" /\ ~ctlConns[c].stale)
  PROVE  CtlInv'
  <1> DEFINE d == [ctlConns[c] EXCEPT !.st = st]
  <1>1. /\ d \in CtlConnType /\ d.st = st /\ d.kind = ctlConns[c].kind /\ d.stale = ctlConns[c].stale
    <2>1. st \in {"open", "acked", "checked", "taken", "control", "pool", "gone"}
      OBVIOUS
    <2> QED
      BY <2>1, MovedTo, Zenon
  <1>2. ctlConns' = [ctlConns EXCEPT ![c] = d]
    BY DEF CtlMove
  <1>3. pending' \in 0 .. MaxPending /\ ctlFaults' \in 0 .. CtlMaxFaults
    BY DEF CtlInv, CtlTypeOK
  <1> HIDE DEF d
  <1> QED
    BY <1>1, <1>2, <1>3, OneKeeps

LEMMA CtlCloseKeeps ==
  ASSUME CtlInv, NEW c \in CtlConns, CtlClose(c), UNCHANGED <<ctlTransport, runVars, ctlFaults>>,
         pending' \in 0 .. MaxPending, ctlConns[c].st # "taken"
  PROVE  CtlInv'
  <1>1. ctlConns \in [CtlConns -> CtlConnType]
    BY DEF CtlInv, CtlTypeOK, CtlConnType
  <1>2. /\ ctlConns' \in [CtlConns -> CtlConnType]
        /\ \A x \in CtlConns : x # c => ctlConns'[x] = ctlConns[x]
        /\ ctlConns'[c].st \in {"free", "gone"}
    BY <1>1, ShutOK DEF CtlClose
  <1>3. CtlTypeOK'
    BY <1>2 DEF CtlInv, CtlTypeOK, CtlConnType, runVars
  <1> QED
    BY <1>2, <1>3, ClosingKeeps DEF Closing, runVars

LEMMA AskType == ASSUME CtlInv, AskRestart PROVE pending' \in 0 .. MaxPending
  BY DEF CtlInv, CtlTypeOK, AskRestart, Min2

-----------------------------------------------------------------------------
(* The clients, one lemma per action. *)

LEMMA CtlClaimKeeps == ASSUME CtlInv, NEW k \in CtlClients, CtlClaim(k) PROVE CtlInv'
  <1> DEFINE c == ctlNewConn
             d == [st |-> IF ctlTransport \in Websocket THEN "acked" ELSE "open",
                   kind |-> "claim", who |-> k, stale |-> FALSE]
  <1>1. c \in CtlConns /\ ctlConns[c].st = "free"
    BY DEF CtlClaim, ctlNewConn, CtlFreeConns
  <1>2. d \in CtlConnType /\ d.kind = "claim" /\ d.st \in {"acked", "open"}
    BY DEF CtlConnType
  <1>3. ctlConns' = [ctlConns EXCEPT ![c] = d]
    BY DEF CtlClaim
  <1>4. pending' \in 0 .. MaxPending /\ ctlFaults' \in 0 .. CtlMaxFaults
    BY DEF CtlInv, CtlTypeOK, CtlClaim
  <1> HIDE DEF c, d
  <1> QED
    BY <1>1, <1>2, <1>3, <1>4, OneKeeps DEF CtlClaim

LEMMA CtlDialPoolKeeps == ASSUME CtlInv, CtlDialPool PROVE CtlInv'
  <1> DEFINE c == ctlNewConn
             d == [st |-> "open", kind |-> "pool", who |-> "nobody", stale |-> FALSE]
  <1>1. c \in CtlConns /\ ctlConns[c].st = "free"
    BY DEF CtlDialPool, ctlNewConn, CtlFreeConns
  <1>2. d \in CtlConnType /\ d.st = "open"
    BY DEF CtlConnType
  <1>3. ctlConns' = [ctlConns EXCEPT ![c] = d]
    BY DEF CtlDialPool
  <1>4. pending' \in 0 .. MaxPending /\ ctlFaults' \in 0 .. CtlMaxFaults
    BY DEF CtlInv, CtlTypeOK, CtlDialPool
  <1> HIDE DEF c, d
  <1> QED
    BY <1>1, <1>2, <1>3, <1>4, OneKeeps DEF CtlDialPool

LEMMA NoticesKeeps == ASSUME CtlInv, NEW c \in CtlConns, Notices(c) PROVE CtlInv'
  <1>1. CtlFree \in CtlConnType /\ CtlFree.st = "free"
    BY DEF CtlFree, CtlConnType
  <1>2. pending' \in 0 .. MaxPending /\ ctlFaults' \in 0 .. CtlMaxFaults
    BY DEF CtlInv, CtlTypeOK, Notices
  <1> QED
    BY <1>1, <1>2, OneKeeps DEF Notices

LEMMA CtlBreakKeeps == ASSUME CtlInv, NEW c \in CtlConns, CtlBreak(c) PROVE CtlInv'
  <1> DEFINE d == [ctlConns[c] EXCEPT !.who = "nobody"]
  <1>1. ctlConns[c] \in CtlConnType
    BY DEF CtlInv, CtlTypeOK, CtlConnType
  <1>2. d \in CtlConnType /\ d.st = ctlConns[c].st /\ d.kind = "claim"
    BY <1>1 DEF CtlConnType, CtlBreak
  <1>3. ctlConns' = [ctlConns EXCEPT ![c] = d]
    BY DEF CtlBreak
  <1>4. ctlFaults' \in 0 .. CtlMaxFaults /\ pending' \in 0 .. MaxPending
    BY DEF CtlInv, CtlTypeOK, CtlBreak
  <1> HIDE DEF d
  <1> QED
    BY <1>2, <1>3, <1>4, OneKeeps DEF CtlBreak

-----------------------------------------------------------------------------
(* Claims and pool connections, one lemma per action. *)

LEMMA AnswerClaimKeeps == ASSUME CtlInv, NEW c \in CtlConns, AnswerClaim(c) PROVE CtlInv'
  BY CtlMoveKeeps DEF AnswerClaim

LEMMA FirstClaimKeeps == ASSUME CtlInv, NEW c \in CtlConns, FirstClaim(c) PROVE CtlInv'
  <1>1. ctlConns[c].st = "acked" /\ ctlConns[c].kind # "pool"
    BY DEF CtlInv, ClaimsOK, FirstClaim
  <1> QED
    BY <1>1, CtlMoveKeeps DEF FirstClaim

LEMMA SecondClaimKeeps ==
  ASSUME CtlInv, NEW c \in CtlConns, NEW first \in BOOLEAN, SecondClaim(c, first),
         first => ctlTransport \in Websocket
  PROVE  CtlInv'
  <1>1. pending' \in 0 .. MaxPending
    BY AskType DEF SecondClaim
  <1>2. CASE ~first
    BY <1>1, <1>2, CtlCloseKeeps DEF SecondClaim, CtlClose
  <1>3. CASE first
    <2> DEFINE cs == Shut(ctlConns, ctlChannel)
    <2>1. ctlConns \in [CtlConns -> CtlConnType]
      BY DEF CtlInv, CtlTypeOK, CtlConnType
    <2>2. /\ cs \in [CtlConns -> CtlConnType]
          /\ \A x \in CtlConns : cs[x] = ctlConns[x] \/ cs[x].st \in {"free", "gone"}
      BY <2>1, ShutOK
    <2>3. ctlConns' = Shut(cs, c)
      BY <1>3 DEF SecondClaim
    <2> HIDE DEF cs
    <2>4. /\ ctlConns' \in [CtlConns -> CtlConnType]
          /\ \A x \in CtlConns : ctlConns'[x] = cs[x] \/ ctlConns'[x].st \in {"free", "gone"}
      BY <2>2, <2>3, ShutOK
    <2>5. Closing
      BY <2>2, <2>4 DEF Closing
    <2>6. CtlTypeOK'
      BY <1>1, <2>4 DEF CtlInv, CtlTypeOK, CtlConnType, runVars, SecondClaim
    <2>7. ctlRun # "taken"
      BY <1>3 DEF CtlInv, ClaimsOK, Announced, Websocket
    <2> QED
      BY <2>5, <2>6, <2>7, ClosingKeeps DEF SecondClaim, runVars
  <1> QED
    BY <1>2, <1>3

LEMMA OfferKeeps == ASSUME CtlInv, NEW c \in CtlConns, Offer(c) PROVE CtlInv'
  <1>1. CASE CtlClose(c) /\ UNCHANGED ctlRun
    <2>1. pending' \in 0 .. MaxPending
      BY DEF CtlInv, CtlTypeOK, Offer
    <2> QED
      BY <1>1, <2>1, CtlCloseKeeps DEF Offer, runVars
  <1>2. CASE ctlRun = "waiting" /\ CtlMove(c, "taken") /\ ctlRun' = "taken"
    <2> DEFINE d == [ctlConns[c] EXCEPT !.st = "taken"]
    <2>1. d \in CtlConnType /\ d.st = "taken" /\ d.kind = "claim"
      BY MovedTo DEF Offer
    <2>2. ctlConns' = [ctlConns EXCEPT ![c] = d]
      BY <1>2 DEF CtlMove
    <2> HIDE DEF d
    <2>3. ctlConns'[c] = d /\ \A x \in CtlConns : x # c => ctlConns'[x] = ctlConns[x]
      BY <2>2 DEF CtlInv, CtlTypeOK
    <2>4. CtlTypeOK'
      BY <1>2, <2>1, <2>2 DEF CtlInv, CtlTypeOK, CtlConnType, Offer
    <2>5. RoomOK'
      <3>1. Present' \subseteq Present
        BY <2>1, <2>3 DEF Present
      <3> QED
        BY <3>1, NoNewMember DEF CtlInv
    <2>6. ClaimsOK'
      BY <1>2, <2>1, <2>3 DEF CtlInv, ClaimsOK, Offer
    <2>7. RunsOK'
      BY <1>2, <2>1, <2>3 DEF CtlInv, RunsOK, Offer
    <2> QED
      BY <2>4, <2>5, <2>6, <2>7 DEF CtlInv
  <1> QED
    BY <1>1, <1>2 DEF Offer

LEMMA CheckPoolKeeps == ASSUME CtlInv, NEW c \in CtlConns, CheckPool(c) PROVE CtlInv'
  <1>1. pending' \in 0 .. MaxPending
    BY DEF CtlInv, CtlTypeOK, CheckPool
  <1>2. CASE IsSet
    <2>1. ctlRun \in {"up", "stopping"}
      BY <1>2 DEF CtlInv, RunsOK, IsSet, CheckPool
    <2> QED
      BY <1>2, <2>1, CtlMoveKeeps DEF CheckPool
  <1>3. CASE ~IsSet
    BY <1>1, <1>3, CtlCloseKeeps DEF CheckPool
  <1> QED
    BY <1>2, <1>3

LEMMA CtlAdmitPoolKeeps == ASSUME CtlInv, NEW c \in CtlConns, CtlAdmitPool(c) PROVE CtlInv'
  <1>1. pending' \in 0 .. MaxPending /\ ctlConns[c].st \in {"open", "checked"}
    BY DEF CtlInv, CtlTypeOK, CtlAdmitPool
  <1>2. CASE ~ctlConns[c].stale /\ Cardinality(Present) < CtlChannelSize
    <2> DEFINE d == [ctlConns[c] EXCEPT !.st = "pool"]
    <2>1. d \in CtlConnType /\ d.st = "pool" /\ d.kind = "pool"
      BY MovedTo DEF CtlAdmitPool
    <2>2. ctlConns' = [ctlConns EXCEPT ![c] = d]
      BY <1>2 DEF CtlAdmitPool, Deliver, CtlMove
    <2> HIDE DEF d
    <2>3. ctlConns'[c] = d /\ \A x \in CtlConns : x # c => ctlConns'[x] = ctlConns[x]
      BY <2>2 DEF CtlInv, CtlTypeOK
    <2>4. CtlTypeOK'
      BY <2>1, <2>2 DEF CtlInv, CtlTypeOK, CtlConnType, CtlAdmitPool, runVars
    <2>5. RoomOK'
      <3>1. Present' = Present \cup {c} /\ c \notin Present
        BY <1>1, <2>1, <2>3 DEF Present
      <3>2. IsFiniteSet(Present) /\ Cardinality(Present) \in Nat
        BY FS_CardinalityType DEF CtlInv, RoomOK
      <3>3. IsFiniteSet(Present \cup {c}) /\ Cardinality(Present \cup {c}) = Cardinality(Present) + 1
        BY <3>1, <3>2, FS_AddElement
      <3> QED
        BY <1>2, <3>1, <3>2, <3>3 DEF RoomOK
    <2>6. ClaimsOK'
      BY <1>1, <2>1, <2>3 DEF CtlInv, ClaimsOK, CtlAdmitPool, runVars
    <2>7. ctlTransport \in Announced => ctlRun \in {"up", "stopping"}
      BY <1>2 DEF CtlInv, RunsOK, CtlAdmitPool
    <2>8. RunsOK'
      BY <2>7 DEF RunsOK, CtlAdmitPool, runVars
    <2> QED
      BY <2>4, <2>5, <2>6, <2>8 DEF CtlInv
  <1>3. CASE ~(~ctlConns[c].stale /\ Cardinality(Present) < CtlChannelSize)
    BY <1>1, <1>3, CtlCloseKeeps DEF CtlAdmitPool, Deliver
  <1> QED
    BY <1>2, <1>3

LEMMA UsePoolKeeps == ASSUME CtlInv, NEW c \in CtlConns, UsePool(c) PROVE CtlInv'
  <1>1. pending' \in 0 .. MaxPending
    BY DEF CtlInv, CtlTypeOK, UsePool
  <1> QED
    BY <1>1, CtlCloseKeeps DEF UsePool

(* The process that ends and starts again knows of no connection.           *)
LEMMA ProcessRestartsKeeps ==
  ASSUME CtlInv, ProcessRestarts, UNCHANGED <<ctlTransport, ctlFaults>>
  PROVE  CtlInv'
  <1>1. CtlFree \in CtlConnType /\ CtlFree.st = "free"
    BY DEF CtlFree, CtlConnType
  <1>2. \A d \in CtlConnType : [d EXCEPT !.st = "gone"] \in CtlConnType /\ [d EXCEPT !.st = "gone"].st = "gone"
    BY DEF CtlConnType
  <1>3. \A x \in CtlConns : ctlConns[x] \in CtlConnType
    BY DEF CtlInv, CtlTypeOK, CtlConnType
  <1>4. /\ ctlConns' \in [CtlConns -> CtlConnType]
        /\ \A x \in CtlConns : ctlConns'[x].st \in {"free", "gone"}
    BY <1>1, <1>2, <1>3 DEF ProcessRestarts
  <1>5. CtlTypeOK'
    <2>1. ctlRun' \in {"starting", "waiting"} /\ ctlChannel' = 0 /\ pending' = 0
      BY DEF ProcessRestarts, FirstRun
    <2>2. handler' \in BOOLEAN /\ bound' \in BOOLEAN /\ accepting' \in BOOLEAN /\ oldListener' \in BOOLEAN
      BY Zenon DEF ProcessRestarts
    <2>3. ctlTransport' \in CtlTransports /\ ctlFaults' \in 0 .. CtlMaxFaults
      BY DEF CtlInv, CtlTypeOK
    <2> QED
      BY <1>4, <2>1, <2>2, <2>3 DEF CtlTypeOK, CtlConnType
  <1> QED
    BY <1>4, <1>5, ClosingKeeps DEF Closing, ProcessRestarts, FirstRun

LEMMA SetControlKeeps == ASSUME CtlInv, NEW c \in CtlConns, SetControl(c) PROVE CtlInv'
  <1>1. CASE ProcessRestarts
    BY <1>1, ProcessRestartsKeeps DEF SetControl
  <1>2. CASE ~bound /\ ctlChannel' = c /\ UNCHANGED <<accepting, oldListener, pending>>
    <2> DEFINE held == IF IsSet THEN Shut(ctlConns, ctlChannel) ELSE ctlConns
    <2>1. ctlConns \in [CtlConns -> CtlConnType]
      BY DEF CtlInv, CtlTypeOK, CtlConnType
    <2>2. /\ held \in [CtlConns -> CtlConnType]
          /\ \A x \in CtlConns : held[x] = ctlConns[x] \/ held[x].st \in {"free", "gone"}
      BY <2>1, ShutOK
    <2>3. ctlTransport \notin Announced /\ ctlTransport \in CtlTransports
      BY DEF SetControl, Announced, Websocket, CtlInv, CtlTypeOK
    <2>4. ctlRun # "taken"
      BY <2>3 DEF CtlInv, ClaimsOK
    <2>5. CASE ctlConns[c].stale \/ ctlRun = "stopping"
      <3> DEFINE st == IF held[c].st = "checked" THEN "gone" ELSE held[c].st
                 d == [held[c] EXCEPT !.st = st]
      <3>1. /\ ctlConns' = [held EXCEPT ![c] = d] /\ UNCHANGED <<ctlRun, handler, bound>>
        BY <1>1, <1>2, <2>5 DEF SetControl, ProcessRestarts
      <3>2. d \in CtlConnType /\ d.st \in {"free", "gone"}
        BY <2>2 DEF CtlConnType, SetControl
      <3> HIDE DEF held, d
      <3>3. /\ ctlConns' \in [CtlConns -> CtlConnType] /\ ctlConns'[c] = d
            /\ \A x \in CtlConns : x # c => ctlConns'[x] = held[x]
        BY <2>2, <3>1, <3>2
      <3>4. Closing
        BY <2>2, <3>2, <3>3 DEF Closing
      <3>5. CtlTypeOK'
        BY <1>2, <3>1, <3>3 DEF CtlInv, CtlTypeOK, CtlConnType, SetControl
      <3> QED
        BY <2>3, <2>4, <3>1, <3>4, <3>5, ClosingKeeps DEF SetControl
    <2>6. CASE ~(ctlConns[c].stale \/ ctlRun = "stopping")
      <3> DEFINE d == [held[c] EXCEPT !.st = "control"]
      <3>1. /\ ctlConns' = [held EXCEPT ![c] = d] /\ ctlRun' = "up" /\ handler' = TRUE /\ bound' = TRUE
        BY <1>1, <1>2, <2>6 DEF SetControl, ProcessRestarts
      <3>2. d \in CtlConnType /\ d.st = "control"
        BY <2>2 DEF CtlConnType
      <3> HIDE DEF held, d
      <3>3. /\ ctlConns' \in [CtlConns -> CtlConnType] /\ ctlConns'[c] = d
            /\ \A x \in CtlConns : x # c => ctlConns'[x] = held[x]
        BY <2>2, <3>1, <3>2
      <3>4. RoomOK'
        <4>1. Present' \subseteq Present
          BY <2>2, <3>2, <3>3 DEF Present
        <4> QED
          BY <4>1, NoNewMember DEF CtlInv
      <3>5. CtlTypeOK'
        BY <1>2, <3>1, <3>3 DEF CtlInv, CtlTypeOK, CtlConnType, SetControl
      <3>6. ClaimsOK'
        BY <2>2, <3>1, <3>2, <3>3 DEF CtlInv, ClaimsOK
      <3>7. RunsOK'
        BY <2>3, <3>1 DEF RunsOK
      <3> QED
        BY <3>4, <3>5, <3>6, <3>7 DEF CtlInv
    <2> QED
      BY <2>5, <2>6
  <1> QED
    BY <1>1, <1>2 DEF SetControl

(* The end of the loop of udp closes what it has yet to accept.             *)
LEMMA BacklogOK ==
  ASSUME NEW cs \in [CtlConns -> CtlConnType]
  PROVE  /\ Backlog(cs) \in [CtlConns -> CtlConnType]
         /\ \A x \in CtlConns : Backlog(cs)[x] = cs[x] \/ Backlog(cs)[x].st \in {"free", "gone"}
  BY ShutOK DEF Backlog

LEMMA UdpHandshakeKeeps == ASSUME CtlInv, NEW c \in CtlConns, UdpHandshake(c) PROVE CtlInv'
  <1>1. ctlTransport \notin Announced /\ ctlConns \in [CtlConns -> CtlConnType]
    BY DEF UdpHandshake, Announced, CtlInv, CtlTypeOK, CtlConnType
  <1>2. CASE /\ ctlRun = "waiting" /\ ctlChannel' = c /\ CtlMove(c, "control")
             /\ ctlRun' = "up" /\ handler' = TRUE /\ bound' = TRUE /\ UNCHANGED <<accepting, pending>>
    <2> DEFINE d == [ctlConns[c] EXCEPT !.st = "control"]
    <2>1. d \in CtlConnType /\ d.st = "control"
      BY <1>1 DEF CtlConnType
    <2>2. ctlConns' = [ctlConns EXCEPT ![c] = d]
      BY <1>2 DEF CtlMove
    <2> HIDE DEF d
    <2>3. ctlConns'[c] = d /\ \A x \in CtlConns : x # c => ctlConns'[x] = ctlConns[x]
      BY <1>1, <2>2
    <2>4. CtlTypeOK'
      BY <1>2, <2>1, <2>2 DEF CtlInv, CtlTypeOK, CtlConnType, UdpHandshake
    <2>5. RoomOK'
      <3>1. Present' \subseteq Present
        BY <2>1, <2>3 DEF Present
      <3> QED
        BY <3>1, NoNewMember DEF CtlInv
    <2>6. ClaimsOK'
      BY <1>2, <2>1, <2>3 DEF CtlInv, ClaimsOK
    <2>7. RunsOK'
      BY <1>2 DEF RunsOK
    <2> QED
      BY <2>4, <2>5, <2>6, <2>7 DEF CtlInv
  <1>3. CASE /\ ctlRun = "up" /\ AskRestart /\ accepting' = FALSE /\ ctlConns' = Backlog(ctlConns)
             /\ UNCHANGED <<ctlChannel, ctlRun, handler, bound>>
    <2>1. /\ ctlConns' \in [CtlConns -> CtlConnType] /\ Closing
      BY <1>1, <1>3, BacklogOK DEF Closing
    <2>2. CtlTypeOK'
      BY <1>3, <2>1, AskType DEF CtlInv, CtlTypeOK, CtlConnType, UdpHandshake
    <2> QED
      BY <1>1, <1>3, <2>1, <2>2, ClosingKeeps DEF UdpHandshake
  <1> QED
    BY <1>2, <1>3 DEF UdpHandshake

-----------------------------------------------------------------------------
(* start, channelHandler and Restart, one lemma per action. *)

LEMMA StartWaitsKeeps == ASSUME CtlInv, StartWaits PROVE CtlInv'
  <1>1. CtlTypeOK'
    BY DEF CtlInv, CtlTypeOK, StartWaits
  <1>2. Present' = Present
    BY DEF Present, StartWaits
  <1>3. RoomOK'
    BY <1>2, NoNewMember DEF CtlInv
  <1>4. ClaimsOK' /\ RunsOK'
    BY DEF CtlInv, ClaimsOK, RunsOK, StartWaits
  <1> QED
    BY <1>1, <1>3, <1>4 DEF CtlInv

LEMMA PublishKeeps == ASSUME CtlInv, Publish PROVE CtlInv'
  <1> DEFINE c == CtlTaken
             d == [ctlConns[c] EXCEPT !.st = "control"]
  <1>1. c \in CtlConns
    BY DEF CtlInv, ClaimsOK, Publish, CtlTaken
  <1>2. d \in CtlConnType /\ d.st = "control"
    BY <1>1, MovedTo
  <1>3. ctlConns' = [ctlConns EXCEPT ![c] = d] /\ ctlChannel' = c
    BY DEF Publish, CtlMove
  <1> HIDE DEF c, d
  <1>4. ctlConns'[c] = d /\ \A x \in CtlConns : x # c => ctlConns'[x] = ctlConns[x]
    BY <1>1, <1>3 DEF CtlInv, CtlTypeOK
  <1>5. CtlTypeOK'
    BY <1>1, <1>2, <1>3 DEF CtlInv, CtlTypeOK, CtlConnType, Publish
  <1>6. RoomOK'
    <2>1. Present' \subseteq Present
      BY <1>2, <1>4 DEF Present
    <2> QED
      BY <2>1, NoNewMember DEF CtlInv
  <1>7. ClaimsOK' /\ RunsOK'
    BY <1>2, <1>4 DEF CtlInv, ClaimsOK, RunsOK, Publish
  <1> QED
    BY <1>5, <1>6, <1>7 DEF CtlInv

LEMMA HandlerFailsKeeps == ASSUME CtlInv, HandlerFails PROVE CtlInv'
  <1>1. CtlTypeOK'
    BY AskType DEF CtlInv, CtlTypeOK, HandlerFails
  <1> QED
    BY <1>1, ClosingKeeps DEF Closing, HandlerFails

LEMMA AlreadyRestartingKeeps == ASSUME CtlInv, AlreadyRestarting PROVE CtlInv'
  <1>1. CtlTypeOK'
    BY DEF CtlInv, CtlTypeOK, AlreadyRestarting, runVars
  <1> QED
    BY <1>1, ClosingKeeps DEF Closing, AlreadyRestarting, runVars

LEMMA CtlRestartStopsKeeps == ASSUME CtlInv, CtlRestartStops PROVE CtlInv'
  <1> DEFINE held == IF IsSet THEN Shut(ctlConns, ctlChannel) ELSE ctlConns
  <1>1. ctlConns \in [CtlConns -> CtlConnType]
    BY DEF CtlInv, CtlTypeOK, CtlConnType
  <1>2. /\ held \in [CtlConns -> CtlConnType]
        /\ \A x \in CtlConns : held[x] = ctlConns[x] \/ held[x].st \in {"free", "gone"}
    BY <1>1, ShutOK
  <1>3. ctlConns' = Backlog(held)
    BY DEF CtlRestartStops
  <1> HIDE DEF held
  <1>4. /\ ctlConns' \in [CtlConns -> CtlConnType]
        /\ \A x \in CtlConns : ctlConns'[x] = held[x] \/ ctlConns'[x].st \in {"free", "gone"}
    BY <1>2, <1>3, BacklogOK
  <1>5. Closing
    BY <1>2, <1>4 DEF Closing
  <1>6. CtlTypeOK'
    <2>1. oldListener' \in BOOLEAN
      BY DEF CtlRestartStops
    <2>2. handler' = FALSE /\ bound' = FALSE /\ accepting' = FALSE
      BY DEF CtlRestartStops
    <2>3. /\ ctlRun' = "stopping" /\ ctlChannel' \in CtlConns \cup {0} /\ pending' \in 0 .. MaxPending
          /\ ctlFaults' \in 0 .. CtlMaxFaults /\ ctlTransport' \in CtlTransports
      BY DEF CtlInv, CtlTypeOK, CtlRestartStops
    <2> QED
      BY <1>4, <2>1, <2>2, <2>3 DEF CtlTypeOK, CtlConnType
  <1> QED
    BY <1>5, <1>6, ClosingKeeps DEF CtlRestartStops

(* The next run knows of nothing but stale connections.                     *)
LEMMA CtlRestartStartsKeeps == ASSUME CtlInv, CtlRestartStarts PROVE CtlInv'
  <1>1. ctlConns \in [CtlConns -> CtlConnType]
    BY DEF CtlInv, CtlTypeOK, CtlConnType
  <1>2. ASSUME NEW x \in CtlConns
        PROVE  /\ CtlReplaced(x) \in CtlConnType
               /\ \/ CtlReplaced(x).st \in {"free", "gone"}
                  \/ /\ CtlReplaced(x).stale /\ CtlReplaced(x).st = ctlConns[x].st
                     /\ CtlReplaced(x).kind = ctlConns[x].kind
                     /\ ctlConns[x].st \notin {"pool", "taken"}
    <2>1. CtlFree \in CtlConnType /\ CtlFree.st = "free"
      BY DEF CtlFree, CtlConnType
    <2>2. Shut(ctlConns, x)[x] \in CtlConnType /\ Shut(ctlConns, x)[x].st \in {"free", "gone"}
      BY <1>1, ShutOK
    <2>3. LET d == [ctlConns[x] EXCEPT !.stale = TRUE] IN
          d \in CtlConnType /\ d.stale /\ d.st = ctlConns[x].st /\ d.kind = ctlConns[x].kind
      BY <1>1 DEF CtlConnType
    <2> QED
      BY <2>1, <2>2, <2>3 DEF CtlReplaced
  <1>3. ctlConns' \in [CtlConns -> CtlConnType] /\ \A x \in CtlConns : ctlConns'[x] = CtlReplaced(x)
    BY <1>2 DEF CtlRestartStarts
  <1>4. CtlTypeOK'
    <2>1. ctlFaults' \in 0 .. CtlMaxFaults
      BY DEF CtlInv, CtlTypeOK, CtlRestartStarts, Slept
    <2> QED
      BY <1>3, <2>1 DEF CtlInv, CtlTypeOK, CtlConnType, CtlRestartStarts, FirstRun
  <1>5. RoomOK'
    <2>1. Present' \subseteq Present
      BY <1>2, <1>3 DEF Present
    <2> QED
      BY <2>1, NoNewMember DEF CtlInv
  <1>6. ClaimsOK'
    BY <1>2, <1>3 DEF CtlInv, ClaimsOK, CtlRestartStarts, FirstRun
  <1>7. RunsOK'
    BY <1>2, <1>3 DEF RunsOK, CtlRestartStarts
  <1> QED
    BY <1>4, <1>5, <1>6, <1>7 DEF CtlInv

LEMMA OldListenerClosesKeeps == ASSUME CtlInv, OldListenerCloses PROVE CtlInv'
  <1>1. ctlConns \in [CtlConns -> CtlConnType]
    BY DEF CtlInv, CtlTypeOK, CtlConnType
  <1>2. ctlConns' \in [CtlConns -> CtlConnType] /\ Closing
    BY <1>1, ShutOK DEF OldListenerCloses, Closing
  <1>3. CtlTypeOK'
    BY <1>2 DEF CtlInv, CtlTypeOK, CtlConnType, OldListenerCloses
  <1>4. ctlRun = "taken" => ctlChannel = 0
    BY DEF CtlInv, ClaimsOK, RunsOK
  <1>5. ctlRun' = "taken" => UNCHANGED ctlConns
    BY <1>4 DEF OldListenerCloses, IsSet
  <1> QED
    BY <1>2, <1>3, <1>5, ClosingKeeps DEF OldListenerCloses

-----------------------------------------------------------------------------
(* The theorems. *)

LEMMA CtlInitHolds == CtlInit => CtlInv
  <1> SUFFICES ASSUME CtlInit PROVE CtlInv
    OBVIOUS
  <1>1. CtlTypeOK
    <2>1. CtlFree \in CtlConnType
      BY DEF CtlFree, CtlConnType
    <2>2. ctlConns \in [CtlConns -> CtlConnType]
      BY <2>1 DEF CtlInit
    <2>3. ctlRun \in {"starting", "waiting"} /\ ctlChannel = 0 /\ pending = 0 /\ ctlFaults = 0
      BY DEF CtlInit, FirstRun
    <2>4. handler \in BOOLEAN /\ bound \in BOOLEAN /\ accepting \in BOOLEAN /\ oldListener \in BOOLEAN
      BY Zenon DEF CtlInit
    <2>5. ctlTransport \in CtlTransports
      BY DEF CtlInit
    <2> QED
      BY <2>2, <2>3, <2>4, <2>5 DEF CtlTypeOK, CtlConnType
  <1>2. Present = {}
    BY DEF CtlInit, Present, CtlFree
  <1>3. RoomOK
    BY <1>2, FS_EmptySet DEF RoomOK
  <1>4. ClaimsOK /\ RunsOK
    BY DEF CtlInit, ClaimsOK, RunsOK, CtlFree, FirstRun
  <1> QED
    BY <1>1, <1>3, <1>4 DEF CtlInv

LEMMA CtlNextHolds == CtlInv /\ [CtlNext]_ctlVars => CtlInv'
  <1> SUFFICES ASSUME CtlInv, [CtlNext]_ctlVars PROVE CtlInv'
    OBVIOUS
  <1>1. ASSUME NEW k \in CtlClients, CtlClaim(k) PROVE CtlInv'
    BY <1>1, CtlClaimKeeps
  <1>2. ASSUME NEW c \in CtlConns, Notices(c) \/ CtlBreak(c) \/ UsePool(c) PROVE CtlInv'
    BY <1>2, NoticesKeeps, CtlBreakKeeps, UsePoolKeeps
  <1>3. ASSUME NEW c \in CtlConns, CtlAdmission(c) PROVE CtlInv'
    <2>1. CASE KcpAcceptSession(c) \/ QuicAcceptStream(c)
      BY <2>1, AnswerClaimKeeps, SecondClaimKeeps, FirstClaimKeeps, OfferKeeps
      DEF KcpAcceptSession, QuicAcceptStream
    <2>2. CASE WsTunnelListener(c) \/ WsMuxTunnelListener(c)
      BY <2>2, SecondClaimKeeps, FirstClaimKeeps, SetControlKeeps
      DEF WsTunnelListener, WsMuxTunnelListener, Websocket
    <2>3. CASE UdpHandshake(c) \/ CheckPool(c) \/ CtlAdmitPool(c)
      BY <2>3, UdpHandshakeKeeps, CheckPoolKeeps, CtlAdmitPoolKeeps
    <2> QED
      BY <1>3, <2>1, <2>2, <2>3 DEF CtlAdmission
  <1>4. ASSUME CtlDialPool \/ KcpStart \/ QuicStart \/ channelHandler PROVE CtlInv'
    BY <1>4, CtlDialPoolKeeps, StartWaitsKeeps, PublishKeeps, HandlerFailsKeeps
    DEF KcpStart, QuicStart, channelHandler, KcpChannelHandler, QuicChannelHandler, WsChannelHandler,
        WsMuxChannelHandler, UdpChannelHandler
  <1>5. ASSUME CtlRestart \/ OldListenerCloses PROVE CtlInv'
    BY <1>5, AlreadyRestartingKeeps, CtlRestartStopsKeeps, CtlRestartStartsKeeps, OldListenerClosesKeeps
    DEF CtlRestart, KcpCtlRestart, QuicCtlRestart, WsCtlRestart, WsMuxCtlRestart, UdpRestart
  <1>6. ASSUME UNCHANGED ctlVars PROVE CtlInv'
    <2>1. CtlTypeOK'
      BY <1>6 DEF CtlInv, CtlTypeOK, ctlVars, runVars
    <2> QED
      BY <1>6, <2>1, ClosingKeeps DEF Closing, ctlVars, runVars
  <1> QED
    BY <1>1, <1>2, <1>3, <1>4, <1>5, <1>6 DEF CtlNext

LEMMA CtlInvariantHolds == CtlSpec => []CtlInv
  BY CtlInitHolds, CtlNextHolds, PTL DEF CtlSpec

(* kcp.go, quic.go, ws.go, wsmux.go, udp.go: every reachable state of the   *)
(* five servers is well typed; the control channel, when there is one, is a *)
(* connection, also across Restarts and processes that end.                 *)
THEOREM CtlTypeCorrect == CtlSpec => []CtlTypeOK
  <1>1. CtlInv => CtlTypeOK
    BY DEF CtlInv
  <1> QED
    BY <1>1, CtlInvariantHolds, PTL

(* acceptSession, acceptStream, Restart: whatever claims, restarts and late *)
(* goroutines fall between the check of a pool connection and its delivery, *)
(* it is in the pool of a run with a control channel, and no pool is over   *)
(* its capacity.                                                            *)
THEOREM PoolsHaveControl == CtlSpec => []PoolHasControl
  <1>1. CtlInv => PoolHasControl
    BY DEF CtlInv, RoomOK, RunsOK, PoolHasControl, Present
  <1> QED
    BY <1>1, CtlInvariantHolds, PTL
=============================================================================
