------------------------ MODULE SealedSessionProofs ------------------------
(***************************************************************************)
(* Proofs about SealedSession, for every width of the window, every nonce  *)
(* limit, every counter range and any set of sealers.                      *)
(* After it, the search for the path MTU, for any floor, ceiling, number   *)
(* of tries and sizes of the path.                                         *)
(***************************************************************************)
EXTENDS MCSealedMtu, WellFoundedInduction, TLAPS

USE DEF None

-----------------------------------------------------------------------------
(* The arithmetic of the ring. *)

(* slot is a position of the ring. *)
LEMMA SlotInRing ==
  \A c \in Nat : slot(c) \in 0 .. (replayWindowBits - 1)
BY WindowAssumption DEF slot

(* Two different counters less than a window apart have different slots. *)
LEMMA SlotsDiffer ==
  \A a, b \in Nat : a < b /\ b - a < replayWindowBits => slot(a) # slot(b)
<1> DEFINE W == replayWindowBits
<1> SUFFICES ASSUME NEW a \in Nat, NEW b \in Nat, a < b, b - a < W,
                    a % W = b % W
             PROVE  FALSE
  BY DEF slot
<1>1. a = W * (a \div W) + (a % W) /\ b = W * (b \div W) + (b % W)
  BY WindowAssumption
<1> DEFINE p == a \div W
           q == b \div W
<1>2. p \in Int /\ q \in Int /\ a % W \in Int
  BY WindowAssumption
<1> HIDE DEF p, q
<1>3. b - a = W * q - W * p
  BY <1>1, <1>2, WindowAssumption DEF p, q
<1>4. CASE q <= p
  <2>1. W * q <= W * p
    BY <1>2, <1>4, WindowAssumption
  <2> QED
    BY <1>2, <1>3, <2>1, WindowAssumption
<1>5. CASE q >= p + 1
  <2>1. W * q >= W * (p + 1)
    BY <1>2, <1>5, WindowAssumption
  <2>2. W * (p + 1) = W * p + W
    BY <1>2, WindowAssumption
  <2> QED
    BY <1>2, <1>3, <2>1, <2>2, WindowAssumption
<1> QED
  BY <1>2, <1>4, <1>5
-----------------------------------------------------------------------------
(* The inductive invariant. *)

(* A nonce is behind sendCounter from the moment it is drawn, belongs to one *)
(* sealer while it is held, and is never held again once it was used.        *)
NonceInv ==
  /\ \A s \in Sealers : held[s] # None => held[s] < sendCounter
  /\ \A s, t \in Sealers : s # t /\ held[s] # None => held[s] # held[t]
  /\ \A c \in Counter : encrypted[c] > 0 =>
       /\ c < sendCounter
       /\ \A s \in Sealers : held[s] # c
  /\ \A c \in Counter : encrypted[c] <= 1

(* The receiver's record: inside the window the ring says exactly which      *)
(* counters were opened, the mark is the highest of them, and nothing was    *)
(* opened that was not sealed.                                               *)
WindowInv ==
  /\ \A c \in Counter : opened[c] <= 1 /\ opened[c] <= encrypted[c]
  /\ ~seeded => bitmap = {} /\ \A c \in Counter : opened[c] = 0
  /\ seeded => /\ opened[max] = 1
               /\ \A c \in Counter : opened[c] > 0 => c <= max
               /\ \A c \in Counter : c <= max /\ max - c < replayWindowBits =>
                    (slot(c) \in bitmap <=> opened[c] > 0)

IInv == TypeOK /\ NonceInv /\ WindowInv

(* Once the window is exact, accept is the unbounded receiver's answer. *)
LEMMA WindowGivesAccept == TypeOK /\ WindowInv => AcceptIsExact
<1> SUFFICES ASSUME TypeOK, WindowInv, NEW c \in Counter
             PROVE  accept(c) <=> /\ opened[c] = 0
                                  /\ \A d \in Counter :
                                       opened[d] > 0 => d - c < replayWindowBits
  BY DEF AcceptIsExact
<1> USE WindowAssumption, CounterAssumption
<1>1. CASE ~seeded
  BY <1>1 DEF accept, WindowInv
<1>2. CASE seeded /\ c > max
  <2>1. accept(c)
    BY <1>2 DEF accept
  <2>2. \A d \in Counter : opened[d] > 0 => d <= max
    BY <1>2 DEF WindowInv
  <2> QED
    BY <1>2, <2>1, <2>2 DEF TypeOK, Counter
<1>3. CASE seeded /\ c <= max /\ max - c >= replayWindowBits
  <2>1. ~accept(c)
    BY <1>3 DEF accept, TypeOK, Counter
  <2> QED
    BY <1>3, <2>1 DEF WindowInv, TypeOK, Counter
<1>4. CASE seeded /\ c <= max /\ max - c < replayWindowBits
  <2>1. accept(c) <=> slot(c) \notin bitmap
    BY <1>4 DEF accept, TypeOK, Counter
  <2>2. slot(c) \in bitmap <=> opened[c] > 0
    BY <1>4 DEF WindowInv
  <2>3. \A d \in Counter : opened[d] > 0 => d - c < replayWindowBits
    BY <1>4 DEF WindowInv, TypeOK, Counter
  <2> QED
    BY <2>1, <2>2, <2>3 DEF TypeOK
<1> QED
  BY <1>1, <1>2, <1>3, <1>4 DEF TypeOK, Counter

(* commit keeps the set bits inside the ring. *)
LEMMA CommitType ==
  ASSUME TypeOK, NEW c \in Counter, commit(c)
  PROVE  /\ seeded' = TRUE
         /\ max' \in Counter
         /\ bitmap' \in SUBSET (0 .. (replayWindowBits - 1))
<1>1. seeded' = TRUE
  BY DEF commit
<1>2. max' \in Counter
  BY DEF commit, TypeOK
<1>3. c \in Nat
  BY CounterAssumption DEF Counter
<1>4. bitmap' \in SUBSET (0 .. (replayWindowBits - 1))
  BY <1>3, SlotInRing DEF commit, TypeOK
<1> QED
  BY <1>1, <1>2, <1>4

(* commit of an eligible counter moves the ring along with the set of        *)
(* opened counters.  The three cases are the three ways the mark can move.   *)
LEMMA CommitKeepsWindow ==
  ASSUME TypeOK, WindowInv, NEW c \in Counter, accept(c), commit(c),
         encrypted[c] > 0, encrypted' = encrypted,
         opened' = [opened EXCEPT ![c] = @ + 1]
  PROVE  WindowInv'
<1> USE WindowAssumption, CounterAssumption
<1>1. opened[c] = 0
  BY WindowGivesAccept DEF AcceptIsExact
<1>2. \A d \in Counter : opened'[d] = IF d = c THEN 1 ELSE opened[d]
  BY <1>1 DEF TypeOK
<1>3. seeded' /\ max' \in Counter
  BY CommitType
<1>4. \A d \in Counter : opened'[d] <= 1 /\ opened'[d] <= encrypted'[d]
  BY <1>2 DEF WindowInv, TypeOK
<1>5. opened'[max'] = 1 /\ \A d \in Counter : opened'[d] > 0 => d <= max'
  BY <1>2 DEF commit, WindowInv, TypeOK, Counter
<1>6. ASSUME NEW d \in Counter, d <= max', max' - d < replayWindowBits
      PROVE  slot(d) \in bitmap' <=> opened'[d] > 0
  <2>0. d \in Nat /\ c \in Nat /\ max \in Nat
    BY DEF TypeOK, Counter
  <2>1. CASE d = c
    BY <1>2, <2>1 DEF commit
  <2>2. CASE d # c
    <3>1. opened'[d] = opened[d]
      BY <1>2, <2>2
    <3>2. slot(d) # slot(c)
      <4>1. CASE ~seeded \/ c > max
        BY <1>6, <2>0, <2>2, <4>1, SlotsDiffer DEF commit
      <4>2. CASE seeded /\ c <= max
        <5>1. max' = max
          BY <2>0, <4>2 DEF commit
        <5>2. max - c < replayWindowBits
          BY <2>0, <4>2 DEF accept
        <5>3. d - c < replayWindowBits /\ c - d < replayWindowBits
          BY <1>6, <2>0, <4>2, <5>1, <5>2
        <5> QED
          BY <2>0, <2>2, <5>3, SlotsDiffer
      <4> QED
        BY <2>0, <4>1, <4>2
    <3>3. slot(d) \in bitmap' <=> slot(d) \in bitmap /\ slot(d) \notin cleared(c)
      BY <3>2 DEF commit
    <3>4. CASE ~seeded
      BY <3>1, <3>3, <3>4 DEF WindowInv
    <3>5. CASE seeded /\ c <= max
      BY <1>6, <2>0, <3>1, <3>3, <3>5 DEF commit, cleared, WindowInv
    <3>6. CASE seeded /\ c > max /\ c - max >= replayWindowBits
      <4>1. slot(d) \in cleared(c)
        BY <2>0, <3>6, SlotInRing DEF cleared
      <4>2. d > max
        BY <1>6, <2>0, <3>6 DEF commit
      <4>3. opened[d] = 0
        BY <2>0, <3>6, <4>2 DEF WindowInv, TypeOK
      <4> QED
        BY <3>1, <3>3, <4>1, <4>3
    <3>7. CASE seeded /\ c > max /\ c - max < replayWindowBits
      <4>0. cleared(c) = {slot(e) : e \in (max + 1) .. c}
        BY <2>0, <3>7 DEF cleared
      <4>1. CASE d > max
        <5>1. d \in (max + 1) .. c
          BY <1>6, <2>0, <3>7, <4>1 DEF commit
        <5>2. opened[d] = 0
          BY <2>0, <3>7, <4>1 DEF WindowInv, TypeOK
        <5> QED
          BY <3>1, <3>3, <4>0, <5>1, <5>2
      <4>2. CASE d <= max
        <5>1. max' = c
          BY <3>7 DEF commit
        <5>2. \A e \in (max + 1) .. c : slot(d) # slot(e)
          BY <1>6, <2>0, <4>2, <5>1, SlotsDiffer
        <5>3. max - d < replayWindowBits
          BY <1>6, <2>0, <3>7, <5>1
        <5> QED
          BY <3>1, <3>3, <3>7, <4>0, <4>2, <5>2, <5>3 DEF WindowInv
      <4> QED
        BY <2>0, <4>1, <4>2
    <3> QED
      BY <2>0, <3>4, <3>5, <3>6, <3>7
  <2> QED
    BY <2>1, <2>2
<1> QED
  BY <1>3, <1>4, <1>5, <1>6 DEF WindowInv
-----------------------------------------------------------------------------
(* Every step keeps the invariant. *)

(* A new session has used no nonce, and its window is empty.                 *)
LEMMA InitInv == Init => IInv
<1> SUFFICES ASSUME Init PROVE IInv
  OBVIOUS
<1>1. TypeOK
  <2>1. seeded \in BOOLEAN /\ bitmap \in SUBSET (0 .. (replayWindowBits - 1))
    BY DEF Init
  <2>2. max \in Counter
    BY CounterAssumption DEF Init, Counter
  <2>3. encrypted \in [Counter -> Nat] /\ opened \in [Counter -> Nat]
    BY DEF Init
  <2>4. sendCounter \in Nat /\ held \in [Sealers -> Nat \cup {None}]
    BY DEF Init
  <2> QED
    BY <2>1, <2>2, <2>3, <2>4 DEF TypeOK
<1>2. NonceInv
  BY DEF Init, NonceInv
<1>3. WindowInv
  BY DEF Init, WindowInv
<1> QED
  BY <1>1, <1>2, <1>3 DEF IInv

(* Drawing a nonce: it is fresh because every nonce in use is behind it. *)
LEMMA DrawInv ==
  ASSUME IInv, NEW s \in Sealers, Draw(s)
  PROVE  IInv'
<1> USE DEF IInv
<1>1. TypeOK'
  BY DEF Draw, TypeOK
<1>2. NonceInv'
  <2>1. \A t \in Sealers : held'[t] = IF t = s THEN sendCounter ELSE held[t]
    BY DEF Draw, TypeOK
  <2>2. sendCounter' = sendCounter + 1 /\ encrypted' = encrypted
    BY DEF Draw
  <2> QED
    BY <2>1, <2>2 DEF NonceInv, TypeOK, Counter
<1>3. WindowInv'
  BY DEF Draw, WindowInv, slot
<1> QED
  BY <1>1, <1>2, <1>3

(* Encrypting: the nonce held by this sealer is one nobody has used. *)
LEMMA EncryptInv ==
  ASSUME IInv, NEW s \in Sealers, Encrypt(s)
  PROVE  IInv'
<1> USE DEF IInv
<1>1. held[s] \in Nat
  BY DEF Encrypt, TypeOK
<1>2. \A t \in Sealers : held'[t] = IF t = s THEN None ELSE held[t]
  BY DEF Encrypt, TypeOK
<1>3. UNCHANGED <<sendCounter, max, seeded, bitmap, opened>>
  BY DEF Encrypt
<1>4. CASE held[s] >= rejectAfterMessages /\ encrypted' = encrypted
  <2>1. TypeOK'
    BY <1>3, <1>4 DEF Encrypt, TypeOK
  <2>2. NonceInv'
    BY <1>2, <1>3, <1>4, CounterAssumption DEF NonceInv, TypeOK, Counter
  <2>3. WindowInv'
    BY <1>3, <1>4 DEF WindowInv, slot
  <2> QED
    BY <2>1, <2>2, <2>3
<1>5. CASE held[s] < rejectAfterMessages /\ encrypted' = [encrypted EXCEPT ![held[s]] = @ + 1]
  <2>1. held[s] \in Counter
    BY <1>1, <1>5, LimitAssumption, CounterAssumption DEF Counter
  <2>2. \A c \in Counter : encrypted'[c] = IF c = held[s] THEN encrypted[c] + 1 ELSE encrypted[c]
    BY <1>5, <2>1 DEF TypeOK
  <2>3. encrypted[held[s]] = 0
    BY <2>1 DEF NonceInv, TypeOK
  <2>4. TypeOK'
    BY <1>3, <1>5, <2>1 DEF Encrypt, TypeOK
  <2>5. NonceInv'
    <3>1. \A t \in Sealers : held'[t] # None => held'[t] < sendCounter'
      BY <1>2, <1>3 DEF NonceInv
    <3>2. \A t, u \in Sealers : t # u /\ held'[t] # None => held'[t] # held'[u]
      BY <1>2 DEF NonceInv
    <3>3. ASSUME NEW c \in Counter, encrypted'[c] > 0
          PROVE  c < sendCounter' /\ \A t \in Sealers : held'[t] # c
      <4>1. c # None
        BY CounterAssumption DEF Counter
      <4>2. CASE c = held[s]
        BY <1>1, <1>2, <1>3, <4>1, <4>2 DEF NonceInv
      <4>3. CASE c # held[s]
        BY <1>2, <1>3, <2>2, <3>3, <4>1, <4>3 DEF NonceInv
      <4> QED
        BY <4>2, <4>3
    <3>4. \A c \in Counter : encrypted'[c] <= 1
      BY <2>1, <2>2, <2>3 DEF NonceInv
    <3> QED
      BY <3>1, <3>2, <3>3, <3>4 DEF NonceInv
  <2>6. WindowInv'
    <3>1. \A c \in Counter : opened[c] <= 1 /\ opened[c] <= encrypted'[c]
      BY <2>2 DEF WindowInv, TypeOK
    <3> QED
      BY <1>3, <3>1 DEF WindowInv, slot
  <2> QED
    BY <2>4, <2>5, <2>6
<1> QED
  BY <1>4, <1>5 DEF Encrypt

(* Receiving: only an eligible, genuine datagram changes anything. *)
LEMMA OpenInv ==
  ASSUME IInv, NEW c \in Counter, NEW genuine \in BOOLEAN,
         genuine => encrypted[c] > 0, Open(c, genuine)
  PROVE  IInv'
<1> USE DEF IInv
<1>1. CASE UNCHANGED vars
  BY <1>1 DEF vars, TypeOK, NonceInv, WindowInv, slot
<1>2. CASE /\ accept(c)
           /\ genuine
           /\ commit(c)
           /\ opened' = [opened EXCEPT ![c] = @ + 1]
           /\ UNCHANGED senderVars
  <2>1. TypeOK'
    <3>1. seeded' \in BOOLEAN /\ max' \in Counter
          /\ bitmap' \in SUBSET (0 .. (replayWindowBits - 1))
      BY <1>2, CommitType
    <3>2. opened' \in [Counter -> Nat]
      BY <1>2 DEF TypeOK
    <3>3. sendCounter' \in Nat /\ held' \in [Sealers -> Nat \cup {None}]
          /\ encrypted' \in [Counter -> Nat]
      BY <1>2 DEF senderVars, TypeOK
    <3> QED
      BY <3>1, <3>2, <3>3 DEF TypeOK
  <2>2. NonceInv'
    BY <1>2 DEF senderVars, NonceInv
  <2>3. WindowInv'
    BY <1>2, CommitKeepsWindow DEF senderVars
  <2> QED
    BY <2>1, <2>2, <2>3
<1> QED
  BY <1>1, <1>2 DEF Open

(* No step of a sealer and no arriving datagram breaks the invariant.        *)
LEMMA StepInv == IInv /\ [Next]_vars => IInv'
<1> SUFFICES ASSUME IInv, [Next]_vars PROVE IInv'
  OBVIOUS
<1>1. ASSUME NEW s \in Sealers, Draw(s) PROVE IInv'
  BY <1>1, DrawInv
<1>2. ASSUME NEW s \in Sealers, Encrypt(s) PROVE IInv'
  BY <1>2, EncryptInv
<1>3. ASSUME NEW c \in Counter, Receive(c) PROVE IInv'
  BY <1>3, OpenInv DEF Receive
<1>5. CASE UNCHANGED vars
  BY <1>5 DEF vars, IInv, TypeOK, NonceInv, WindowInv, slot
<1> QED
  BY <1>1, <1>2, <1>3, <1>5 DEF Next

(* A session never leaves the invariant.                                     *)
LEMMA Invariant == Spec => []IInv
BY InitInv, StepInv, PTL DEF Spec

-----------------------------------------------------------------------------
(* The results. *)

(* Every reachable state is well typed; the ring never holds a bit outside   *)
(* its replayWindowBits slots.                                               *)
THEOREM TypeCorrect == Spec => []TypeOK
<1>1. IInv => TypeOK
  BY DEF IInv
<1> QED
  BY <1>1, Invariant, PTL

(* sealKind never encrypts two plaintexts under one nonce, with any number   *)
(* of concurrent sealers and at any message limit.                           *)
THEOREM NoncesAreUnique == Spec => []NonceUsedOnce
<1>1. IInv => NonceUsedOnce
  BY DEF IInv, NonceInv, NonceUsedOnce
<1> QED
  BY <1>1, Invariant, PTL

(* open never yields the same datagram twice and never an unsealed one.      *)
THEOREM NoReplay == Spec => []DeliveredOnce
<1>1. IInv => DeliveredOnce
  BY DEF IInv, WindowInv, DeliveredOnce
<1> QED
  BY <1>1, Invariant, PTL

(* The ring bitmap answers as a receiver with unbounded memory would, for    *)
(* every window width and every sequence of jumps.                           *)
THEOREM WindowIsExact == Spec => []AcceptIsExact
<1>1. IInv => AcceptIsExact
  BY WindowGivesAccept DEF IInv
<1> QED
  BY <1>1, Invariant, PTL

(* The detailed session implements at-most-once delivery. *)
THEOREM Refinement == Spec => ImplementsOnce
<1>1. Init => Once!Init
  BY DEF Init, Once!Init
<1>2. IInv /\ [Next]_vars => [Once!Next]_<<encrypted, opened>>
  <2> SUFFICES ASSUME IInv, [Next]_vars PROVE [Once!Next]_<<encrypted, opened>>
    OBVIOUS
  <2>1. ASSUME NEW s \in Sealers, Draw(s) PROVE UNCHANGED <<encrypted, opened>>
    BY <2>1 DEF Draw
  <2>2. ASSUME NEW s \in Sealers, Encrypt(s), encrypted' # encrypted
        PROVE  \E c \in Counter : Once!Send(c)
    <3>1. held[s] \in Counter
      BY <2>2, LimitAssumption, CounterAssumption DEF Encrypt, IInv, TypeOK, Counter
    <3>2. encrypted[held[s]] = 0
      BY <3>1 DEF IInv, NonceInv, TypeOK
    <3>3. Once!Send(held[s])
      BY <2>2, <3>1, <3>2 DEF Encrypt, Once!Send, IInv, TypeOK
    <3> QED
      BY <3>1, <3>3
  <2>3. ASSUME NEW c \in Counter, encrypted[c] > 0, Open(c, TRUE), ~ UNCHANGED vars
        PROVE  Once!Deliver(c)
    <3>1. accept(c) /\ opened' = [opened EXCEPT ![c] = @ + 1] /\ UNCHANGED encrypted
      BY <2>3 DEF Open, senderVars
    <3>2. /\ opened[c] = 0
          /\ \A d \in Counter : opened[d] > 0 => d - c < replayWindowBits
      BY <3>1, WindowGivesAccept DEF IInv, AcceptIsExact
    <3>3. encrypted[c] = 1
      BY <2>3 DEF IInv, NonceInv, TypeOK
    <3> QED
      BY <3>1, <3>2, <3>3 DEF Once!Deliver, IInv, TypeOK
  <2>4. ASSUME NEW c \in Counter, Open(c, FALSE) PROVE UNCHANGED vars
    BY <2>4 DEF Open
  <2>5. CASE UNCHANGED vars
    BY <2>5 DEF vars
  <2>6. ASSUME NEW s \in Sealers, Encrypt(s) PROVE UNCHANGED opened
    BY <2>6 DEF Encrypt
  <2>7. ASSUME NEW c \in Counter, Receive(c)
        PROVE  (encrypted[c] > 0 /\ Open(c, TRUE)) \/ Open(c, FALSE)
    BY <2>7, Zenon DEF Receive
  <2> QED
    BY <2>1, <2>2, <2>3, <2>4, <2>5, <2>6, <2>7 DEF Next, Once!Next, vars
<1> QED
  BY <1>1, <1>2, Invariant, PTL DEF Spec, ImplementsOnce, Once!Spec

-----------------------------------------------------------------------------
(* The search for the path MTU. *)

(* A set of naturals that has a member has a least one.                     *)
LEMMA Least == ASSUME NEW T \in SUBSET Nat, T # {} PROVE \E i \in T : \A j \in T : i <= j
<1> DEFINE R == {p \in Nat \X Nat : p[1] < p[2]}
<1>1. OpToRel(<, Nat) = R
  BY DEF OpToRel
<1>2. IsWellFoundedOn(R, Nat)
  BY <1>1, NatLessThanWellFounded
<1>3. PICK i \in T : \A j \in T : ~(<<j, i>> \in R)
  BY <1>2, WFMin
<1>4. ASSUME NEW j \in T PROVE i <= j
  <2>1. i \in Nat /\ j \in Nat
    OBVIOUS
  <2>2. <<j, i>> \in R <=> j < i
    BY <2>1
  <2> QED
    BY <1>3, <2>1, <2>2
<1> QED
  BY <1>3, <1>4

LEMMA Smaller == ASSUME NEW a \in Nat, NEW b \in Nat PROVE Min({a, b}) = IF a < b THEN a ELSE b
BY DEF Min

LEMMA Larger == ASSUME NEW a \in Nat, NEW b \in Nat PROVE Max({a, b}) = IF a < b THEN b ELSE a
BY DEF Max

SBools == ctxDone \in BOOLEAN /\ session \in BOOLEAN /\ disturbed \in BOOLEAN
SRest  == /\ mtu \in {Configured} \cup (minMTU .. Ceiling) /\ path \in Sizes /\ widest \in Nat
          /\ phase \in {"rest", "ceiling", "floor", "bisect"}
          /\ size \in {0} \cup (minMTU .. Ceiling) /\ tries \in 0 .. probeAttempts - 1
          /\ best \in 0 .. Ceiling /\ lo \in 0 .. Ceiling /\ hi \in 0 .. Ceiling
          /\ found \in {0} \cup (minMTU .. Ceiling)
SWire  == /\ waiter \in {0} \cup ProbeIds /\ acks \subseteq ProbeIds
          /\ probes \subseteq [id : ProbeIds, size : minMTU .. Ceiling]

(* Where searchMTU stands: everything up to best is known to have fitted.   *)
SearchOK ==
  /\ phase = "ceiling" => size = Ceiling
  /\ phase = "floor" => size = minMTU
  /\ phase = "bisect" => minMTU <= best /\ best = lo - 1 /\ lo <= size /\ size <= hi /\ hi < Ceiling /\ best <= widest
  /\ phase = "rest" /\ found # 0 => found <= widest

(* An answer that is waited for vouches for the size that is tried.         *)
AnswerOK ==
  /\ phase = "rest" => waiter = 0
  /\ waiter \in acks => size <= widest
  /\ \A p \in probes : p.id = waiter => p.size = size
  /\ phase # "rest" => path <= widest

(* What an undisturbed search has excluded.                                 *)
Exact == IF path < minMTU THEN 0 ELSE IF path < Ceiling THEN path ELSE Ceiling
QuietOK ==
  ~disturbed =>
    /\ ~ctxDone /\ session /\ widest = path
    /\ phase = "floor" => path < Ceiling
    /\ phase = "bisect" => path <= hi
    /\ phase = "rest" => found = Exact

MtuInv == SBools /\ SRest /\ SWire /\ SearchOK /\ AnswerOK /\ QuietOK

LEMMA MtuBounds == /\ minMTU \in Nat /\ Ceiling \in Nat /\ Configured \in Nat /\ 0 < minMTU /\ minMTU <= Ceiling
                   /\ Sizes \subseteq Nat /\ probeAttempts \in Nat /\ probeAttempts > 0 /\ ProbeIds \subseteq Nat /\ 0 \notin ProbeIds
BY SizeAssumption, AttemptAssumption, ProbeIdAssumption

(* What a step of searchMTU leaves, the rest of the state as it is.         *)
Searched(quiet) ==
  /\ mtu' \in {Configured} \cup (minMTU .. Ceiling)
  /\ phase' \in {"rest", "ceiling", "floor", "bisect"} /\ phase' # "ceiling"
  /\ size' \in {0} \cup (minMTU .. Ceiling) /\ tries' \in 0 .. probeAttempts - 1
  /\ best' \in 0 .. Ceiling /\ lo' \in 0 .. Ceiling /\ hi' \in 0 .. Ceiling
  /\ found' \in {0} \cup (minMTU .. Ceiling)
  /\ phase' = "floor" => size' = minMTU
  /\ phase' = "bisect" => minMTU <= best' /\ best' = lo' - 1 /\ lo' <= size' /\ size' <= hi' /\ hi' < Ceiling /\ best' <= widest
  /\ phase' = "rest" /\ found' # 0 => found' <= widest
  /\ quiet => /\ phase' = "floor" => path < Ceiling
              /\ phase' = "bisect" => path <= hi'
              /\ phase' = "rest" => found' = Exact

LEMMA BisectRight ==
  ASSUME MtuInv, NEW b \in Nat, NEW l \in Nat, NEW h \in Int, NEW quiet \in BOOLEAN, minMTU <= b, b = l - 1, b <= Ceiling,
         h < Ceiling, b <= widest,
         quiet => ~ctxDone /\ b <= path /\ path <= h,
         Bisect(b, l, h)
  PROVE  Searched(quiet)
<1>1. CASE l > h /\ Apply(b)
  <2>1. /\ phase' = "rest" /\ found' = b /\ size' = 0 /\ tries' = 0 /\ best' = 0 /\ lo' = 0 /\ hi' = 0
        /\ mtu' = b \/ mtu' = mtu
    BY <1>1 DEF Apply
  <2>2. quiet => found' = Exact
    BY <1>1, <2>1, MtuBounds DEF Exact, MtuInv, SRest
  <2> QED
    BY <2>1, <2>2, MtuBounds DEF MtuInv, SRest, Searched
<1>2. CASE l <= h /\ ctxDone /\ GiveUp
  <2>1. /\ phase' = "rest" /\ found' = 0 /\ size' = 0 /\ tries' = 0 /\ best' = 0 /\ lo' = 0 /\ hi' = 0
        /\ mtu' = mtu
    BY <1>2 DEF GiveUp
  <2>2. ~quiet
    BY <1>2
  <2> QED
    BY <2>1, <2>2, MtuBounds DEF MtuInv, SRest, Searched
<1>3. CASE l <= h /\ Try("bisect", (l + h) \div 2) /\ best' = b /\ lo' = l /\ hi' = h
  <2>1. /\ phase' = "bisect" /\ size' = (l + h) \div 2 /\ tries' = 0 /\ mtu' = mtu /\ found' = found
        /\ best' = b /\ lo' = l /\ hi' = h
    BY <1>3 DEF Try
  <2>2. l <= (l + h) \div 2 /\ (l + h) \div 2 <= h
    BY <1>3
  <2> QED
    BY <1>3, <2>1, <2>2, MtuBounds DEF MtuInv, SRest, Searched
<1> QED
  BY <1>1, <1>2, <1>3 DEF Bisect

(* probeOnce has answered: yes only for what the path carried, and no, on a *)
(* quiet path, only for what it does not carry.                             *)
LEMMA AnsweredRight ==
  ASSUME MtuInv, phase # "rest", NEW ok \in BOOLEAN, NEW quiet \in BOOLEAN, Answered(ok),
         ok => size <= widest, quiet => ~disturbed, quiet /\ ~ok => path < size
  PROVE  Searched(quiet)
<1>q. quiet => ~ctxDone /\ widest = path
  BY DEF MtuInv, QuietOK
<1>n. path \in Nat /\ widest \in Nat
  BY MtuBounds DEF MtuInv, SRest
<1>1. CASE phase = "ceiling"
  <2>1. size = Ceiling
    BY <1>1 DEF MtuInv, SearchOK
  <2>2. CASE ok
    <3>1. Apply(Ceiling)
      BY <1>1, <2>2 DEF Answered
    <3>2. /\ phase' = "rest" /\ found' = Ceiling /\ size' = 0 /\ tries' = 0 /\ best' = 0 /\ lo' = 0 /\ hi' = 0
          /\ mtu' = Ceiling \/ mtu' = mtu
      BY <3>1 DEF Apply
    <3>3. quiet => found' = Exact
      BY <1>q, <1>n, <2>1, <2>2, <3>2, MtuBounds DEF Exact
    <3> QED
      BY <2>1, <2>2, <3>2, <3>3, MtuBounds DEF MtuInv, SRest, Searched
  <2>3. CASE ~ok
    <3>1. Try("floor", minMTU) /\ UNCHANGED <<best, lo, hi>>
      BY <1>1, <2>3 DEF Answered
    <3>2. /\ phase' = "floor" /\ size' = minMTU /\ tries' = 0 /\ mtu' = mtu /\ found' = found
          /\ best' = best /\ lo' = lo /\ hi' = hi
      BY <3>1 DEF Try
    <3>3. quiet => path < Ceiling
      BY <2>1, <2>3
    <3> QED
      BY <3>2, <3>3, MtuBounds DEF MtuInv, SRest, Searched
  <2> QED
    BY <2>2, <2>3
<1>2. CASE phase = "floor"
  <2>1. size = minMTU
    BY <1>2 DEF MtuInv, SearchOK
  <2>2. CASE ok
    <3>1. Bisect(minMTU, minMTU + 1, Ceiling - 1)
      BY <1>2, <2>2 DEF Answered
    <3>2. quiet => ~ctxDone /\ minMTU <= path /\ path <= Ceiling - 1
      BY <1>q, <1>n, <1>2, <2>1, <2>2, MtuBounds DEF MtuInv, QuietOK
    <3>3. /\ minMTU \in Nat /\ minMTU + 1 \in Nat /\ Ceiling - 1 \in Int /\ minMTU = minMTU + 1 - 1 /\ minMTU <= Ceiling
          /\ Ceiling - 1 < Ceiling /\ minMTU <= widest
      BY <1>n, <2>1, <2>2, MtuBounds
    <3> QED
      BY <3>1, <3>2, <3>3, BisectRight
  <2>3. CASE ~ok
    <3>1. GiveUp
      BY <1>2, <2>3 DEF Answered
    <3>2. /\ phase' = "rest" /\ found' = 0 /\ size' = 0 /\ tries' = 0 /\ best' = 0 /\ lo' = 0 /\ hi' = 0
          /\ mtu' = mtu
      BY <3>1 DEF GiveUp
    <3>3. quiet => found' = Exact
      BY <1>n, <2>1, <2>3, <3>2 DEF Exact
    <3> QED
      BY <3>2, <3>3, MtuBounds DEF MtuInv, SRest, Searched
  <2> QED
    BY <2>2, <2>3
<1>3. CASE phase = "bisect"
  <2>1. /\ minMTU <= best /\ best = lo - 1 /\ lo <= size /\ size <= hi /\ hi < Ceiling /\ best <= widest
        /\ best \in Nat /\ lo \in Nat /\ hi \in Nat /\ size \in Nat
    BY <1>3, MtuBounds DEF MtuInv, SearchOK, SRest
  <2>2. CASE ok
    <3>1. Bisect(size, size + 1, hi)
      BY <1>3, <2>2 DEF Answered
    <3>2. quiet => ~ctxDone /\ size <= path /\ path <= hi
      BY <1>q, <1>n, <1>3, <2>1, <2>2 DEF MtuInv, QuietOK
    <3>3. /\ size + 1 \in Nat /\ hi \in Int /\ size = size + 1 - 1 /\ size <= Ceiling /\ minMTU <= size /\ size <= widest
      BY <1>n, <2>1, <2>2, MtuBounds
    <3> QED
      BY <2>1, <3>1, <3>2, <3>3, BisectRight
  <2>3. CASE ~ok
    <3>1. Bisect(best, lo, size - 1)
      BY <1>3, <2>3 DEF Answered
    <3>2. quiet => ~ctxDone /\ best <= path /\ path <= size - 1
      BY <1>q, <1>n, <1>3, <2>1, <2>3 DEF MtuInv, QuietOK
    <3>3. size - 1 \in Int /\ size - 1 < Ceiling /\ best <= Ceiling
      BY <2>1, MtuBounds
    <3> QED
      BY <2>1, <3>1, <3>2, <3>3, BisectRight
  <2> QED
    BY <2>2, <2>3
<1> QED
  BY <1>1, <1>2, <1>3 DEF MtuInv, SRest

(* A step of searchMTU after which nobody waits.                            *)
LEMMA SearchedKeeps ==
  ASSUME MtuInv, phase # "rest", NEW quiet \in BOOLEAN, Searched(quiet), disturbed' \in BOOLEAN, quiet <=> ~disturbed',
         quiet => ~disturbed, waiter' = 0, acks' \subseteq acks, ctxDone' = ctxDone, session' = session,
         UNCHANGED <<path, probes, widest>>
  PROVE  MtuInv'
<1>1. SBools'
  BY Zenon DEF MtuInv, SBools
<1>2. SRest'
  BY DEF MtuInv, SRest, Searched
<1>3. SWire'
  BY DEF MtuInv, SWire
<1>4. SearchOK'
  BY DEF Searched, SearchOK
<1>5. AnswerOK'
  <2>1. waiter' \notin acks' /\ \A p \in probes' : p.id # waiter'
    BY MtuBounds DEF MtuInv, SWire
  <2> QED
    BY <2>1 DEF MtuInv, AnswerOK
<1>6. QuietOK'
  <2>1. Exact' = Exact
    BY DEF Exact
  <2> QED
    BY <2>1 DEF MtuInv, QuietOK, Searched
<1> QED
  BY <1>1, <1>2, <1>3, <1>4, <1>5, <1>6 DEF MtuInv

LEMMA TryFailedKeeps ==
  ASSUME MtuInv, phase # "rest", TryFailed, waiter' = 0, ctxDone' = ctxDone, session' = session,
         UNCHANGED <<path, probes, acks, widest>>
  PROVE  MtuInv'
<1>1. CASE tries + 1 < probeAttempts /\ ~ctxDone
  <2>1. tries' = tries + 1 /\ UNCHANGED <<mtu, phase, size, best, lo, hi, found>> /\ disturbed' = disturbed
    BY <1>1 DEF TryFailed
  <2>2. SBools'
    BY <2>1, Zenon DEF MtuInv, SBools
  <2>3. SRest'
    BY <1>1, <2>1, MtuBounds DEF MtuInv, SRest
  <2>4. SWire'
    BY DEF MtuInv, SWire
  <2>5. SearchOK'
    BY <2>1 DEF MtuInv, SearchOK
  <2>6. AnswerOK'
    <3>1. waiter' \notin acks' /\ \A p \in probes' : p.id # waiter'
      BY MtuBounds DEF MtuInv, SWire
    <3> QED
      BY <2>1, <3>1 DEF MtuInv, AnswerOK
  <2>7. QuietOK'
    BY <2>1 DEF MtuInv, QuietOK, Exact
  <2> QED
    BY <2>2, <2>3, <2>4, <2>5, <2>6, <2>7 DEF MtuInv
<1>2. CASE ~(tries + 1 < probeAttempts /\ ~ctxDone)
  <2>1. Answered(FALSE) /\ disturbed' = (disturbed \/ size <= path)
    BY <1>2 DEF TryFailed
  <2>2. disturbed' \in BOOLEAN /\ (disturbed' <=> disturbed \/ size <= path)
    <3>1. (disturbed \/ size <= path) \in BOOLEAN
      BY Zenon
    <3> QED
      BY <2>1, <3>1, Zenon
  <2>3. PICK quiet \in BOOLEAN : quiet <=> ~disturbed'
    <3>1. CASE disturbed'
      BY <3>1
    <3>2. CASE ~disturbed'
      BY <3>2
    <3> QED
      BY <3>1, <3>2
  <2>4. quiet => ~disturbed /\ path < size
    <3>1. path \in Nat /\ size \in Nat
      BY MtuBounds DEF MtuInv, SRest
    <3> QED
      BY <2>2, <2>3, <3>1
  <2>5. Searched(quiet)
    <3>1. FALSE \in BOOLEAN
      OBVIOUS
    <3> QED
      BY <2>1, <2>4, <3>1, AnsweredRight
  <2> QED
    BY <2>2, <2>3, <2>4, <2>5, SearchedKeeps
<1> QED
  BY <1>1, <1>2

LEMMA StartRoundKeeps == ASSUME MtuInv, StartRound PROVE MtuInv'
<1>1. /\ phase = "rest" /\ phase' = "ceiling" /\ size' = Ceiling /\ tries' = 0 /\ UNCHANGED <<mtu, found, path, best, lo, hi>>
      /\ UNCHANGED <<waiter, probes, acks>> /\ ctxDone' = ctxDone /\ session' = session /\ ~ctxDone
      /\ widest' = path /\ disturbed' = ~session
  BY DEF StartRound, Try, wire
<1>2. disturbed' \in BOOLEAN /\ (disturbed' <=> ~session)
  <2>1. (~session) \in BOOLEAN
    BY Zenon
  <2> QED
    BY <1>1, <2>1, Zenon
<1>3. SBools'
  BY <1>1, <1>2, Zenon DEF MtuInv, SBools
<1>4. SRest'
  BY <1>1, MtuBounds DEF MtuInv, SRest
<1>5. SWire'
  BY <1>1 DEF MtuInv, SWire
<1>6. SearchOK'
  BY <1>1 DEF SearchOK
<1>7. AnswerOK'
  <2>1. waiter' = 0
    BY <1>1 DEF MtuInv, AnswerOK
  <2>2. waiter' \notin acks' /\ \A p \in probes' : p.id # waiter'
    BY <1>1, <2>1, MtuBounds DEF MtuInv, SWire
  <2>3. path' <= widest'
    BY <1>1, MtuBounds DEF MtuInv, SRest
  <2> QED
    BY <2>1, <2>2, <2>3 DEF AnswerOK
<1>8. QuietOK'
  BY <1>1, <1>2 DEF QuietOK
<1> QED
  BY <1>3, <1>4, <1>5, <1>6, <1>7, <1>8 DEF MtuInv

(* Only the wire changes, and what is answered on it is the probe's size.   *)
LEMMA WireKeeps ==
  ASSUME MtuInv, SWire', UNCHANGED <<mtu, path, search, found, widest>>, ctxDone' = ctxDone, session' = session, disturbed' = disturbed,
         AnswerOK'
  PROVE  MtuInv'
<1>1. UNCHANGED <<mtu, path, phase, size, tries, best, lo, hi, found, widest>>
  BY DEF search
<1>2. SBools'
  BY Zenon DEF MtuInv, SBools
<1>3. SRest'
  BY <1>1 DEF MtuInv, SRest
<1>4. SearchOK'
  BY <1>1 DEF MtuInv, SearchOK
<1>5. QuietOK'
  BY <1>1 DEF MtuInv, QuietOK, Exact
<1> QED
  BY <1>2, <1>3, <1>4, <1>5 DEF MtuInv

LEMMA sendProbeKeeps == ASSUME MtuInv, sendProbe PROVE MtuInv'
<1>1. phase # "rest" /\ waiter = 0 /\ ctxDone' = ctxDone /\ session' = session /\ UNCHANGED <<path, widest>>
  BY DEF sendProbe
<1>2. CASE TryFailed /\ UNCHANGED wire
  BY <1>1, <1>2, TryFailedKeeps DEF wire
<1>3. CASE ~(TryFailed /\ UNCHANGED wire)
  <2> DEFINE free == ProbeIds \ ({p.id : p \in probes} \cup acks)
  <2>1. /\ free # {} /\ waiter' = Min(free) /\ probes' = probes \cup {[id |-> Min(free), size |-> size]}
        /\ UNCHANGED <<mtu, search, acks, found>> /\ disturbed' = disturbed
    BY <1>3 DEF sendProbe
  <2>2. free \subseteq Nat
    BY MtuBounds
  <2>3. \E i \in free : \A j \in free : i <= j
    BY <2>1, <2>2, Least
  <2>4. Min(free) \in free
    BY <2>3 DEF Min
  <2>5. PICK m \in ProbeIds : m = Min(free) /\ m \notin acks /\ \A p \in probes : p.id # m
    BY <2>4
  <2> HIDE DEF free
  <2>6. size \in minMTU .. Ceiling /\ UNCHANGED <<phase, size>>
    BY <1>1, <2>1, MtuBounds DEF MtuInv, SRest, SearchOK, search
  <2>7. waiter' = m /\ probes' = probes \cup {[id |-> m, size |-> size]} /\ acks' = acks
    BY <2>1, <2>5
  <2>8. SWire'
    BY <2>6, <2>7 DEF MtuInv, SWire
  <2>9. AnswerOK'
    BY <1>1, <2>5, <2>6, <2>7 DEF MtuInv, AnswerOK
  <2> QED
    BY <1>1, <2>1, <2>8, <2>9, WireKeeps
<1> QED
  BY <1>2, <1>3

LEMMA ProbeTimeoutKeeps == ASSUME MtuInv, ProbeTimeout PROVE MtuInv'
<1>1. phase # "rest"
  BY DEF MtuInv, AnswerOK, ProbeTimeout
<1> QED
  BY <1>1, TryFailedKeeps DEF ProbeTimeout

LEMMA InterruptedKeeps == ASSUME MtuInv, Interrupted PROVE MtuInv'
BY TryFailedKeeps DEF Interrupted

LEMMA handleProbeAckKeeps == ASSUME MtuInv, NEW i \in ProbeIds, handleProbeAck(i) PROVE MtuInv'
<1>1. /\ i \in acks /\ acks' = acks \ {i} /\ ctxDone' = ctxDone /\ session' = session /\ disturbed' = disturbed
      /\ UNCHANGED <<path, probes, widest>>
  BY DEF handleProbeAck, history
<1>2. CASE waiter = i /\ waiter' = 0 /\ Answered(TRUE)
  <2>1. phase # "rest" /\ size <= widest
    BY <1>1, <1>2, MtuBounds DEF MtuInv, AnswerOK
  <2>2. PICK quiet \in BOOLEAN : quiet <=> ~disturbed
    <3>1. CASE disturbed
      BY <3>1
    <3>2. CASE ~disturbed
      BY <3>2
    <3> QED
      BY <3>1, <3>2
  <2>3. Searched(quiet)
    <3>1. TRUE \in BOOLEAN
      OBVIOUS
    <3> QED
      BY <1>2, <2>1, <2>2, <3>1, AnsweredRight
  <2>4. disturbed' \in BOOLEAN
    BY <1>1, Zenon DEF MtuInv, SBools
  <2>5. acks' \subseteq acks
    BY <1>1
  <2> QED
    BY <1>1, <1>2, <2>1, <2>2, <2>3, <2>4, <2>5, SearchedKeeps
<1>3. CASE waiter # i /\ UNCHANGED <<mtu, search, waiter, found>>
  <2>1. UNCHANGED <<phase, size>>
    BY <1>3 DEF search
  <2>2. SWire'
    BY <1>1, <1>3 DEF MtuInv, SWire
  <2>3. AnswerOK'
    BY <1>1, <1>3, <2>1 DEF MtuInv, AnswerOK
  <2> QED
    BY <1>1, <1>3, <2>2, <2>3, WireKeeps
<1> QED
  BY <1>2, <1>3 DEF handleProbeAck

LEMMA CarryProbeKeeps == ASSUME MtuInv, NEW p \in probes, CarryProbe(p) PROVE MtuInv'
<1>1. /\ p.size <= path /\ probes' = probes \ {p} /\ acks' = acks \cup {p.id} /\ waiter' = waiter
      /\ ctxDone' = ctxDone /\ session' = session /\ disturbed' = disturbed /\ UNCHANGED <<mtu, path, search, found, widest>>
  BY DEF CarryProbe, history
<1>2. UNCHANGED <<phase, size>>
  BY <1>1 DEF search
<1>3. p.id \in ProbeIds /\ p.size \in Nat
  BY MtuBounds DEF MtuInv, SWire
<1>4. SWire'
  BY <1>1, <1>3 DEF MtuInv, SWire
<1>5. waiter = p.id => size <= widest
  <2>1. ASSUME waiter = p.id PROVE size <= widest
    <3>1. p.size = size /\ path <= widest
      BY <1>3, <2>1, MtuBounds DEF MtuInv, AnswerOK
    <3>2. path \in Nat /\ widest \in Nat
      BY MtuBounds DEF MtuInv, SRest
    <3> QED
      BY <1>1, <1>3, <3>1, <3>2
  <2> QED
    BY <2>1
<1>6. AnswerOK'
  BY <1>1, <1>2, <1>5 DEF MtuInv, AnswerOK
<1> QED
  BY <1>1, <1>4, <1>6, WireKeeps

LEMMA LoseKeeps == ASSUME MtuInv, Lose PROVE MtuInv'
<1>1. /\ probes' \subseteq probes /\ acks' \subseteq acks /\ waiter' = waiter
      /\ ctxDone' = ctxDone /\ session' = session /\ disturbed' = disturbed /\ UNCHANGED <<mtu, path, search, found, widest>>
  BY DEF Lose, history
<1>2. UNCHANGED <<phase, size>>
  BY <1>1 DEF search
<1>3. SWire' /\ AnswerOK'
  BY <1>1, <1>2 DEF MtuInv, SWire, AnswerOK
<1> QED
  BY <1>1, <1>3, WireKeeps

(* Whatever disturbs a search excuses it.                                   *)
LEMMA DisturbedKeeps ==
  ASSUME MtuInv, disturbed' = TRUE, ctxDone' \in BOOLEAN, session' \in BOOLEAN, path' \in Sizes, widest' \in Nat, widest <= widest',
         phase # "rest" => path' <= widest', probes' \subseteq probes, acks' \subseteq acks,
         UNCHANGED <<mtu, search, waiter, found>>
  PROVE  MtuInv'
<1>1. UNCHANGED <<mtu, phase, size, tries, best, lo, hi, found, waiter>>
  BY DEF search
<1>2. SBools'
  BY Zenon DEF SBools
<1>3. SRest'
  BY <1>1 DEF MtuInv, SRest
<1>4. SWire'
  BY <1>1 DEF MtuInv, SWire
<1>5. size \in Nat /\ best \in Nat /\ found \in Nat /\ widest \in Nat
  BY MtuBounds DEF MtuInv, SRest
<1>6. SearchOK'
  BY <1>1, <1>5 DEF MtuInv, SearchOK
<1>7. AnswerOK'
  BY <1>1, <1>5 DEF MtuInv, AnswerOK
<1>8. QuietOK'
  BY DEF QuietOK
<1> QED
  BY <1>2, <1>3, <1>4, <1>6, <1>7, <1>8 DEF MtuInv

LEMMA Stands == ASSUME MtuInv
                PROVE  /\ ctxDone \in BOOLEAN /\ session \in BOOLEAN /\ path \in Sizes /\ widest \in Nat /\ widest <= widest
                       /\ phase # "rest" => path <= widest
<1>1. ctxDone \in BOOLEAN /\ session \in BOOLEAN
  BY Zenon DEF MtuInv, SBools
<1> QED
  BY <1>1 DEF MtuInv, SRest, AnswerOK

LEMMA SessionLostKeeps == ASSUME MtuInv, SessionLost PROVE MtuInv'
<1>1. /\ session' = FALSE /\ ctxDone' = ctxDone /\ path' = path /\ widest' = widest /\ disturbed' = TRUE
      /\ probes' = {} /\ acks' = {} /\ UNCHANGED <<mtu, search, waiter, found>>
  BY DEF SessionLost
<1> QED
  BY <1>1, Stands, DisturbedKeeps

LEMMA SessionUpKeeps == ASSUME MtuInv, SessionUp PROVE MtuInv'
<1>1. /\ session' = TRUE /\ ctxDone' = ctxDone /\ path' = path /\ widest' = widest /\ disturbed' = TRUE
      /\ probes' = probes /\ acks' = acks /\ UNCHANGED <<mtu, search, waiter, found>>
  BY DEF SessionUp, wire
<1> QED
  BY <1>1, Stands, DisturbedKeeps

LEMMA PathChangeKeeps == ASSUME MtuInv, PathChange PROVE MtuInv'
<1>1. /\ session' = session /\ ctxDone' = ctxDone /\ path' \in Sizes /\ widest' = Max({widest, path'}) /\ disturbed' = TRUE
      /\ probes' = probes /\ acks' = acks /\ UNCHANGED <<mtu, search, waiter, found>>
  BY DEF PathChange, wire
<1>2. PICK q \in Nat : q = path'
  BY <1>1, MtuBounds
<1>3. PICK w \in Nat : w = widest
  BY Stands
<1>4. Max({w, q}) = IF w < q THEN q ELSE w
  BY Larger
<1>5. widest' \in Nat /\ widest <= widest' /\ path' <= widest'
  BY <1>1, <1>2, <1>3, <1>4
<1> QED
  BY <1>1, <1>5, Stands, DisturbedKeeps

LEMMA EndGenerationKeeps == ASSUME MtuInv, EndGeneration PROVE MtuInv'
<1>1. /\ session' = session /\ ctxDone' = TRUE /\ path' = path /\ widest' = widest /\ disturbed' = TRUE
      /\ probes' = probes /\ acks' = acks /\ UNCHANGED <<mtu, search, waiter, found>>
  BY DEF EndGeneration, wire
<1> QED
  BY <1>1, Stands, DisturbedKeeps

LEMMA NewGenerationKeeps == ASSUME MtuInv, NewGeneration PROVE MtuInv'
<1>1. /\ ctxDone /\ phase = "rest" /\ ctxDone' = FALSE /\ mtu' = Configured /\ found' = 0 /\ session' = session /\ disturbed' = disturbed
      /\ UNCHANGED <<path, phase, size, tries, best, lo, hi, waiter, probes, acks, widest>>
  BY DEF NewGeneration, search, wire, history
<1>2. disturbed
  BY <1>1 DEF MtuInv, QuietOK
<1>3. SBools'
  BY <1>1, Zenon DEF MtuInv, SBools
<1>4. SRest'
  BY <1>1 DEF MtuInv, SRest
<1>5. SWire'
  BY <1>1 DEF MtuInv, SWire
<1>6. SearchOK' /\ AnswerOK'
  BY <1>1 DEF MtuInv, SearchOK, AnswerOK
<1>7. QuietOK'
  BY <1>1, <1>2 DEF QuietOK
<1> QED
  BY <1>3, <1>4, <1>5, <1>6, <1>7 DEF MtuInv

LEMMA MtuStart == ASSUME MtuInit PROVE MtuInv
<1>1. SBools
  BY Zenon DEF MtuInit, SBools
<1>2. SRest /\ SWire
  BY MtuBounds DEF MtuInit, SRest, SWire
<1>3. SearchOK /\ AnswerOK /\ QuietOK
  BY DEF MtuInit, SearchOK, AnswerOK, QuietOK
<1> QED
  BY <1>1, <1>2, <1>3 DEF MtuInv

LEMMA MtuStep == ASSUME MtuInv, [MtuNext]_mtuVars PROVE MtuInv'
<1>1. ASSUME UNCHANGED mtuVars PROVE MtuInv'
  <2>1. /\ ctxDone' = ctxDone /\ session' = session /\ disturbed' = disturbed /\ UNCHANGED <<mtu, path, search, found, widest>>
        /\ UNCHANGED <<phase, size, waiter, probes, acks>>
    BY <1>1 DEF mtuVars, search, wire, history
  <2>2. SWire' /\ AnswerOK'
    BY <2>1 DEF MtuInv, SWire, AnswerOK
  <2> QED
    BY <2>1, <2>2, WireKeeps
<1> QED
  BY <1>1, StartRoundKeeps, sendProbeKeeps, ProbeTimeoutKeeps, InterruptedKeeps, handleProbeAckKeeps, CarryProbeKeeps, LoseKeeps,
     SessionLostKeeps, SessionUpKeeps, PathChangeKeeps, EndGenerationKeeps, NewGenerationKeeps DEF MtuNext

(* mtuprobe.go, for any floor, ceiling, number of tries and sizes of the    *)
(* path: whatever is lost, late or answered for another probe, searchMTU    *)
(* returns no more than the path carried during the round, and on a path    *)
(* that held still exactly the most that fits.                              *)
THEOREM SearchStaysRight == MtuSpec => []SearchIsRight
<1>1. MtuInit => MtuInv
  BY MtuStart
<1>2. MtuInv /\ [MtuNext]_mtuVars => MtuInv'
  BY MtuStep
<1>3. MtuInv => SearchIsRight
  <2> SUFFICES ASSUME MtuInv PROVE SearchIsRight
    OBVIOUS
  <2>1. MtuTypeOK
    <3>1. ctxDone \in BOOLEAN /\ session \in BOOLEAN /\ disturbed \in BOOLEAN
      BY Zenon DEF MtuInv, SBools
    <3> QED
      BY <3>1 DEF MtuInv, SRest, SWire, MtuTypeOK
  <2>2. NeverAbovePath
    BY DEF MtuInv, SearchOK, NeverAbovePath
  <2>3. ExactWhenUndisturbed
    <3>1. path \in Nat /\ Ceiling \in Nat
      BY MtuBounds DEF MtuInv, SRest
    <3>2. Min({path, Ceiling}) = IF path < Ceiling THEN path ELSE Ceiling
      BY <3>1, Smaller
    <3>3. Exact = IF path < minMTU THEN 0 ELSE Min({path, Ceiling})
      BY <3>2 DEF Exact
    <3> QED
      BY <3>3 DEF MtuInv, QuietOK, ExactWhenUndisturbed
  <2> QED
    BY <2>1, <2>2, <2>3 DEF SearchIsRight
<1> QED
  BY <1>1, <1>2, <1>3, PTL DEF MtuSpec
=============================================================================
