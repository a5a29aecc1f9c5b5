--------------------------- MODULE SealedSession ---------------------------
(***************************************************************************)
(* One direction of a layer-3 session: session.go's sealKind on the end    *)
(* that sends, and its open with the replay window of replay.go on the end *)
(* that receives.  The carrier is a datagram path: what was sealed may     *)
(* arrive late, in any order, twice, or not at all, and anything at all    *)
(* may arrive that was never sealed.                                       *)
(***************************************************************************)
EXTENDS Integers, FiniteSets

CONSTANTS
  Sealers,              \* the goroutines that seal: TUN pump, prober, probe answers
  replayWindowBits,     \* width of the replay window
  rejectAfterMessages,  \* the nonce at which a session refuses to seal
  CounterMax,           \* largest value of the counter field of a header
  SendBound             \* bound: how far sendCounter is followed

ASSUME WindowAssumption  == replayWindowBits \in Nat \ {0}
ASSUME LimitAssumption   == rejectAfterMessages \in Nat \ {0}
ASSUME CounterAssumption == CounterMax \in Nat /\ rejectAfterMessages <= CounterMax
ASSUME BoundAssumption   == SendBound \in Nat

VARIABLES
  sendCounter,  \* session.sendCounter, the next nonce
  held,         \* the nonce a sealer has drawn and not used yet, or None
  encrypted,    \* how many plaintexts were encrypted under each nonce
  max,          \* replayWindow.max
  seeded,       \* replayWindow.seeded
  bitmap,       \* replayWindow.bitmap: the slots whose bit is set
  opened        \* how many times open has yielded the plaintext of a counter

senderVars   == <<sendCounter, held, encrypted>>
receiverVars == <<max, seeded, bitmap, opened>>
vars         == <<sendCounter, held, encrypted, max, seeded, bitmap, opened>>

None    == -1
Counter == 0 .. CounterMax

Init ==
  /\ sendCounter = 0
  /\ held = [s \in Sealers |-> None]
  /\ encrypted = [c \in Counter |-> 0]
  /\ max = 0
  /\ seeded = FALSE
  /\ bitmap = {}
  /\ opened = [c \in Counter |-> 0]

-----------------------------------------------------------------------------
(* Sealing.  sealKind draws a nonce with one atomic Add and encrypts under *)
(* it afterwards, so several sealers can be between the two at once.       *)

DrawWrappingMutant(s) ==
  /\ sendCounter < SendBound
  /\ held[s] = None
  /\ held' = [held EXCEPT ![s] = sendCounter]
  /\ sendCounter' = (sendCounter + 1) % rejectAfterMessages
  /\ UNCHANGED <<encrypted, max, seeded, bitmap, opened>>

(* counter := s.sendCounter.Add(1) - 1 *)
Draw(s) ==
  /\ sendCounter < SendBound
  /\ held[s] = None
  /\ held' = [held EXCEPT ![s] = sendCounter]
  /\ sendCounter' = sendCounter + 1
  /\ UNCHANGED <<encrypted, max, seeded, bitmap, opened>>

(* The rest of sealKind: refuse an exhausted session, or encrypt.  The     *)
(* datagram is on the wire from here on.                                   *)
Encrypt(s) ==
  /\ held[s] # None
  /\ held' = [held EXCEPT ![s] = None]
  /\ \/ /\ held[s] >= rejectAfterMessages      \* errSessionExhausted
        /\ UNCHANGED encrypted
     \/ /\ held[s] < rejectAfterMessages
        /\ encrypted' = [encrypted EXCEPT ![held[s]] = @ + 1]
  /\ UNCHANGED <<sendCounter, max, seeded, bitmap, opened>>

-----------------------------------------------------------------------------
(* The replay window. *)

slotOffByOneMutant(c) == (c % replayWindowBits) + 1

(* slot: where a counter stands in the ring. *)
slot(c) == c % replayWindowBits

acceptBelowWindowMutant(c) == ~seeded \/ c > max \/ slot(c) \notin bitmap

(* replayWindow.accept: eligible, without recording anything. *)
accept(c) ==
  \/ ~seeded
  \/ c > max
  \/ /\ max - c < replayWindowBits
     /\ slot(c) \notin bitmap

clearedNoneMutant(c) == {}

(* The slots commit clears before it sets c's bit: none on the first commit *)
(* or inside the window, all of them after a jump of a window or more, and  *)
(* otherwise those of the counters from the old mark up to c.               *)
cleared(c) ==
  IF ~seeded \/ c <= max THEN {}
  ELSE IF c - max >= replayWindowBits THEN 0 .. (replayWindowBits - 1)
  ELSE {slot(d) : d \in (max + 1) .. c}

commitUnmarkedMutant(c) ==
  /\ seeded' = TRUE
  /\ max' = IF ~seeded \/ c > max THEN c ELSE max
  /\ bitmap' = IF c > max THEN bitmap \ cleared(c) ELSE bitmap \cup {slot(c)}

(* replayWindow.commit. *)
commit(c) ==
  /\ seeded' = TRUE
  /\ max' = IF ~seeded \/ c > max THEN c ELSE max
  /\ bitmap' = (bitmap \ cleared(c)) \cup {slot(c)}

(* session.open, whole: recvMu is held from accept to commit.  Decrypt      *)
(* succeeds exactly on what the peer encrypted under this counter.          *)
Open(c, genuine) ==
  \/ /\ ~accept(c)                             \* errReplayed
     /\ UNCHANGED vars
  \/ /\ accept(c)
     /\ ~genuine                               \* the tag does not verify
     /\ UNCHANGED vars
  \/ /\ accept(c)
     /\ genuine
     /\ commit(c)
     /\ opened' = [opened EXCEPT ![c] = @ + 1]
     /\ UNCHANGED senderVars

(* A datagram arrives under counter c: a copy of a sealed one, or bytes      *)
(* that only look like one.                                                 *)
Receive(c) == \E genuine \in {b \in BOOLEAN : b => encrypted[c] > 0} : Open(c, genuine)

Next ==
  \/ \E s \in Sealers : Draw(s) \/ Encrypt(s)
  \/ \E c \in Counter : Receive(c)

Spec == Init /\ [][Next]_vars

-----------------------------------------------------------------------------
(* Properties. *)

(* Every variable keeps its type; the set bits are slots of the ring that   *)
(* sealKind, accept and commit index.                                       *)
TypeOK ==
  /\ sendCounter \in Nat
  /\ held \in [Sealers -> Nat \cup {None}]
  /\ encrypted \in [Counter -> Nat]
  /\ max \in Counter
  /\ seeded \in BOOLEAN
  /\ bitmap \in SUBSET (0 .. (replayWindowBits - 1))
  /\ opened \in [Counter -> Nat]

(* No nonce is ever given to two plaintexts, however the sealers interleave *)
(* between the Add and the Encrypt of sealKind, and also when the counter   *)
(* runs into rejectAfterMessages.                                           *)
NonceUsedOnce == \A c \in Counter : encrypted[c] <= 1

(* open yields a plaintext at most once per sealed datagram, and never one  *)
(* the peer did not seal, whatever the path duplicates, delays or forges.   *)
DeliveredOnce == \A c \in Counter : opened[c] <= encrypted[c]

(* accept answers exactly what a receiver with unbounded memory would: a    *)
(* counter is eligible unless it was opened before or an opened counter is  *)
(* a window or more ahead of it.  In particular no stale bit of the ring    *)
(* refuses a packet that never arrived, and no forged datagram moves the    *)
(* window past the genuine packets still in flight.                         *)
AcceptIsExact ==
  \A c \in Counter :
    accept(c) <=> /\ opened[c] = 0
                  /\ \A d \in Counter : opened[d] > 0 => d - c < replayWindowBits

Once == INSTANCE OnceDelivery WITH
          Message <- Counter, Window <- replayWindowBits,
          sent <- encrypted, delivered <- opened

(* A direction of a session implements at-most-once delivery with a bounded *)
(* amount of overtaking: sealKind is Send and a successful open is Deliver. *)
ImplementsOnce == Once!Spec
=============================================================================
