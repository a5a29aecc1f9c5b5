---------------------------- MODULE OnceDelivery ----------------------------
(***************************************************************************)
(* What one direction of a layer-3 session promises, without nonces,       *)
(* bitmaps or locks: a message that was sent is handed to the receiver at  *)
(* most once, and the only message the receiver gives up on is one that a  *)
(* delivered message has overtaken by a whole window.  Loss is a message   *)
(* that is never delivered, reordering is the free choice of which one is. *)
(***************************************************************************)
EXTENDS Integers

CONSTANTS Message,  \* the numbers messages carry
          Window    \* how far a message may be overtaken and still be taken

VARIABLES sent,        \* how often each number was given to a message: 0 or 1
          delivered    \* how often it was handed over: 0 or 1

Init ==
  /\ sent = [c \in Message |-> 0]
  /\ delivered = [c \in Message |-> 0]

(* The sender seals the message with number c, once. *)
Send(c) ==
  /\ sent[c] = 0
  /\ sent' = [sent EXCEPT ![c] = 1]
  /\ UNCHANGED delivered

(* The receiver opens message c, unless it has it already or is past it. *)
Deliver(c) ==
  /\ sent[c] = 1
  /\ delivered[c] = 0
  /\ \A d \in Message : delivered[d] = 1 => d - c < Window
  /\ delivered' = [delivered EXCEPT ![c] = 1]
  /\ UNCHANGED sent

Next == \E c \in Message : Send(c) \/ Deliver(c)

Spec == Init /\ [][Next]_<<sent, delivered>>
=============================================================================
