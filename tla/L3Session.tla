------------------------------ MODULE L3Session ------------------------------
(***************************************************************************)
(* The two ends of a layer-3 tunnel and the sessions they hold: the        *)
(* handshake of the dialling end, the listening end that answers it, the   *)
(* three session slots of each (current, pending, previous), rekeying,     *)
(* expiry, restarts, and a datagram path that loses, duplicates, delays    *)
(* and reorders (tunnel.go and the handshake half of session.go).          *)
(*                                                                         *)
(* A session is the id it has on the wire and the keys behind it.  Keys    *)
(* are named by their id and by which derivation for that id they came     *)
(* from; two ends understand each other when both agree.  Time is counted  *)
(* in ticks: a datagram arrives in the tick it was sent in or not at all,  *)
(* and the timers that fire several times a tick have fired before it      *)
(* ends.  What happens inside a session is SealedSession's subject: here   *)
(* an opened datagram is gone, because the replay window takes it once.    *)
(***************************************************************************)
EXTENDS Integers, Sequences

CONSTANTS
  Ids,                \* session ids in circulation: 1 .. n, 0 is reserved
  Keys,               \* derivations of one id that can be told apart: 1 .. m
  Addrs,              \* addresses the dialling end can have
  handshakeAttempts,  \* how often one round sends its first message
  ReplyBuffer,        \* capacity of Tunnel.replies
  previousGrace,      \* whole ticks a replaced session outlives its replacement
  rekeyAfterTime,     \* age, in ticks, at which the dialling end replaces a session
  rejectAfterTime,    \* age at which a session is dropped
  MaxFaults           \* bound: process restarts and address changes

ASSUME IdsAssumption    == Ids \subseteq Nat \ {0} /\ Keys \subseteq Nat \ {0}
ASSUME TimesAssumption  == /\ previousGrace \in Nat
                           /\ rekeyAfterTime \in Nat
                           /\ rejectAfterTime \in Nat
                           /\ previousGrace < rekeyAfterTime
                           /\ rekeyAfterTime < rejectAfterTime
ASSUME CountsAssumption == /\ handshakeAttempts \in Nat \ {0}
                           /\ ReplyBuffer \in Nat \ {0}
                           /\ MaxFaults \in Nat

VARIABLES
  current, pending, previous,  \* Tunnel.current, .pending, .previous of each end
  prevAge,      \* ticks since Tunnel.prevFrom
  reported,     \* whether metrics hold a peer for this end
  attempt,      \* the dialling end's round in progress: its id and sends so far
  replies,      \* Tunnel.replies of the dialling end
  lastReply,    \* the listening end's lastInitID with the keys of lastReply
  peer,         \* the listening end's Tunnel.peer
  address,      \* where the dialling end is
  sameEncap,    \* whether the two ends are configured with the same encapID
  net,          \* datagrams on the path
  faults        \* process restarts and address changes so far

sessions == <<current, pending, previous, prevAge, reported>>
dialing  == <<attempt, replies>>
vars     == <<sessions, dialing, lastReply, peer, address, sameEncap, net, faults>>

Ends   == {"dial", "listen"}
Nobody == "nobody"                          \* a nil address

Session(i, k) == [id |-> i, key |-> k, age |-> 0]
NoSession     == [id |-> 0, key |-> 0, age |-> 0]
Live(s)       == s.id # 0
SameKeys(s, t) == s.id = t.id /\ s.key = t.key
Idle          == [id |-> 0, sends |-> 0]
NoReply       == [id |-> 0, key |-> 0]

(* Datagrams.  addr is where a datagram to the listening end comes from and *)
(* where one to the dialling end is sent.                                   *)
InitMsg(i, a)         == [kind |-> "init", to |-> "listen", id |-> i, key |-> 0, addr |-> a]
RespMsg(i, k, a)      == [kind |-> "resp", to |-> "dial", id |-> i, key |-> k, addr |-> a]
DataMsg(e, i, k, a)   == [kind |-> "data", to |-> e, id |-> i, key |-> k, addr |-> a]

Init ==
  /\ current  = [e \in Ends |-> NoSession]
  /\ pending  = [e \in Ends |-> NoSession]
  /\ previous = [e \in Ends |-> NoSession]
  /\ prevAge  = [e \in Ends |-> 0]
  /\ reported = [e \in Ends |-> FALSE]
  /\ attempt = Idle
  /\ replies = <<>>
  /\ lastReply = NoReply
  /\ peer = Nobody
  /\ address \in Addrs
  /\ sameEncap \in BOOLEAN
  /\ net = {}
  /\ faults = 0

-----------------------------------------------------------------------------
(* Names that nothing in the system remembers any more stand for fresh      *)
(* random ones: an id or a key drawn anew collides with nothing.  Answers   *)
(* that wait are drained when an id is drawn.                               *)

Held == {current[e] : e \in Ends} \cup {pending[e] : e \in Ends} \cup {previous[e] : e \in Ends}
Known == Held \cup {lastReply} \cup net
Waiting == {replies[n] : n \in 1 .. Len(replies)}

FreshIds     == Ids \ ({x.id : x \in Known} \cup {attempt.id})
FreshKeys(i) == Keys \ {x.key : x \in {y \in Known \cup Waiting : y.id = i}}
Fresh(S)     == CHOOSE x \in S : TRUE

-----------------------------------------------------------------------------
(* The session slots. *)

(* sendSession: what this end seals under. *)
sendSession(e) == IF Live(current[e]) THEN current[e] ELSE pending[e]

(* sessionFor: the keys an arriving datagram is tried under. *)
sessionFor(e, i) ==
  CASE current[e].id = i  -> current[e]
    [] current[e].id # i /\ pending[e].id = i -> pending[e]
    [] OTHER -> IF previous[e].id = i THEN previous[e] ELSE NoSession

InstallDropsOldMutant(e, s) ==
  /\ previous' = [previous EXCEPT ![e] = NoSession]
  /\ prevAge'  = [prevAge EXCEPT ![e] = 0]
  /\ current'  = [current EXCEPT ![e] = s]
  /\ pending'  = [pending EXCEPT ![e] = NoSession]
  /\ reported' = [reported EXCEPT ![e] = TRUE]

(* installDialed and promote: s becomes current, what it replaces becomes   *)
(* previous with its grace starting now, and the peer is published.         *)
Install(e, s) ==
  /\ previous' = [previous EXCEPT ![e] = current[e]]
  /\ prevAge'  = [prevAge EXCEPT ![e] = 0]
  /\ current'  = [current EXCEPT ![e] = s]
  /\ pending'  = [pending EXCEPT ![e] = NoSession]
  /\ reported' = [reported EXCEPT ![e] = TRUE]

Expired(s) == Live(s) /\ s.age >= rejectAfterTime

PreviousOver(e) ==
  Live(previous[e]) /\ (prevAge[e] > previousGrace \/ Expired(previous[e]))

Retirable(e) == PreviousOver(e) \/ Expired(pending[e]) \/ Expired(current[e])

retireSessionsKeepReportMutant(e) ==
  /\ Retirable(e)
  /\ previous' = [previous EXCEPT ![e] = IF PreviousOver(e) THEN NoSession ELSE @]
  /\ pending'  = [pending EXCEPT ![e] = IF Expired(@) THEN NoSession ELSE @]
  /\ current'  = [current EXCEPT ![e] = IF Expired(@) THEN NoSession ELSE @]
  /\ UNCHANGED <<prevAge, reported, dialing, lastReply, peer, address, sameEncap, net, faults>>

(* retireSessions, from the ticker of the receive pump. *)
retireSessions(e) ==
  /\ Retirable(e)
  /\ previous' = [previous EXCEPT ![e] = IF PreviousOver(e) THEN NoSession ELSE @]
  /\ pending'  = [pending EXCEPT ![e] = IF Expired(@) THEN NoSession ELSE @]
  /\ current'  = [current EXCEPT ![e] = IF Expired(@) THEN NoSession ELSE @]
  /\ reported' = [reported EXCEPT ![e] = @ /\ (Live(current'[e]) \/ Live(pending'[e]))]
  /\ UNCHANGED <<prevAge, dialing, lastReply, peer, address, sameEncap, net, faults>>

-----------------------------------------------------------------------------
(* The dialling end: handshakeLoop and negotiate. *)

needsSession == ~Live(current["dial"]) \/ current["dial"].age >= rekeyAfterTime

(* negotiate up to its first send: a fresh id, never the one being          *)
(* replaced, stale answers drained, the first message on the path.          *)
BeginHandshake ==
  /\ attempt = Idle
  /\ needsSession
  /\ FreshIds # {}
  /\ LET i == Fresh(FreshIds) IN
       /\ attempt' = [id |-> i, sends |-> 1]
       /\ net' = net \cup {InitMsg(i, address)}
  /\ replies' = <<>>
  /\ UNCHANGED <<sessions, lastReply, peer, address, sameEncap, faults>>

(* The next turn of negotiate's loop: the same message again, or, when the  *)
(* attempts are used up, the round has failed.                              *)
NextSend ==
  IF attempt.sends < handshakeAttempts
    THEN /\ attempt' = [attempt EXCEPT !.sends = @ + 1]
         /\ net' = net \cup {InitMsg(attempt.id, address)}
    ELSE /\ attempt' = Idle
         /\ UNCHANGED net

(* handshakeRetry has passed with no answer. *)
HandshakeTimeout ==
  /\ attempt # Idle
  /\ NextSend
  /\ UNCHANGED <<sessions, replies, lastReply, peer, address, sameEncap, faults>>

TakeReplyNoEncapMutant ==
  /\ attempt # Idle
  /\ replies # <<>>
  /\ replies' = Tail(replies)
  /\ IF Head(replies).id # attempt.id
       THEN NextSend /\ UNCHANGED sessions
       ELSE /\ attempt' = Idle
            /\ Install("dial", Session(attempt.id, Head(replies).key))
            /\ UNCHANGED net
  /\ UNCHANGED <<lastReply, peer, address, sameEncap, faults>>

(* An answer is waiting: one to something else costs a turn, one that names *)
(* another encapsulation fails the round, and the one sought is installed.  *)
TakeReply ==
  /\ attempt # Idle
  /\ replies # <<>>
  /\ replies' = Tail(replies)
  /\ \/ /\ Head(replies).id # attempt.id
        /\ NextSend
        /\ UNCHANGED sessions
     \/ /\ Head(replies).id = attempt.id
        /\ ~sameEncap                                   \* errEncapMismatch
        /\ attempt' = Idle
        /\ UNCHANGED <<sessions, net>>
     \/ /\ Head(replies).id = attempt.id
        /\ sameEncap
        /\ attempt' = Idle
        /\ Install("dial", Session(attempt.id, Head(replies).key))
        /\ UNCHANGED net
  /\ UNCHANGED <<lastReply, peer, address, sameEncap, faults>>

(* The generation ends under a round in progress: the carrier failed, or    *)
(* Run is being rebuilt.  The sessions live in the Tunnel and survive.      *)
EndGeneration ==
  /\ attempt # Idle
  /\ attempt' = Idle
  /\ UNCHANGED <<sessions, replies, lastReply, peer, address, sameEncap, net, faults>>

handleRespUnboundedMutant(m) ==
  /\ m.kind = "resp"
  /\ m.addr = address
  /\ Len(replies) <= ReplyBuffer
  /\ replies' = Append(replies, [id |-> m.id, key |-> m.key])
  /\ UNCHANGED <<sessions, attempt, lastReply, peer, address, sameEncap, net, faults>>

(* handleResp: answers beyond the buffer are not wanted. *)
handleResp(m) ==
  /\ m.kind = "resp"
  /\ m.addr = address
  /\ Len(replies) < ReplyBuffer
  /\ replies' = Append(replies, [id |-> m.id, key |-> m.key])
  /\ UNCHANGED <<sessions, attempt, lastReply, peer, address, sameEncap, net, faults>>

-----------------------------------------------------------------------------
(* The listening end. *)

handleInitTakesAddressMutant(m) ==
  /\ m.kind = "init"
  /\ sameEncap
  /\ m.id # lastReply.id
  /\ FreshKeys(m.id) # {}
  /\ LET k == Fresh(FreshKeys(m.id)) IN
       /\ net' = net \cup {RespMsg(m.id, k, m.addr)}
       /\ pending' = [pending EXCEPT !["listen"] = Session(m.id, k)]
       /\ lastReply' = [id |-> m.id, key |-> k]
  /\ peer' = m.addr
  /\ reported' = [reported EXCEPT !["listen"] = TRUE]
  /\ UNCHANGED <<current, previous, prevAge, dialing, address, sameEncap, faults>>

(* handleInit: a repeat of the message answered last gets the same answer;  *)
(* any other message from a holder of the token is answered with fresh keys *)
(* that become the pending session, unless the encapsulations differ.       *)
handleInit(m) ==
  /\ m.kind = "init"
  /\ \/ /\ m.id = lastReply.id
        /\ net' = net \cup {RespMsg(m.id, lastReply.key, m.addr)}
        /\ UNCHANGED <<sessions, lastReply, peer>>
     \/ /\ m.id # lastReply.id
        /\ FreshKeys(m.id) # {}
        /\ LET k == Fresh(FreshKeys(m.id)) IN
             /\ net' = net \cup {RespMsg(m.id, k, m.addr)}
             /\ \/ /\ ~sameEncap
                   /\ UNCHANGED <<sessions, lastReply, peer>>
                \/ /\ sameEncap
                   /\ pending' = [pending EXCEPT !["listen"] = Session(m.id, k)]
                   /\ lastReply' = [id |-> m.id, key |-> k]
                   /\ peer' = IF Live(current["listen"]) THEN peer ELSE m.addr
                   /\ reported' = [reported EXCEPT !["listen"] = TRUE]
                   /\ UNCHANGED <<current, previous, prevAge>>
  /\ UNCHANGED <<dialing, address, sameEncap, faults>>

-----------------------------------------------------------------------------
(* Traffic. *)

(* pumpFromTUN, sendProbe: seal under sendSession, if there is one.         *)
SendData(e) ==
  /\ Live(sendSession(e))
  /\ e = "listen" => peer # Nobody
  /\ LET s == sendSession(e) IN
       net' = net \cup {IF e = "dial" THEN DataMsg("listen", s.id, s.key, address)
                                      ELSE DataMsg("dial", s.id, s.key, peer)}
  /\ UNCHANGED <<sessions, dialing, lastReply, peer, address, sameEncap, faults>>

(* Whether end m.to can open datagram m. *)
Opens(m) ==
  /\ m.to = "dial" => m.addr = address
  /\ Live(sessionFor(m.to, m.id))
  /\ SameKeys(sessionFor(m.to, m.id), m)

(* The answer to a probe is sealed under the session the probe came in on. *)
Ack(m) == IF m.to = "listen" THEN DataMsg("dial", m.id, m.key, m.addr)
                             ELSE DataMsg("listen", m.id, m.key, address)

handleDataKeepsPendingMutant(m) ==
  /\ m.kind = "data"
  /\ Opens(m)
  /\ net' = net \ {m}
  /\ peer' = IF m.to = "listen" THEN m.addr ELSE peer
  /\ UNCHANGED <<sessions, dialing, lastReply, address, sameEncap, faults>>

handleDataPromotesFirstMutant(m) ==
  /\ m.kind = "data"
  /\ Live(sessionFor(m.to, m.id))
  /\ net' = net \ {m}
  /\ IF current[m.to].id # m.id /\ pending[m.to].id = m.id
       THEN Install(m.to, pending[m.to])
       ELSE UNCHANGED sessions
  /\ peer' = IF m.to = "listen" THEN m.addr ELSE peer
  /\ UNCHANGED <<dialing, lastReply, address, sameEncap, faults>>

(* handleData and handleProbeMessage on a datagram that opens: a pending    *)
(* session is promoted by it, the listening end follows its address, and a  *)
(* probe is answered.  A datagram that does not open is dropped and changes *)
(* nothing.                                                                 *)
handleData(m) ==
  /\ m.kind = "data"
  /\ Opens(m)
  /\ \/ net' = net \ {m}
     \/ net' = (net \ {m}) \cup {Ack(m)}
  /\ \/ /\ current[m.to].id # m.id
        /\ pending[m.to].id = m.id
        /\ Install(m.to, pending[m.to])
     \/ /\ current[m.to].id = m.id \/ pending[m.to].id # m.id
        /\ UNCHANGED sessions
  /\ peer' = IF m.to = "listen" THEN m.addr ELSE peer
  /\ UNCHANGED <<dialing, lastReply, address, sameEncap, faults>>

-----------------------------------------------------------------------------
(* Time and faults. *)

Older(s) == IF Live(s) /\ s.age < rejectAfterTime THEN [s EXCEPT !.age = @ + 1] ELSE s

(* A tick passes: by then the retirement tickers have done their work, and  *)
(* what was on the path has arrived or never will.                          *)
Tick ==
  /\ \A e \in Ends : ~Retirable(e)
  /\ current'  = [e \in Ends |-> Older(current[e])]
  /\ pending'  = [e \in Ends |-> Older(pending[e])]
  /\ previous' = [e \in Ends |-> Older(previous[e])]
  /\ prevAge'  = [e \in Ends |-> IF prevAge[e] <= previousGrace /\ Live(previous[e])
                                   THEN prevAge[e] + 1 ELSE 0]
  /\ net' = {}
  /\ UNCHANGED <<reported, dialing, lastReply, peer, address, sameEncap, faults>>

(* The process of an end is restarted: a new Tunnel, with nothing in it.    *)
RestartProcess(e) ==
  /\ faults < MaxFaults
  /\ faults' = faults + 1
  /\ current'  = [current EXCEPT ![e] = NoSession]
  /\ pending'  = [pending EXCEPT ![e] = NoSession]
  /\ previous' = [previous EXCEPT ![e] = NoSession]
  /\ prevAge'  = [prevAge EXCEPT ![e] = 0]
  /\ reported' = [reported EXCEPT ![e] = FALSE]
  /\ IF e = "dial" THEN /\ attempt' = Idle
                        /\ replies' = <<>>
                        /\ UNCHANGED <<lastReply, peer>>
                   ELSE /\ lastReply' = NoReply
                        /\ peer' = Nobody
                        /\ UNCHANGED dialing
  /\ UNCHANGED <<address, sameEncap, net>>

(* The dialling end appears under another address. *)
Move ==
  /\ faults < MaxFaults
  /\ faults' = faults + 1
  /\ address' \in Addrs \ {address}
  /\ UNCHANGED <<sessions, dialing, lastReply, peer, sameEncap, net>>

Next ==
  \/ BeginHandshake \/ HandshakeTimeout \/ TakeReply \/ EndGeneration
  \/ \E m \in net : handleInit(m) \/ handleResp(m) \/ handleData(m)
  \/ \E e \in Ends : SendData(e) \/ retireSessions(e) \/ RestartProcess(e)
  \/ Tick \/ Move

Spec == Init /\ [][Next]_vars

(* The loops and timers of both ends keep running.  The path and the        *)
(* dialling end's users are not so contrived that what can happen again and *)
(* again never does: a first message arrives before anything else waits in  *)
(* the buffer, its answer arrives and is taken in time, once before another *)
(* message has replaced the pending session, and then a packet is sent and  *)
(* arrives.                                                                 *)
Fairness ==
  /\ WF_vars(BeginHandshake) /\ WF_vars(HandshakeTimeout) /\ WF_vars(Tick)
  /\ \A e \in Ends : WF_vars(retireSessions(e))
  /\ SF_vars(replies = <<>> /\ \E m \in net : m.id = attempt.id /\ handleInit(m))
  /\ SF_vars(\E m \in net : SameKeys(m, pending["listen"]) /\ m.id = attempt.id /\ handleResp(m))
  /\ SF_vars(/\ replies # <<>> /\ Head(replies).id = attempt.id
             /\ SameKeys(Head(replies), pending["listen"]) /\ TakeReply)
  /\ SF_vars(SameKeys(current["dial"], pending["listen"]) /\ SendData("dial"))
  /\ SF_vars(/\ SameKeys(current["dial"], pending["listen"])
             /\ \E m \in net : SameKeys(m, pending["listen"]) /\ m.to = "listen" /\ handleData(m))

FairSpec == Spec /\ Fairness

-----------------------------------------------------------------------------
(* Properties. *)

SessionType == [id : Ids, key : Keys, age : 0 .. rejectAfterTime] \cup {NoSession}

(* Every slot, timer and buffer holds what its field can hold.              *)
TypeOK ==
  /\ current \in [Ends -> SessionType]
  /\ pending \in [Ends -> SessionType]
  /\ previous \in [Ends -> SessionType]
  /\ prevAge \in [Ends -> 0 .. (previousGrace + 1)]
  /\ reported \in [Ends -> BOOLEAN]
  /\ attempt \in [id : Ids, sends : 1 .. handshakeAttempts] \cup {Idle}
  /\ replies \in Seq([id : Ids, key : Keys]) /\ Len(replies) <= ReplyBuffer
  /\ lastReply \in [id : Ids, key : Keys] \cup {NoReply}
  /\ peer \in Addrs \cup {Nobody}
  /\ address \in Addrs
  /\ sameEncap \in BOOLEAN
  /\ faults \in 0 .. MaxFaults
  /\ \A m \in net : m.kind \in {"init", "resp", "data"} /\ m.to \in Ends
                    /\ m.id \in Ids /\ m.key \in Keys \cup {0} /\ m.addr \in Addrs

(* The panel shows a peer exactly while this end holds a session that could *)
(* carry a packet, through every promotion, expiry and restart.             *)
ReportedIffLive ==
  \A e \in Ends : reported[e] <=> Live(current[e]) \/ Live(pending[e])

(* A session the listening end has confirmed has the keys the dialling end  *)
(* installed under the same id, however answers and repeats were reordered. *)
ConfirmedKeysAgree ==
  \A s \in {current["listen"], previous["listen"]},
     t \in {current["dial"], previous["dial"]} :
       Live(s) /\ s.id = t.id => s.key = t.key

(* Ends configured with different encapsulations never come up: neither     *)
(* holds a session, so neither panel goes green.                            *)
MismatchNeverUp ==
  ~sameEncap => \A e \in Ends : ~Live(sendSession(e)) /\ ~reported[e]

(* One step diverts neither the keys nor the address, or shows the datagram *)
(* that proved the new ones.                                                *)
DivertsNothing ==
  LET old   == current["listen"]
      new   == current'["listen"]
      proof == {m \in net : m.kind = "data" /\ m.to = "listen" /\ Opens(m)}
  IN  Live(old) /\ Live(new) =>
        /\ ~SameKeys(old, new) => \E m \in proof : SameKeys(m, new)
        /\ peer' # peer => \E m \in proof : m.addr = peer'

(* Once the listening end has a confirmed session, it changes the keys it   *)
(* seals with only on a data datagram under the new keys, and the address   *)
(* it sends to only on one that opens and came from there: a repeated or    *)
(* late handshake message diverts neither.                                  *)
HandshakeNeverDiverts == [][DivertsNothing]_vars

(* Changing keys costs no packet in flight: whatever an end could open just *)
(* before it installs or promotes a session, it can open just after.        *)
RekeyKeepsInFlight ==
  [][faults = 0 =>
       \A e \in Ends : Live(current'[e]) /\ ~SameKeys(current[e], current'[e]) =>
         \A m \in net : m.kind = "data" /\ m.to = e /\ Opens(m) => Opens(m)']_vars

(* The two ends come back to one live, shared session again and again,      *)
(* after losses, reordered handshakes, expiries and restarts of either      *)
(* process.                                                                 *)
KeepsComingUp ==
  sameEncap => []<>(Live(current["dial"]) /\ SameKeys(current["dial"], current["listen"]))
=============================================================================
