---------------------------- MODULE DirectTunnel ----------------------------
(***************************************************************************)
(* The direct tunnel (tunnel/direct): the edge keeps a number of mux       *)
(* sessions to the origin up, each opened by a handshake in which the two  *)
(* ends prove the token to each other, and opens a stream per user         *)
(* connection, which the origin joins to a backend before it answers.      *)
(*                                                                         *)
(* A connection is one record with its two ends.  What is in flight on it  *)
(* is read off the ends, but for the proof the dialling end gives, which is *)
(* kept by what the origin makes of it: the one it expects ("edge"), the   *)
(* one it has just given itself ("origin"), or any other.  The end that    *)
(* dials need not be the edge: the origin's port is open to strangers.  A  *)
(* link that is cut is noticed by each end in its own time.                *)
(***************************************************************************)
EXTENDS Integers, Sequences, FiniteSets, SequencesExt

CONSTANTS
  DKeepers,    \* keepSession goroutines
  DConns,      \* connections that can exist at once
  DStreams,    \* streams that can exist at once
  DCursor,     \* bound: the cursor is followed modulo this
  DMaxFaults   \* bound: cut links and deadlines that expire on a live peer

ASSUME DAssumption == DMaxFaults \in Nat /\ DCursor \in Nat \ {0} /\ "none" \notin DConns

VARIABLES
  dsame,       \* rigid: the two ends hold the same token
  dctx,        \* the edge's context: "live", then "done"
  keepers,     \* "idle", "dialling", "up", "waiting" or "ended", and the connection
  conns,
  sessions,    \* Edge.sessions
  dcursor,
  streams,
  dfaults

dvars == <<dsame, dctx, keepers, conns, sessions, dcursor, streams, dfaults>>

DNone      == "none"
FreeConn   == [edge |-> "none", origin |-> "none", given |-> "none", cut |-> FALSE]
FreeStream == [conn |-> DNone, edge |-> "none", origin |-> "none", answer |-> "none"]
IdleKeeper == [st |-> "idle", conn |-> DNone]

DirectInit ==
  /\ dsame \in BOOLEAN /\ dctx = "live"
  /\ keepers = [k \in DKeepers |-> IdleKeeper]
  /\ conns = [c \in DConns |-> FreeConn]
  /\ sessions = <<>> /\ dcursor = 0
  /\ streams = [s \in DStreams |-> FreeStream]
  /\ dfaults = 0

(* Both ends are through with the connection: its record can be used again. *)
Settled(c) == IF c.edge \in {"none", "closed", "stranger"} /\ c.origin \in {"none", "closed"} THEN FreeConn ELSE c
SettledStream(s) == IF s.edge \in {"none", "closed"} /\ s.origin \in {"none", "closed", "refused"} THEN FreeStream ELSE s

DirectFault == dfaults < DMaxFaults /\ dfaults' = dfaults + 1

-----------------------------------------------------------------------------
(* keepSession *)

(* dialTransport, and the opening of edgeHandshake: version and nonce.      *)
dialSession(k, c) ==
  /\ dctx = "live" /\ keepers[k].st = "idle"
  /\ conns[c] = FreeConn /\ \A s \in DStreams : streams[s].conn # c
  /\ keepers' = [keepers EXCEPT ![k] = [st |-> "dialling", conn |-> c]]
  /\ conns' = [conns EXCEPT ![c] = [FreeConn EXCEPT !.edge = "hello", !.origin = "accepted"]]
  /\ UNCHANGED <<dsame, dctx, sessions, dcursor, streams, dfaults>>

(* The dial or the handshake fails.                                         *)
DirectDialFails(k) ==
  /\ keepers[k].st = "dialling"
  /\ LET c == keepers[k].conn
     IN /\ conns[c].edge = "hello"
        /\ IF conns[c].origin = "closed" \/ conns[c].cut \/ (conns[c].origin = "replied" /\ ~dsame)
              \/ dctx = "done"
           THEN UNCHANGED dfaults ELSE DirectFault
        /\ conns' = [conns EXCEPT ![c] = Settled([@ EXCEPT !.edge = "closed"])]
  /\ keepers' = [keepers EXCEPT ![k] = [st |-> "waiting", conn |-> DNone]]
  /\ UNCHANGED <<dsame, dctx, sessions, dcursor, streams>>

unprovedMutant(c) == TRUE

(* The origin's proof is the one this token gives for the two nonces.       *)
OriginProved(c) == conns[c].origin = "replied" /\ dsame

(* edgeHandshake: the origin's proof is checked before the edge's own is    *)
(* sent; then the session is built and listed.                              *)
EdgeUp(k) ==
  /\ keepers[k].st = "dialling" /\ dctx = "live"
  /\ LET c == keepers[k].conn
     IN /\ conns[c].edge = "hello" /\ conns[c].origin = "replied" /\ ~conns[c].cut
        /\ OriginProved(c)
        /\ conns' = [conns EXCEPT ![c].edge = "up",
                                   ![c].given = IF dsame THEN "edge" ELSE "other"]
        /\ sessions' = Append(sessions, c)
  /\ keepers' = [keepers EXCEPT ![k].st = "up"]
  /\ UNCHANGED <<dsame, dctx, dcursor, streams, dfaults>>

trustsSmuxMutant(c) == FALSE

(* A read or write on the transport fails, and watchedConn says so; smux's  *)
(* own IsClosed would not.                                                  *)
markDead(c) == conns[c].cut \/ conns[c].origin = "closed"

EdgeDies(c) ==
  /\ conns[c].edge = "up" /\ markDead(c)
  /\ conns' = [conns EXCEPT ![c].edge = "dead"]
  /\ UNCHANGED <<dsame, dctx, keepers, sessions, dcursor, streams, dfaults>>

(* The list without this session, which is in it once.                      *)
Unlisted(c) == RemoveFirst(sessions, c)

(* The session's keeper removes and closes it, and waits before the next.   *)
removeSession(k) ==
  /\ keepers[k].st = "up"
  /\ LET c == keepers[k].conn
     IN /\ conns[c].edge = "dead" \/ dctx = "done"
        /\ sessions' = Unlisted(c)
        /\ conns' = [conns EXCEPT ![c] = Settled([@ EXCEPT !.edge = "closed"])]
        /\ streams' = [s \in DStreams |-> IF streams[s].conn = c
                                          THEN SettledStream([streams[s] EXCEPT !.edge = "closed"])
                                          ELSE streams[s]]
  /\ keepers' = [keepers EXCEPT ![k] = [st |-> "waiting", conn |-> DNone]]
  /\ UNCHANGED <<dsame, dctx, dcursor, dfaults>>

sleepUntil(k) ==
  /\ keepers[k].st \in {"waiting", "idle"}
  /\ IF dctx = "live" THEN keepers[k].st = "waiting" /\ keepers' = [keepers EXCEPT ![k] = IdleKeeper]
                      ELSE keepers' = [keepers EXCEPT ![k].st = "ended"]
  /\ UNCHANGED <<dsame, dctx, conns, sessions, dcursor, streams, dfaults>>

-----------------------------------------------------------------------------
(* The origin: Run accepts, admit takes the connection through              *)
(* originHandshake and serves its streams.  A websocket connection reaches  *)
(* it through wsListener's channel and then is one like the others.         *)

OriginReplies(c) ==
  /\ conns[c].origin = "accepted" /\ conns[c].edge # "none"
  /\ conns' = [conns EXCEPT ![c].origin = "replied"]
  /\ UNCHANGED <<dsame, dctx, keepers, sessions, dcursor, streams, dfaults>>

unlabelledMutant(c) == conns[c].given \in {"edge", "origin"}

(* What was given is the edge's proof under this token for the two nonces   *)
(* of this connection: the label in it tells it from the origin's own.      *)
EdgeProved(c) == conns[c].given = "edge"

OriginUp(c) ==
  /\ conns[c].origin = "replied" /\ EdgeProved(c) /\ ~conns[c].cut
  /\ conns' = [conns EXCEPT ![c].origin = "up"]
  /\ UNCHANGED <<dsame, dctx, keepers, sessions, dcursor, streams, dfaults>>

(* The other end of a handshake is gone, or gave a false proof, or is a     *)
(* stranger that lets the deadline pass.                                    *)
Hopeless(c) == \/ conns[c].cut \/ conns[c].edge \in {"closed", "stranger"}
               \/ conns[c].given \in {"origin", "other"}

(* A handshake that does not finish in its deadline or ends in errBadProof, *)
(* or a transport that failed: the connection and its streams are closed.   *)
OriginEnds(c) ==
  /\ conns[c].origin \in {"accepted", "replied", "up"}
  /\ IF Hopeless(c) THEN UNCHANGED dfaults ELSE conns[c].origin # "up" /\ DirectFault
  /\ conns' = [conns EXCEPT ![c] = Settled([@ EXCEPT !.origin = "closed"])]
  /\ streams' = [s \in DStreams |-> IF streams[s].conn = c /\ streams[s].origin \in {"none", "joined"}
                                    THEN SettledStream([streams[s] EXCEPT !.origin = "closed"])
                                    ELSE streams[s]]
  /\ UNCHANGED <<dsame, dctx, keepers, sessions, dcursor>>

(* Someone who does not hold the token dials the origin, in the room of a   *)
(* fault, and sends a version and a nonce of his own; ...                   *)
StrangerDials(c) ==
  /\ conns[c] = FreeConn /\ (\A s \in DStreams : streams[s].conn # c) /\ DirectFault
  /\ conns' = [conns EXCEPT ![c] = [FreeConn EXCEPT !.edge = "stranger", !.origin = "accepted"]]
  /\ UNCHANGED <<dsame, dctx, keepers, sessions, dcursor, streams>>

(* ... he answers the origin's proof with that same proof, or with one made *)
(* under another token or for another connection's nonces, ...              *)
StrangerProves(c) ==
  /\ conns[c].edge = "stranger" /\ conns[c].origin = "replied" /\ conns[c].given = "none"
  /\ \E g \in {"origin", "other"} : conns' = [conns EXCEPT ![c].given = g]
  /\ UNCHANGED <<dsame, dctx, keepers, sessions, dcursor, streams, dfaults>>

(* ... or hangs up.                                                         *)
StrangerLeaves(c) ==
  /\ conns[c].edge = "stranger"
  /\ conns' = [conns EXCEPT ![c].edge = "closed"]
  /\ UNCHANGED <<dsame, dctx, keepers, sessions, dcursor, streams, dfaults>>

LinkCut(c) ==
  /\ ~conns[c].cut /\ conns[c].edge # "none" /\ DirectFault
  /\ conns' = [conns EXCEPT ![c].cut = TRUE]
  /\ UNCHANGED <<dsame, dctx, keepers, sessions, dcursor, streams>>

-----------------------------------------------------------------------------
(* Streams. *)

Usable(c)  == conns[c].edge = "up"

(* pickSession: the first usable one from the cursor on.                    *)
Picked(c) ==
  /\ sessions # <<>>
  /\ LET n     == Len(sessions)
         at(i) == sessions[((dcursor + i) % n) + 1]
     IN \E i \in 0..n - 1 : at(i) = c /\ Usable(c) /\ \A j \in 0..i - 1 : ~Usable(at(j))

(* The cursor is one for sessions and for targets: a stream that is opened  *)
(* turns it for both, a look that finds no usable session only for one.     *)
DirectTurned(n) == dcursor' = (dcursor + n) % DCursor

(* openFor, openStream: the request goes out on the session picked and the  *)
(* edge waits for the answer.                                               *)
openStream(s) ==
  /\ dctx = "live" /\ streams[s] = FreeStream
  /\ \E c \in DConns :
       /\ Picked(c)
       /\ streams' = [streams EXCEPT ![s] = [FreeStream EXCEPT !.conn = c, !.edge = "asking"]]
  /\ DirectTurned(2)
  /\ UNCHANGED <<dsame, dctx, keepers, conns, sessions, dfaults>>

(* Sessions are listed and none is usable: the user is refused.             *)
NoneUsable ==
  /\ dctx = "live" /\ sessions # <<>> /\ \A c \in DConns : ~Picked(c)
  /\ DirectTurned(1)
  /\ UNCHANGED <<dsame, dctx, keepers, conns, sessions, streams, dfaults>>

(* serveStream: the request is read and the backend dialled, ...            *)
readRequest(s) ==
  /\ streams[s].edge = "asking" /\ streams[s].origin = "none"
  /\ conns[streams[s].conn].origin = "up" /\ ~conns[streams[s].conn].cut
  /\ streams' = [streams EXCEPT ![s].origin = "dialling"]
  /\ UNCHANGED <<dsame, dctx, keepers, conns, sessions, dcursor, dfaults>>

(* ... then the answer says whether it was reached.                         *)
Answered(s, ok) == [streams[s] EXCEPT !.origin = IF ok THEN "joined" ELSE "refused",
                                      !.answer = IF ok THEN "ok" ELSE "failed"]

(* A dial that comes back after its session ended finds the stream gone.    *)
dialBackend(s) ==
  /\ streams[s].origin = "dialling"
  /\ \E ok \in BOOLEAN :
       streams' = [streams EXCEPT ![s] = IF conns[streams[s].conn].origin = "up" THEN SettledStream(Answered(s, ok))
                                         ELSE SettledStream([@ EXCEPT !.origin = "closed"])]
  /\ UNCHANGED <<dsame, dctx, keepers, conns, sessions, dcursor, dfaults>>

StreamJoined(s) ==
  /\ streams[s].edge = "asking" /\ streams[s].answer = "ok" /\ conns[streams[s].conn].edge = "up"
  /\ streams' = [streams EXCEPT ![s].edge = "joined"]
  /\ UNCHANGED <<dsame, dctx, keepers, conns, sessions, dcursor, dfaults>>

(* The answer is a failure, or does not come in time, or the session died.  *)
StreamFails(s) ==
  /\ streams[s].edge = "asking"
  /\ IF streams[s].answer = "failed" \/ conns[streams[s].conn].edge # "up" \/ streams[s].origin \in {"closed", "refused"}
     THEN UNCHANGED dfaults ELSE DirectFault
  /\ streams' = [streams EXCEPT ![s] = SettledStream([@ EXCEPT !.edge = "closed"])]
  /\ UNCHANGED <<dsame, dctx, keepers, conns, sessions, dcursor>>

(* The user's side or the session ends the conversation at the edge, ...    *)
EdgePipeEnds(s) ==
  /\ streams[s].edge = "joined"
  /\ streams' = [streams EXCEPT ![s] = SettledStream([@ EXCEPT !.edge = "closed"])]
  /\ UNCHANGED <<dsame, dctx, keepers, conns, sessions, dcursor, dfaults>>

(* ... and the backend's, or the other end's close, at the origin.          *)
OriginPipeEnds(s) ==
  /\ streams[s].origin = "joined"
  /\ streams' = [streams EXCEPT ![s] = SettledStream([@ EXCEPT !.origin = "closed"])]
  /\ UNCHANGED <<dsame, dctx, keepers, conns, sessions, dcursor, dfaults>>

EdgeStops ==
  /\ dctx = "live" /\ dctx' = "done"
  /\ UNCHANGED <<dsame, keepers, conns, sessions, dcursor, streams, dfaults>>

KeeperStep(k) == EdgeUp(k) \/ removeSession(k) \/ sleepUntil(k) \/ DirectDialFails(k) \/ \E c \in DConns : dialSession(k, c)
ConnStep(c)   == EdgeDies(c) \/ OriginReplies(c) \/ OriginUp(c) \/ OriginEnds(c)
StreamStep(s) == readRequest(s) \/ dialBackend(s) \/ StreamJoined(s) \/ StreamFails(s)

DirectNext ==
  \/ \E k \in DKeepers : KeeperStep(k)
  \/ \E c \in DConns : ConnStep(c) \/ LinkCut(c) \/ StrangerDials(c) \/ StrangerProves(c) \/ StrangerLeaves(c)
  \/ \E s \in DStreams : openStream(s) \/ StreamStep(s) \/ EdgePipeEnds(s) \/ OriginPipeEnds(s)
  \/ NoneUsable
  \/ EdgeStops

(* Every goroutine goes on while it can; nobody has to open or end a        *)
(* conversation, but an end whose other end is closed sees it.              *)
DirectFairness ==
  /\ \A k \in DKeepers : WF_dvars(KeeperStep(k))
  /\ \A c \in DConns : WF_dvars(ConnStep(c))
  /\ \A s \in DStreams : WF_dvars(StreamStep(s))
                         /\ WF_dvars(streams[s].edge = "closed" /\ OriginPipeEnds(s))
                         /\ WF_dvars(streams[s].origin = "closed" /\ EdgePipeEnds(s))
DirectSpec == DirectInit /\ [][DirectNext]_dvars /\ DirectFairness

-----------------------------------------------------------------------------
KeeperType == [st : {"idle", "dialling", "up", "waiting", "ended"}, conn : DConns \cup {DNone}]
ConnType   == [edge : {"none", "hello", "up", "dead", "closed", "stranger"}, cut : BOOLEAN,
               given : {"none", "edge", "origin", "other"},
               origin : {"none", "accepted", "replied", "up", "closed"}]
StreamType == [conn : DConns \cup {DNone}, edge : {"none", "asking", "joined", "closed"},
               origin : {"none", "dialling", "joined", "closed", "refused"}, answer : {"none", "ok", "failed"}]

DirectTypeOK ==
  /\ dsame \in BOOLEAN /\ dctx \in {"live", "done"} /\ dfaults \in 0..DMaxFaults
  /\ keepers \in [DKeepers -> KeeperType] /\ conns \in [DConns -> ConnType] /\ streams \in [DStreams -> StreamType]
  /\ sessions \in Seq(DConns) /\ IsInjective(sessions)

(* The token is proved both ways: the edge gives a proof to, and serves,    *)
(* only an origin with its own token; the origin serves only an edge that   *)
(* holds it and has built its own half of the session, never a stranger     *)
(* that hands its proof back; and the edge's list is exactly its keepers'   *)
(* sessions, one each, however they die and return.                         *)
SessionsProved ==
  /\ \A c \in DConns : /\ conns[c].edge \in {"up", "dead"} \/ conns[c].given = "edge" => dsame
                       /\ conns[c].origin = "up" => dsame /\ conns[c].edge \in {"up", "dead", "closed"}
  /\ ToSet(sessions) = {keepers[k].conn : k \in {x \in DKeepers : keepers[x].st = "up"}}
  /\ \A k, l \in DKeepers : keepers[k].st = "up" /\ keepers[k].conn = keepers[l].conn => k = l

(* A user is joined only to a stream whose backend the origin reached: the  *)
(* origin's end is joined, or was and has ended since (a late answer, a     *)
(* dial that outlives its session and a failed one are not taken for it).   *)
JoinedToBackend ==
  \A s \in DStreams : streams[s].edge = "joined" => streams[s].origin \in {"joined", "closed"}

(* Sessions come back: with the token shared, once links stop failing every *)
(* keeper has a session for good, unless the edge is stopped; and a stopped *)
(* edge leaves no session and no stream at either end.                      *)
SessionsComeUp ==
  /\ dsame => <>[](dctx = "done" \/ \A k \in DKeepers : keepers[k].st = "up" /\ conns[keepers[k].conn].origin = "up")
  /\ (dctx = "done") ~> (/\ \A c \in DConns : conns[c] = FreeConn
                         /\ \A s \in DStreams : streams[s] = FreeStream
                         /\ \A k \in DKeepers : keepers[k].st = "ended")
=============================================================================
