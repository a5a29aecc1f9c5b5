# ParsTanel: a TLA+ verification project

ParsTanel is a tunnel engine written in Go. A *server* and a *client* keep a
tunnel between two machines and forward ports (or whole IP packets) through it.
This directory holds TLA+ models of the parts of the program where correctness
depends on the order of things, the TLC configurations that check them, and the
proofs that hold for every value of their constants.

`PROJECT.json` is the index: components, runs, mutants, the map from every
definition to the source lines it models, findings, hazards and theorems.

## 1. The system

| Part | Source | State it keeps | Module |
|---|---|---|---|
| Sealed session | `tunnel/l3/session.go`, `replay.go`, `wire.go` | send counter, replay window (mark, ring of bits) | `SealedSession`, `OnceDelivery` |
| Layer-3 tunnel | `tunnel/l3/tunnel.go`, `session.go`, `cmd/l3.go` | current, pending and previous session, peer address, waiting answers, the last answer given | `L3Session` |
| MTU prober | `tunnel/l3/mtuprobe.go` | the search, waiters by probe id, interface MTU | `MtuProbe` |
| Error correction | `tunnel/l3/fec.go` | group and index of the sender, groups of the receiver | `Fec` |
| Multipath | `tunnel/l3/multipath.go` | paths, write counter, receive queue | `Multipath` |
| Port forwarder | `tunnel/l3/forward.go`, `tunnel/direct/edge.go`, `tunnel/limits` | slots, flows and their pumps, backend cursor | `PortForward` |
| Direct tunnel | `tunnel/direct/*.go` | keepers, sessions, streams | `DirectTunnel` |
| Reverse server, control side | `server/transport/tcp.go`, `tcpmux.go`, `announce.go`, `control.go` | run, control channel, pool nonce, per-run channels | `ReverseControl` |
| | `server/transport/{kcp,quic,ws,wsmux,udp}.go` | the same, with listeners that outlive a run | `ServerControl` |
| Reverse server, forwarding side | `server/transport/*.go`, `limits.go`, `udpforward.go` | queues of local and pool connections, slots, sessions and their streams, UDP flows | `ReverseForward` |
| Plain UDP transport | `server/transport/udp.go`, `client/transport/udp.go` | two tables of addresses, payload channels | `UdpTransport` |
| Forwarded ports | `manage/validate.go`, `parsePortMappings` of each transport, `tunnel/portmap` | entries, listeners | `PortMappings` |
| Reverse client, control side | `client/transport/*.go`, `handshake.go`, `utils/network/{endpoints,healthscore}.go` | generation, control channel, probe of the older handshake, cursors over endpoints | `ClientControl`, `Endpoints` |
| Reverse client, pool | `client/transport/*.go`, `poolload.go` | `poolConnections`, `loadConnections`, sizes | `ClientPool` |
| Reverse client, backends | `client/transport/backendpool.go` | groups, health, cursor | `BackendPool` |
| Relays | `utils/handlers/*.go`, `client/transport/{udp,udpforward}.go` | two copies and the connection's slot | `Relay` |
| Process, reload, edits, watchdog | `cmd/*.go`, `manage/{edit,config,confhist,health,watchdog}.go` | the file, the process, the editor, what the watchdog has seen | `Engine` |
| Update, restore, backup | `manage/{update,localupdate,snapshot,restore,backup,autobackup}.go` | program, configuration, snapshots, archives | `Install` |
| Traffic totals | `metrics/metrics.go` | counters, base, file | `TrafficTotals` |

How they interact. The layer-3 tunnel seals with its current session and hands
every arriving datagram to the session its header names; the prober sends
through the same sessions; error correction and multipath lie below them. In a
reverse tunnel the control connection asks the client for pool connections; the
accept goroutines, the run's own goroutines and `Restart` share the control
channel and the nonce, while the queues belong to one run. The forwarding side
takes local connections and pool connections from those queues and hands each
pair to a relay. The client answers requests out of its pool, whose size it
takes from its own counters, and picks a backend for each connection. The
process reads its file, runs one of these engines and replaces it when the file
changes; the management tools change the file and the program under it.

What is hard: datagrams that are late, repeated or lost during a handshake;
three sessions alive at once; timers that race late answers; runs that are
replaced while goroutines of the last one are half way; counters reset under
connections that still count; slots taken in one goroutine and returned in
another; a machine that dies between two renames. `PROJECT.json` lists each
such place by line.

## 2. Modules

### The layer-3 tunnel

**`OnceDelivery`** is the abstract specification of one direction of a session:
messages are sent, and delivered at most once each and never after a message a
window or more ahead of them.

**`SealedSession`** is that direction as the code has it. `Draw` and `Encrypt`
are the two halves of `sealKind`, which any number of goroutines run at once;
`accept`, `cleared`, `commit` and `slot` are the replay window, a ring of bits
kept as the set of slots that are set; `Open` is the whole of `open`, which
holds `recvMu` throughout. Every datagram ever sealed may arrive at any time
any number of times, and bytes that were never sealed under any counter. The
cipher is abstracted to its contract: decryption succeeds on exactly what the
peer encrypted under that counter.

**`L3Session`** is two ends of a layer-3 tunnel. Keys are named by the session
id and by which derivation for that id they came from, so two ends agree when
both agree; ids and keys that nothing in the system remembers stand for fresh
random ones, which keeps the model finite without bounding the number of
sessions. `net` is a set of datagrams: handshake messages stay in it (they can
be repeated), data datagrams leave it when opened (the replay window takes each
once). Time is counted in ticks of about a minute; a datagram arrives in the
tick in which it was sent or never, and timers that fire several times a tick
have fired before it ends. `BeginHandshake`, `NextSend`, `HandshakeTimeout` and
`TakeReply` are `negotiate`; `Install` is `installDialed` and `promote`;
`EndGeneration` stands for every way a round is abandoned. A wrong token is
silence in the code, so only holders of the token appear.

**`MtuProbe`** is `mtuprobe.go` seen from the end that probes: `Try`, `Bisect`
and `Answered` are `searchMTU`, `TryFailed` is the loop of `probeOnce`,
`sendProbe` registers its waiter and sends, and the path carries what fits,
loses what it likes and changes. `widest` and `disturbed` are history: the most
the path carried during the round, and whether anything happened that excuses a
figure that is too small.

**`Fec`**: `WriteTo` numbers a packet and `flushParity` ends its group; `absorb`
takes a shard, hands up a packet that is new, rebuilds what is missing once
enough shards are there, and evicts groups out of the window. A packet is known
by its sender's incarnation, group and index, so a mixture of two incarnations
is visible. **`Multipath`**: `MpWriteTo` takes the paths in turn by a counter of
fixed width, a `pump` per path moves datagrams into one bounded queue; `msent`
and `mwrites` are history.

**`PortForward`** is the forwarder of the layer-3 tunnel and of the direct
tunnel's edge, which differ in how a backend is reached: by a dial, or by a
stream on a session. The edge picks one session for a connection (`EdgePicks`,
or `EdgeNoSession`, the refusal while none is up) and tries every backend on it;
sessions come up and die at any time. TCP handlers, UDP flows with a pump each,
and the reaper share one limit.

**`DirectTunnel`**: `dialSession`, `OriginReplies`, `EdgeUp` and `OriginUp` are
the handshake with its two proofs, of which each end checks the other's
(`OriginProved`, `EdgeProved`); `openStream`, `readRequest`, `dialBackend` and
`StreamJoined` are one user connection. The ends may hold different tokens, and
someone who holds none may dial the origin and give back the origin's own proof
or one made for something else (`StrangerProves`). A link that is cut is noticed
by each end in its own time.

### The reverse tunnel's server

**`ReverseControl`** is the control side of tcp and tcpmux. Each accepted
connection has an admission of its own whose reads of `controlChannel` and
`poolNonce` are separate steps; the run publishes nonce and control channel in
two steps and `Restart` clears them in two others. A connection whose run has
been replaced is `stale`: it can only be filed in channels nobody reads.

**`ServerControl`** is the control side of kcp, quic, ws, wsmux and udp. The
transports differ in who may claim while a control channel is set, in what is
answered before the claim is offered, and in which goroutine closes what;
`Late` is a `go Restart()` that runs only after the restart it duplicates, and
`OldListenerCloses` the listener of an earlier run that closes the present
control channel.

**`ReverseForward`** is the forwarding side of the six transports that carry
connections. `acceptLocalConn` takes a slot, queues and asks; `handleLoop` (not
multiplexed) and `TakeSession` with `handleSession` (multiplexed) pair what is
queued; `PutBack` and `handleSessionError` are a session that fails with
connections in hand; `udpAdmitter` and `reap` are UDP flows, which are local
connections with a peer. Each transport says in its own branch whether a
timeout returns the slot, whether the age is looked at again, and what is asked
for. What a Restart finds in the queues or in a loop's hand is abandoned: it
stays open in channels nobody reads until the runtime collects it (`Collected`),
and its slot stays taken.

**`UdpTransport`** is the plain UDP server: the address tables, the keepalive
that holds a tunnel's lock while it writes, `handleLoop` and the two copies.

**`PortMappings`** reads one entry with `validPortSpec`, with the
`parsePortMappings` of each transport (listener by listener, with a `Restart` in
the middle), with the client's `ResolveRemoteAddr` and with `portmap.Expand`. An
entry is made of typed pieces rather than characters: what the parsers tell
apart is forms, numbers and what kind of host is named (none, this machine's,
one with a dash, an IPv6 address in brackets, another machine's).

### The reverse tunnel's client

**`ClientControl`** with **`Endpoints`**: `channelDialer` walks the addresses
until a server answers, `legacyProbe` decides which handshake is offered,
`channelHandler` and its reader serve, `Restart` replaces the generation, and
`steerLoop` moves to a better exit. An endpoint is good, dead, mute (it takes
the connection and never answers) or refusing (it fails the stealth handshake,
refuses the claim or gives another token, for ever).
**`ClientPool`**: `poolMaintainer` decides from `poolConnections` and
`loadConnections`, `tunnelDialer` dials, and `Restart` zeroes the counters under
connections that have not left. **`BackendPool`**: `group`, `pick`, `check` and
the eviction. `group()` and the pick are under two locks: one connection at a
time is followed between them (`GetsGroup`, then `picksHeld` or, when its group
was evicted meanwhile, `picksOut`) while the others do both at once.

**`Relay`** is one forwarded connection: the two copies, the hand-over from
zero-copy to buffered (`Declines`), the goroutine that waits for the first end,
and the return that closes and gives the slot back.

### The machine

**`Engine`**: the process (`Run`, `runEngine`, `Poll`, `Reload`), the editor
(`Begin` to `Confirm` or `Revert`), edits by hand, and the watchdog. A file is
truncated before it is written, so a poll can see it empty or torn, and the
write that puts the previous file back can fail too, unnoticed (`WriteOld`). The
watchdog judges by what the engine says and, where that is missing or the tunnel
is a direct one, by sockets, which may be there though nothing is carried.
**`Install`**: update, rollback, restore and backup step by step, with a death
between any two steps and copies and renames that fail. **`TrafficTotals`**:
counters, collectors and the file; a layer-3 tunnel reports counts of its own
instead.

### Composition

`MCSealedMtu`, `MCL3Session`, `MCForwarding`, `MCForwardLive`, `MCReverseLive`,
`MCClient` and `MCManagement` each put several modules side by side. Every
behaviour is of one of them while the others stand still: the modules keep
disjoint variables, and what one component does to another is in the module
itself (the pool connections that arrive in `ReverseForward`, the server's
answers in `ClientControl`, the carrier below `Fec`). The choice is a variable
of Init, so a run explores the sum of the parts, not their product, and a
property of a part is checked in all behaviours of that part. Where the part
has fairness, the composed specification states it under that choice.

The proofs are in modules of their own, named `...Proofs` (section 5).

## 3. Runs

| Run | Parts and instance | Shows |
|---|---|---|
| `sealed_mtu` | session: 2 sealers, window 3, limit 7, counters to 8; MTU: sizes 2, 3, 4, 6, 9 around a search of 3..7, 2 tries | `NonceUsedOnce`, `DeliveredOnce`, `AcceptIsExact`, `ImplementsOnce` (refinement of `OnceDelivery`), `SearchIsRight`, `RoundEnds` |
| `l3_session` | session: 3 ids, 2 derivations each, 2 sends a round; FEC 2+1, window 1, 2 incarnations; 3 paths, counter wraps at 8 | `ConfirmedKeysAgree`, `MismatchNeverUp`, `RekeyKeepsInFlight`, `DeliveryIsRight`, `SwallowedByTwin` |
| `l3_restarts` | 2 ids and keys, 2 addresses, 1 fault, fairness | `ReportedIffLive`, `HandshakeNeverDiverts`, `KeepsComingUp` |
| `reverse_control` | 3 connections, 2 clients, 2 hosts, both handshakes, 1 fault; tcpmux with one client at a time | `PoolIsAuthorised` |
| `reverse_live` | tcp and tcpmux: 3 connections, 1 client, 1 fault; the other five: 3 connections, 3 faults; fairness | `StreamReconnects`, `OtherAdopts`, `PoolHasControl` |
| `forwarding` | 3 local and 2 pool connections, limit 2, channels of 1, 1 restart; udp with 2 addresses; 198 port entries alone and pairs of six; pool of 1 with 3 connections | `ForwardingIsRight`, `UdpIsRight`, `PortsAgree`, `PoolIsRight` |
| `forward_live` | tcp, ws, tcpmux with 2 local and 2 pool connections; relays of 5 kinds, 2 chunks each way; fairness | `NothingIsStuck` (`Settles`, `RelayReturns`), `RelayIsRight` |
| `client` | 2 endpoints of 4 kinds, 7 transports, 1 fault; 2 backend lists, 1 group kept; 2 keepers, 3 connections, one stranger or fault; 2 users, 2 peers, 2 sessions of the edge, limit 2; fairness | `ClientIsRight`, `ChoicesAreRight`, `ClientConnects`, `DirectIsRight`, `ForwarderIsRight`, `ComesAndGoes` |
| `management` | 4 configurations, 2 writes, 1 fault; 3 tools, 1 death or failure; 4 units of traffic, 2 processes, 1 reload | `EngineFollows`, `EditIsUndoable`, `InstallIsRight`, `TotalsGoOn` |

Each run also checks the types of its parts. Every property has a mutant: a
plausible slip in the code under which TLC finds it violated.

Why the bounds are enough. A window of 3 with counters to 8 has jumps shorter
than, equal to and longer than the window and a ring that is overwritten more
than twice; the limit of 7 is reached with nonces still in hand. Three ids let
an abandoned attempt, its successor and a rekey be on the path together; two are
enough to come up again after a restart, since an id and a key that nothing
remembers any more stand for fresh ones. The
sizes of `MtuProbe` lie below the floor, at it, inside and above the ceiling.
Three control connections let a control channel, a rival claim and a pool
connection coexist. Channels of capacity 1 are full while two more wait; with two local
connections one is in hand while the other fills the channel, which is all it
takes for a session that puts one back to wait for itself. A limit
of 2 is reached with a third connection at the door, and a group count of 1 is
exceeded by the second target. Two sessions of the edge let the one picked die
while the other is up. One restart separates two runs, which is all a
left-over of an earlier run is told apart by; where left-overs can pile up
(`ReverseControl`, `ServerControl`), runs are replaced without a bound. Ports go
to 4, one beyond which is out of range, and ranges are shorter, as long as and
longer than a mapping allows. Bounds on faults only limit how many failures one
behaviour has.

### Runs that fail, and why

* `slots_lost`: `handleLoop` of tcp explains that a local connection which
  waited too long must give its slot back, or the limit is used up for good;
  `handleLoop` of ws and `handleSession` of tcpmux, kcp and wsmux close it and
  keep the slot.
* `traffic_totals`: a collector starts from the file's totals and adds the
  process's counters. A reload inside the process starts a collector while the
  counters go on, so what was carried before counts twice. `TotalsGoOn` shows
  what does hold of a tunnel whose bytes the process counts: nothing it carried
  leaves the total but what a killed process had not written, and without a
  reload the total is exactly that.
* `bad_edit`: an edit is confirmed as soon as the unit is active once, which a
  process that exits on its configuration is for a moment.

### Observed while modelling

What the models show beside that, and what the properties therefore do not say:

* `tunnel.go:709`: only the last answered first message is remembered. A late
  one of an abandoned attempt replaces it, and a repeat of the accepted one then
  gets a second set of keys; `KeepsComingUp` shows the ends recover: both hold a
  live session with the same keys again and again.
* `tunnel.go:550`: the dialling end retires the old session after its grace even
  if it has sent nothing under the new one; the listening end still seals under
  the old one until it hears a packet under the new.
* `mtuprobe.go:243`: a session lost in the middle of a search makes the
  remaining sizes fail, and the interface is set to what had been found.
* `server/transport/tcp.go:498`: the test for a control channel and the offer of
  a candidate are two steps, so a second claimant can be answered and then left
  in the buffer; `StreamReconnects` shows its client recovers.
* `server/transport/tcpmux.go:297`: the nonce is published before the mux
  version, so a quick pool connection can be set up with the version of the run
  before.
* `server/transport/quic.go:621`: `pairLocalConn` looks at the age of a
  connection once and then tries pool connections for as long as they break;
  `Settles` excepts quic.
* `cmd/reload.go:37`: a write between the reading of the file and its first
  fingerprint is not seen until the next one; `EngineFollows` excepts it.
* `manage/validate.go:56`: a second `=` in an entry, or a dash in the host, is
  accepted by the validation and read differently by the parsers; `PortsAgree`
  says for which entries they agree. A host that is not this machine's passes
  too, and the engine exits when it cannot listen there.
* `server/transport/tcp.go:547`: a wide range takes a millisecond a port and is
  not stopped by `Restart`, so a listener of the run before may meet one of this
  run and end the process. `ValidatedStarts` says that this, a port asked for
  twice and a foreign host are the only ways an accepted list ends the engine.
* `utils/network/resolver.go:37,52`: the client splits a target at every colon,
  so each connection to a target such as `[::1]:80` is refused, as are those to
  a range of ports; `portmap.go:66-83` reads both. `SyntaxAgrees` excepts these
  targets and says that no other backend is dialled for them.
* `utils/network/endpoints.go:12-15`: "The control-channel loop calls Rotate()
  every time a connection attempt fails, so the client walks the list until
  something connects".
  An endpoint is left when the dial fails; on kcp and quic also when no
  answer comes. On tcp, tcpmux and udp an endpoint that never answers is not
  left, and on none of the five is one that refuses the claim, gives another
  token or fails the stealth handshake (`client/transport/tcp.go:141-206`,
  `kcp.go:210-246`, `quic.go:162-207`): with such a one first in the list the
  client stays there. Only ws and wsmux, whose dial is the handshake, leave any.
  `ClientConnects` is stated for lists that can be left (`NeverLeft`).
* `server/transport/udp.go:775-778`: the comment says "Wait until one of the
  directions is done", the code waits for both. A flow whose upward half has
  failed keeps filing what its source sends, unread, until the downward half has
  been idle for a minute. `PeerNeverStuck` therefore says that every entry has
  somebody who will take it out, not that it is read.
* `server/transport/udp.go:174`: a pair of an earlier run that ends after
  `Restart` can delete the entry of a present connection with the same address,
  whose datagrams are then taken for bad tokens; `PairedIsRegistered` excepts
  exactly that connection (`ustolen`).
* `server/transport/tcp.go:757-759`: connections in hand or queued when a run
  ends are neither closed nor give their slots back. With none of the pool
  offered a connection in hand waits without a timer, the three seconds being
  looked at only when a pool connection is tried; `Settles` is stated for as
  long as connections are offered.
* `tunnel/direct/edge.go:226,300`: one cursor is used for sessions and targets
  and moves by two for each connection, so with an even number of either,
  connections opened one after the other always start at the same one, where
  the comments at 216 and 290 say the load is shared. All targets of a
  connection are tried on the one session picked for it: if that dies, the user
  is refused though another session is up. While none is up everybody is refused
  at once, as `edge.go:26-28` says.
* `manage/restore.go:225`: `commitRestore` removes what an earlier restore left
  aside before it moves the present directory there. After a death between the
  renames, or when the second and the way back both fail, that copy is the only
  one, and a second restore (which makes the missing directory anew and empty)
  deletes it. `ConfigKept` holds until a restore is started with nothing in
  place (`iBare`).
* `manage/edit.go:559,618`: the error of the write that puts the previous file
  back is dropped; on a full disk the file stays empty or torn and the edit is
  reported as reverted. `EditIsUndoable` excepts that outcome (`spoilt`).
* `metrics/metrics.go:289-294`: where an engine gives accessors of its own, as
  the layer-3 tunnel does (`cmd/l3.go:71-74`), they replace base plus counters,
  so its totals start at zero with every run, against `metrics.go:258-263` and
  `docs/tunnel-metrics.md:14`. `TotalsGoOn` says so for that kind.
* `manage/watchdog.go:105-115,146` and `directhealth.go:18-48`: a tunnel there
  is no evidence about counts as healthy, and a direct one is judged by its
  sockets. A hang that leaves the sockets open may never be noticed:
  `EngineFollows` is stated for what the watchdog can see.
* `client/transport`: ws and udp size their pools without `poolCanGrow`, so
  `SizeBounded` is stated for the others.

## 4. Fairness

* `L3Session`: rounds begin, time out and retire their sessions, and time goes
  on (weak fairness). Strong fairness says the path and the users are not so
  contrived that what can happen again and again never does: a first message of
  the attempt under way arrives before anything else waits in the buffer; its
  answer arrives and is taken while the listening end still has that session
  pending; the dialling end's users send a packet under it; and the packet
  arrives. The code cannot come up over a path that loses everything, nor
  promote a session nobody uses.
* `MtuProbe`: the prober's goroutine runs, its timer fires, and datagrams do
  not stay on the path for ever. Starting a round is not fair: only that one
  that began ends.
* `ReverseControl`, `ServerControl`: goroutines run, deadlines fire, and a
  client keeps dialling (its loop has no exit but success), with strong fairness
  because a connection is free only at times. Faults are bounded. In
  `ReverseControl` the two seconds `Restart` sleeps are taken to outlast the
  goroutines of the run it stopped; in `ServerControl` that they do not is one
  of the faults.
* `ReverseForward`: handlers and sessions run (strong fairness, for Go's fair
  choice between goroutines that receive from one channel); the three seconds
  pass, a session that arrived is taken, and a `Restart` that began goes on
  (weak). That the client sends pool connections is not assumed, nor that a
  relay ends: `Settles` says what follows where pool connections are offered
  again and again.
* `Relay`: the copies run and the waiting goroutine returns. Peers need neither
  send nor close.
* `ClientControl`: the dialer's loop, the handler and `Restart` run; a claim
  that is made again and again at an endpoint that works is answered some time
  (strong fairness). Failures at a good endpoint are bounded; mute and refusing
  endpoints stay so for ever.
* `DirectTunnel`: goroutines run, a pipe whose other side closed ends, deadlines
  fire. `PortForward`: handlers of users and pumps of flows run; nobody has to
  connect, and no session of the edge has to come up.
* `Engine`: the process, its metrics, the watchdog and an editor that has begun
  go on. Operators need not do anything.

## 5. Proofs

Eight modules hold proofs. Every invariant a passing run checks is also a
theorem, for every value of the constants under the assumptions its module
names; so is one of the action properties, and the refinement of `OnceDelivery`.
Each proof has the same shape: an inductive invariant in named parts, one lemma
per action (with a lemma for what several actions share), and a last step that
combines them. The parts of a composed run share no variables, so each is proved
by itself, and the composed theorem adds that a step of the whole is a step of
one part and a stutter of the others. Theorems of a module's own specification
(`SealedSession`, `MtuProbe`, `L3Session`, `ReverseControl`, `ServerControl`,
`ReverseForward`) are stated there; the others of the composed one.

**`SealedSessionProofs`**: `TypeOK`, `NonceUsedOnce`, `DeliveredOnce`,
`AcceptIsExact` and that `SealedSession` implements `OnceDelivery`. The
assumptions: the window and the limit are positive and the limit fits the
counter field. None of the four is inductive alone. `IInv` adds `NonceInv`
(every nonce drawn or used is below the counter, no two sealers hold the same
one, one still held has not been used) and `WindowInv` (the mark is the largest
opened counter, and a slot's bit is set exactly when the counter of the last
window that stands in it was opened). The heart is `CommitKeepsWindow`: the
ways the mark can move each leave the ring exact, because counters less than a
window apart have different slots (`SlotsDiffer`). The refinement maps
`Encrypt` to a send and a successful `Open` to a delivery.

The same module proves `SearchIsRight` of `MtuProbe` (`SearchStaysRight`).
`MtuInv` says what the bounds of the search mean while it runs: everything up
to the lower one fitted the path at some time in the round (`SearchOK`); an
answer that is waited for vouches for the size being tried (`AnswerOK`); and on
an undisturbed round everything above the upper one does not fit (`QuietOK`).
At the end the two meet.

**`L3SessionProofs`**: `TypeOK`, `ReportedIffLive`, `MismatchNeverUp`,
`ConfirmedKeysAgree` and the action property `HandshakeNeverDiverts` of
`L3Session`, for any sets of positive ids and keys, any addresses, attempts and
number of faults, and timers in the order the code has them. `ReportedIffLive`
needs that what is installed or promoted is live, hence that ids are never 0
wherever they come from (`SlotsOK`, `DialOK`, `ListenOK`, `NetOK`).
`MismatchNeverUp` speaks of the session an end would seal under; what is
inductive is that no end has a current or pending session at all
(`NothingInstalled`). `ConfirmedKeysAgree` needs that the dialling end
installs an id once: an id it still looks for is neither its own nor confirmed,
and all it holds or sealed under one id has one key (`KeysOK`).

It also proves the parts beside it. `DeliveryIsRight` and `SwallowedByTwin` of
`Fec`, for every scheme, window and number of groups, incarnations and faults:
`FecInv` holds per group (`GroupOK`) that a data shard that is there was
delivered, that the width is known exactly when a parity shard is there, that a
group of one incarnation was rebuilt as soon as it could be and delivered that
incarnation's packets, and that what a mixed group delivered has a packet or a
garbled one to show for it; and, while the sender has not restarted, that what
was handed up is marked in its group until that is evicted (`OnceOK`).
`ArrivalKeepsGroup` is the heart. For `Multipath`, `Shares` refines the even
share to a linear statement: an earlier path is ahead by at most one per wrap, a
later path never, and the round under way adds its own one.

**`ReverseControlProofs`**: `TypeOK` and `PoolIsAuthorised`, for any
connections, clients, hosts and faults. The property relates a pool connection
to the run that admitted it; the invariant therefore says what is published at
each point of a run (`RunOK`) and how far a connection of that run can have come
by then (`ChecksOK`): a check that saw a control channel saw this run's.

**`ServerControlProofs`**: the types and `PoolHasControl` of the five other
transports. `ClaimsOK` follows the claim `start` holds until it is published,
`RunsOK` that with kcp and quic a run that is neither up nor stopping has
neither a control channel nor a pool connection past its check.

**`ReverseForwardProofs`**: the types, `CapHolds`, `FlowIsRead` and
`StreamsCounted` of `ReverseForward`. A connection is in one place (`QueueOK`,
`HandOK`, `SessionOK`), everything let in is counted, and the counter may run
ahead but never falls short (`CapOK`, `StreamOK`): that inequality, not
equality, is what the code keeps. It also proves `RelayIsRight`: what a copy has
written followed by what it holds is exactly what it has read, a beginning of
what was sent (`InOrder`), and the end of a stream is seen only with nothing in
hand and after the peer's last word (`EofIsLast`).

**`ForwardingProofs`** puts these together with `ClientPool`, `PortMappings`
and `UdpTransport`: `ForwardingIsRight`, `PoolIsRight`, `PortsAgree`,
`UdpIsRight` and `PartsTyped`. The pool's counter is short by just what a
Restart found waiting (`PoolCount`). The ports need no invariant about the
past beyond which listeners were started (`PortInv`); the work is that the
readers of an entry agree. `UdpInv` says that tables, queues, hand and copies
name each connection consistently, and who holds a connection's lock.

**`ClientProofs`**: `ClientIsRight`, `ChoicesAreRight`, `DirectIsRight`,
`ForwarderIsRight` and `PartsTyped`. The client needs that what can still ask
for a Restart is bounded by what runs (`CDialOK`: hence at most two are
pending), that the older handshake is offered only before an answer
(`CProbeOK`), and that what is dialled is where the cursor stands (`COnOK`).
Steering needs that a streak is of checks its candidate won (`SteerOK`), the
backends that the cursor stands behind the last pick (`CursorOK`) and that a
connection between its two locks holds the group the map has, or one that was
evicted meanwhile (`HandOK`). The direct tunnel needs that each end is up only
after a proof it checked and with a peer that holds its token, whatever strangers
sent (`DTokenOK`), and that each keeper's connection is its own (`DKeeperOK`);
the forwarder that slots are users plus flows, those still opening included
(`PfSlotOK`, `PfOpenOK`), and that what a user has tried did not answer or was
on a session that had died (`PfTriedOK`).

**`ManagementProofs`**: `EditIsUndoable`, `InstallIsRight`, `TotalsGoOn` and
`PartsTyped`. An edit is followed step by step: until it is over nobody else
writes the file (`EditOK`). An update or restore is followed the same way
through program, stage, snapshots and what was there before (`FilesOK`,
`SnapsOK`, `BeforeOK`, `RestoreOK`): a death between any two steps leaves a
state the next tool starts from. Snapshots stay within the retention but for
one left by each death. That the last configuration in place is still in place
or aside is followed through the renames and their failures up to the first
restore that starts with nothing there (`iLast`, `iBare`). `TotalsGoOn` is
inductive with the types; the cases that matter are the end of a process, with
its last write or without it, and the layer-3 kind, whose total is its own
count.

The assumptions are those the code justifies: sizes, widths, retentions, windows
and counts that are positive where a zero would be another program (`FWindow`,
`MPaths`, `handshakeAttempts`, `EKeep`, `NumEndpoints`, `NeedStreak`), natural
elsewhere; the order of the timers; finite sets where a counter counts their
members; and names that stand for nothing (`None`, `"none"`) outside the sets
they complete. TLC evaluates each on the runs.

Only model-checked: the liveness properties (`RoundEnds`, `KeepsComingUp`,
`StreamReconnects`, `OtherAdopts`, `NothingIsStuck`, `ClientConnects`,
`ComesAndGoes`, `EngineFollows`), which rest on fairness and `ENABLED` and are out
of the prover's reach; and `RekeyKeepsInFlight`, which depends on how
retirement, ticks and the sessions the other end may still seal under line up
through a whole rekey, an invariant not yet found.

## 6. Not modelled

The contents of packets and the cryptography; statistics, logs and wording;
devices, sockets and raw-packet carriers; the screens and dialogues of the
management tool, which are sequential and end in the operations `Engine` and
`Install` model; diagnostics, benchmarks and the history of alerts, which only
read; the local proxies, which keep nothing from one request to the next.
Within the modelled parts: bandwidth pacing and the PROXY header; the framing of
datagrams inside a forwarded UDP flow; the ping that makes an endpoint's score;
error-correction shards whose kind and index disagree (`fec.go:344`), which two
ends with one scheme do not send, and ends with two schemes; more than one
connection at a time between a backend pool's two locks; messages that do not
authenticate during a layer-3 handshake, which the code
drops or which fail a round as `EndGeneration` does; network sources and
archive formats of an update, which are whole, bad or refused. The components
listed as `not_modelled` in `PROJECT.json` are left out for the reasons given
there.

## 7. Plan

1. Done: the modules above and their runs; a theorem for every invariant they
   check, for `HandshakeNeverDiverts` and for the refinement.
2. Next proofs: `RekeyKeepsInFlight` of `L3Session`; the composed specifications
   as implementations of each part's own (so that a theorem of a part is one of
   the whole); `TypeOK` of `ReverseForward` and `ServerControl` as properties of
   the live runs.
3. Left to model: the pacing of bandwidth and its interplay with the limits, and
   the composition of `ReverseForward` with `ClientPool` through the pool.
