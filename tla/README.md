# A TLA+ verification of chepherd-relay

chepherd-relay is the public rendezvous point between *bastions* (daemons
behind a NAT) and their *clients*. It introduces the two to each other (SDP
offers, answers and ICE candidates over HTTP long polls), relays WebSocket
frames between them when they cannot connect directly, keeps a ledger of who
owns which bastion, and sends push notifications. All state is in memory, and
every HTTP request is a goroutine: what is hard about the program is how these
goroutines interleave around a few mutexes and channels.

Paths below are relative to `src/`; `main.go` is `cmd/chepherd-relay/main.go`.

## 1. Inventory

| Component | Source | State | Operations | Module |
|---|---|---|---|---|
| WebSocket relay, membership | `internal/wsrelay/wsrelay.go` | `Hub.rooms`; per `Room` the daemon and the clients; per handler its room | `joinRoom`, `leaveRoom`, rejection, read error | `WsHub` |
| WebSocket relay, frames | same | per handler the frame in hand and its remaining targets; the sockets | read loop, `Room.fanout` | `WsRelay` |
| Subprotocol negotiation | same | none | `parseSecWSProtocol`, choice of role, bastion and subprotocol | `Handshake` |
| SDP rendezvous | `main.go` | `pendingOffers`, `pendingAnswers`, answer channels | `signalingInitiate`, `signalingOffer`, `signalingPoll`, `signalingAnswer` | `Signaling`, `Rendezvous` |
| Trickled candidates | `main.go` | `candidateQueues` | `signalingPostCandidate`, `signalingPollCandidates` | `Candidates` |
| Bastion registry | `internal/registry/registry.go`, `main.go` | `byID`, `byToken` | `Register`, `Touch`, `Get`, `VerifyDaemonToken`, `ListByUser`; `registerBastion`, `listMyBastions` | `Registry` |
| Push notifications | `internal/push/*.go`, `main.go` | device registrations; the backends; per call its snapshot and counters | `FromEnv`, `Upsert`, `ListByUser`, `MarkFailure`, `Delete`, `Send`; `pushRegister`, `pushSend` | `Push` |
| JWT verification | `internal/auth/*.go` | the JWKS cache and its age; per call its fetch | `Verify`, `keyFor`, `refresh`, `Middleware` | `Auth` |
| Observability middleware | `internal/obs/obs.go` | response recorder per request; spans not yet exported | `Init`, `Middleware`, shutdown | `Server` |
| Start-up, routing, shutdown | `main.go` | where `main` is; requests in flight | `main`, `protect` | `Server` |
| Health, statistics | `main.go`, `wsrelay.go` | none of their own | read-only | no |

**Interactions.** `WsHub` and `WsRelay` share rooms and handlers. `Signaling`
and `Candidates` share `relay.mu` and a bastion's polling loop, but no data:
neither reads what the other writes, so they are checked apart. The registry is
used by the handlers of the ledger only (the signaling handlers neither look a
bastion up nor touch it), and the push registry by the push handlers only.
`Server` is the frame around all of them: a request passes the observability
middleware, the mux and, if a JWKS endpoint is configured, the authentication
middleware, which passes claims in the request context.

**What is hard**, and what makes each component correct:

* *Membership.* `leaveRoom` runs in three critical sections and looks its room
  up again, so rooms can be joined, emptied, deleted and made again around a
  leaver. Correct means: who is in a room is connected, and in the room the hub
  routes to; who is connected is in its room unless another connection claimed
  its slot; no room outlives its members.
* *Frames.* A handler writes to a snapshot of targets outside the lock, through
  sockets that may block or be broken, on behalf of a room the hub may have
  dropped. Correct means: no frame crosses bastions, is repeated, reordered, or
  lost to a peer that is connected to the sender's room; and no write waits but
  for a peer that does not read.
* *Rendezvous.* Client handlers, polls and answers meet in channels, and every
  wait races a timer and a hang-up; `signalingAnswer` sends to a channel after
  releasing the lock under which it found it. Correct means: an offer goes to
  one poll of its bastion, a client gets the first answer that names its id,
  nothing is left behind, no call hangs.
* *Candidates.* Polls drain a bounded queue while peers fill it, what a dead
  session left there comes first, and whoever names an id gets its queue.
* *Ledger.* Tokens rotate under concurrent registrations, and a registration
  reads its record back under a second lock.
* *Push.* The dispatch loop works on a snapshot while devices are registered
  anew, by other users too; a dispatch that ends in an error, because the caller
  hung up or the provider's answer was lost, can still be delivered.
* *Authentication.* Every call that misses the cache fetches the key set
  itself, and the fetches overlap: documents are installed out of order, and a
  call looks its key up in whatever cache there is by then. Correct means:
  withdrawn keys stop working and new ones start working within a bounded time.
* *Process.* Handlers write, panic, hang up or run on while the process drains
  and flushes on one deadline. Correct means: the recorded status is the one
  sent, the process exits in bounded time and loses nothing it had time for.

The hazards, each with its line and the properties aimed at it, are listed in
`PROJECT.json`.

## 2. The modules and the code

In every module a step is one critical section of a mutex, one channel
operation or one select; a Go map is a function to its values or `None`; `pc`
says where a handler is. Except in `Auth` and `Server`, whose properties are
about durations, timers have no clock: a timer may fire whenever its select is
waiting, so every order of a timeout and a late event is covered. Definitions
marked *Slip* are deliberate mistakes (a dropped guard, a missing reset); they
are used only to see that the properties notice them, and are part of no
specification.

**WsHub.** `Join` is `joinRoom` (both locks held, one step). `LeaveLookup`,
`LeaveRemove`, `LeaveReap` are the three sections of `leaveRoom`. Rooms are heap
objects: `Fresh` allows an address to be allocated only when neither the hub
nor any handler refers to it. A generated client id is the connection's address
and so is named by the connection. Role and bastion of a request are free here;
`Handshake` says how they are found.

**WsRelay** extends WsHub. `ReadFrame` is `ws.Read` and fanout's snapshot,
`WriteFrame` one iteration of fanout's loop. Sockets are external: a buffer of
`OutCap` frames, a write that waits for space, or fails and is ignored when the
connection is broken. The read loop notices a broken connection only when it
reads (`AtRead`), and reads what was buffered before. A handler's steps on the
rooms are those of WsHub with the frames around them. Both modules have the hub as its tests wire it; behind the
middleware of `main` no connection is upgraded at all (run `ServerUpgrade`).

**Handshake** is a module of operators: `parseSecWSProtocol` drops the blanks,
`Query` is what the query string says, `Offered` one iteration of the loop over
the offered subprotocols, `Loop` the loop, `Negotiate` the handshake up to
`websocket.Accept`. `Final` and `Expected` say the same without a loop, from the
first credential that names its bastion and the last credential of the list:
they have the precedence of the code's tests on the empty string, which is not
that of its doc comment. `Contradicts` are the requests where that matters.

**Signaling.** `SignalingInitiate` and `SignalingOffer` register the answer
channel, `SendOffer` / `SendTimeout` are the first select, `AnswerInitiate`,
`AnswerOffer`, `WaitTimeout`, `WaitGone` the second, `Cleanup` the delete.
`SignalingPoll`, `PollTake`, `PollEmpty` are the poll, `SignalingAnswer` and
`AnswerSend` the answer. `genClientID`, made of the process id and the wall
clock, may return an id that is in use. The two endpoints' different replies
are kept (`Replies`). `signalingAnswer` looks neither at who posts nor at whether
an offer was ever handed over, so an answer may name any client id at any time,
before a poll has taken the offer too, and any number of times.

**Rendezvous** is what the handlers promise, without queues, channels, locks and
timers: `Open`, `Take`, `Write`, `Answer`, `Fail`. `Signaling` instantiates it as
`Rdv`: the offer is taken when a poll hands it over, and the result of a call is
read off its reply. `ImplementsRendezvous` is its specification.

**Candidates.** Any number of peers. `Enqueue` / `EnqueueTimeout` are the select
of the post, `Receive` one receive of the poll, `Drained` the end of the drain.
A candidate is posted under the id of the peer it is for. Who polls and the id
it polls with are told apart: `Of` is the peer on a connection, `Asks` the pairs
of a peer and an id it polls with. In run `Candidates` the client polls with its
own id and with the bastion's, and competes with it.

**Registry.** `Register` and `Get` are the two locks `registerBastion` takes.
A record handed out is a copy without its token. `mintToken` draws 256 bits from
`crypto/rand`; its tokens are taken to be distinct, and its error, which
`crypto/rand` does not return in the Go version of `go.mod`, is left out. Claims
without a user end, like a bastion of another user, in a 409 (`Refuse`).

**Push.** `FromEnv` decides at start-up which backends there are. `PushSend` takes
the snapshot, `Dispatch` routes, `Accepted`, `Rejected`, `Unanswered` are the
outcomes of a backend's `Send`, `MarkFailure` closes a failed iteration.
`Unanswered` is every error that says nothing of the push: the caller's context
is done, or the connection to the provider timed out or broke, perhaps after it
accepted. `LateAnswer` is what becomes of such a push. `LastFailureAt` is
modelled by *which* token failed, because no code reads the time.

**Auth.** `Verify` is the call up to and including `keyFor`'s first section, then
`Respond`, `FetchFailed`, `FetchTimeout`, `Install` are the fetch and `refresh`'s
critical section, `Lookup` is `keyFor`'s second section, `Check` the rest of
`Verify`. Time passes only while fetches are under way or nothing is. The
identity service is external: it publishes and withdraws each key once, answers
with the keys it serves at that moment, late or never.

**Server.** `Arrive` is the way through the observability middleware and the mux,
`Authorize` the authentication middleware, `Serve...` the handlers, `Return` and
`Panic` the two ways out through the middleware's deferred functions. `Boot`,
`ListenFails`, `Signal`, `ShutdownReturns`, `SentryFlushed` and `OTelFlushed` are
`main`. What a token's verification decides and which status a handler writes
are free choices: `Auth` and the other modules are about those. The clock starts
with the signal. `net/http`, `coder/websocket` and the two SDKs are external; of
`websocket.Accept` the model has that it selects an offered subprotocol and
answers 501 to a writer it cannot hijack.

## 3. The runs

Passing runs (`PROJECT.json` has the property lists):

| Run | Shows | Instance |
|---|---|---|
| `WsRelay` | Rooms stay consistent; who holds a slot gets every frame that its room's other side sends, once, in order, and only frames of its bastion | 3 connections, 2 bastions, 1 shared client id, 3 rooms, 2 frames, sockets of 1 |
| `WsRelayLive` | Only a peer that stopped reading for good holds up a fan-out; rooms do not leak | 3 connections, one of them slow, 1 bastion, 2 frames |
| `Signaling` | The first answer that names one's id; `Signaling` implements `Rendezvous` | 2 clients, 2 bastions, 1 poll, 3 answers to any id, 2 ids that may collide, queues of 2 |
| `SignalingLive` | One poll per offer; calls end and clean up except after a 503; offers of dead clients do not block a queue | 2 clients, 1 bastion, 2 polls, queue of 1, 1 answer |
| `Candidates` | Accepted candidates leave the queue of their id once, in order, for one poll with that id; queues drain | 3 candidates, 2 peers, one of them polling with both ids, 2 polls, queues of 2 |
| `Registry` | The maps agree, owners never change, a token works until its user registers again | 4 registrations, 2 users, 2 bastions, 4 tokens |
| `Push` | The report adds up and claims no delivery that was not made; no device is notified twice | 2 devices, 2 users, 3 registrations, 2 calls, 2 environments |
| `Auth` | The cache is always one document; withdrawn keys are refused and new ones found in bounded time; calls end | 2 calls, 2 keys, 1 entry to skip, 3 tokens, cache lifetime 2, fetch timeout 1, 4 instants |
| `Server` | Recorded status = sent status; the handshake is read and refused as expected; the process exits in time and gracefully if it can | 2 requests, one to the WebSocket, all 8 configurations, 108 handshakes, grace 3, Sentry 1, tracer 2 |

Violated properties: what a comment says and the code does not do.

| Run | Shows |
|---|---|
| `WsHubReconnect` | A client that reconnects under its `client_id` before the relay notices that the old connection is dead loses its place in the room when the old handler leaves: `leaveRoom` deletes `clients[id]` without the check it makes for daemons |
| `PushStale` | The failure of an old device token is recorded against the token that replaced it |
| `ServerUpgrade` | Behind the observability middleware every WebSocket upgrade is answered 501, because `statusRecorder` has neither `Hijack` nor `Unwrap` |

Some passing properties carry an exception that is itself a fact about the code:

* `PendingAccounted`: a 503 leaves its answer channel in `pendingAnswers` for good.
* `FirstAnswerWins`: a bastion can be told 200 for a second answer nobody reads,
  and any caller who names the client's id can be the first.
* It also speaks of the client id, not of the call: two calls that read the same
  clock share an id, and one can get the answer meant for the other ("Simple
  monotonic ID", `main.go:632`).
* `OnlySlowBlocks`: a peer that stops reading for good does hold up the fan-out,
  for every target after it, because `fanout` writes to one after the other and
  without a deadline ("a slow consumer doesn't block the whole room",
  `wsrelay.go:225`).
* `AcceptedOnce`: a candidate goes to whoever polls with the id it was posted for.
  The doc tells a peer to poll with the id of "the OTHER side" (`main.go:542`); it
  would then get what is addressed to the other side, its own candidates among
  it. `CandidatesAddressedToPoller` says that polling with one's own id is what
  makes the first half of that doc true.
* `HandshakeAsExpected` says nothing of the bastion of a request whose query
  string and credential name different ones: the doc of `HandleHTTP` says that
  the credential "overrides the query-string fallback" (`wsrelay.go:71-73`), the
  code lets the query string win (`wsrelay.go:92`).
* `DrainInOrder`: the candidates of a session that is over come before those of
  the next.
* `ReportAddsUp`: a device counted as failed may have been notified all the same;
  no more devices than the two counts together are.
* `RotationBound`: a call can be refused although its own fetch had brought its
  key, because an older document was installed in between.
* `RevocationBound`: a document from before a withdrawal can be installed after a
  newer one, so a withdrawn key lives up to a fetch timeout longer than the cache.
* `GracefulExit`: drain, Sentry and tracer share one deadline; a drain that takes
  most of it costs the spans of the requests it waited for.

**Bounds.** The properties relate at most two peers of a room (or two calls)
and one more actor that interferes. Three connections give a daemon, a client
and a third that displaces, shares or revives; three rooms let a room be
deleted and made again while a displaced daemon still holds the old one. A
socket of one frame makes writes block, a queue of one or two is full while a
client is left, three answers are one more than a channel and its reader
absorb. In `Auth` a cache lifetime of two instants and a timeout of one are the
smallest with a fetch shorter than the lifetime, and the clock runs past their
sum. In `Server` a grace period of three leaves the flush enough time, just
enough, and too little. `MaxFrames`, `MaxTotal`, `MaxUpserts` and `MaxTime` bound
the histories. Symmetry is used in safety runs only, over values that are only
compared for equality; refinement without fairness is a safety property. In
`Signaling.cfg` both clients call `signalingOffer`, so that they are symmetric;
`SignalingLive.cfg` has one client of each call.

**Deadlock** is checked in every run. The `Idle`, `Over` and `Halt` steps are the
server with nothing to do, enabled only when every handler has returned or
waits for input, the bound is reached, or the process is gone.

**Fairness.** In `WsRelay`, a handler that can run does (goroutines are
scheduled, and no lock is held across a blocking call), and a peer outside
`Slow` reads its socket. Nobody has to connect, send or hang up. In `Signaling`
and `Candidates`, handlers run and their timers fire, and peers keep polling;
strong fairness of the poll and its receive is needed because a poll ends and
is repeated and because Go chooses at random between a ready channel and a
ready timer. In `Auth`, handlers run, time passes and the HTTP client's timer
fires; the identity service need not answer. In `Server`, only `main` and the
clock are fair: handlers may run for ever.

## 4. The proofs

Checked by TLAPS for every value of the constants, under the named assumptions
of the modules:

* `None`, and in `Signaling` and `Candidates` the values `"lost"`, `"none"`,
  `"refused"` and `"failed"` that mark an outcome, are no members of the sets
  they are told apart from; calls of clients are not polls, and supplied client
  ids are not generated ones;
* capacities of queues and sockets are positive, as in the code; durations and
  the bounds of the histories are natural numbers;
* polls are made by peers, with ids of peers (`Candidates`);
* connections (`WsRelay`) and devices (`Push`) are finite in number: a fan-out
  takes a sequence of all its targets, a push one of all its devices;
* the headers of a WebSocket request are any lists of offers, of any length.

Each proof module has one inductive invariant, one lemma per action or group of
actions that it survives, and a theorem per property. A safety theorem is about
the specification without fairness, which the one with fairness implies.

**WsHubProofs** (`HubSpec`): `HubTyped`, `HubRegistrationIsCurrent`,
`HubRoomsIsolated`, `HubEmptyRoomIsBeingReaped`, `HubUncontestedIsRegistered` and
the action properties `HubDaemonKeepsSlot` and `HubSlotBelongsToId`. The last is
what remains true of `ClientKeepsSlot`, which run `WsHubReconnect` violates: a
client loses its entry only to a client that joins under its id at its bastion,
or by the leave of one that did. The inductive invariant `HubInv` adds to the
checked properties:

* `NewIsBlank`: a handler that has not joined refers to nothing;
* `OwnersAgree`: all references to a room, the hub's and the handlers', come from
  one bastion. `RoomsIsolated` says so with an existential; this form is the one
  the steps preserve;
* `LeavesItsRoom`: a handler about to remove itself, if still registered, has
  looked up the room it is registered in. Without it, a leaver could return with
  its entry left in another room, and `RegistrationIsCurrent` would not survive
  `LeaveRemove`.

The step that matters is `LeaveReap`: the recheck under both locks
(`StillEmpty`) is what makes deleting the room preserve
`UncontestedIsRegistered`.

**WsRelayProofs** (`Spec` of `WsRelay`): the relay's steps contain the hub's
(`RelayContainsHub`), so `RelayKeepsHub` has the hub's properties of the relay.
`RelayTyped`, `RelayInOrderOnce` and `RelayNothingLost` come from `RelayInv`, which
contains `HubInv` and

* `CountInv`: what a peer counts as sent before it joined has been read;
* `SnapshotInv`: a snapshot names each target once, all on the other side of the
  sender's bastion, and they joined before its frame was read;
* `StreamInv`, `OrderInv`: what was written to a peer comes from that side, has
  been read, and is older than the frame its sender has yet to write to it. That
  is why the next write is neither a repetition nor out of order;
* `NothingLost` itself. It survives `LeaveRemove` and `LeaveReap` because of the
  hub's part: a holder of a slot is in the room its senders fan out in.

**SignalingProofs**: `RendezvousTyped`, `RendezvousOfferOnce`,
`RendezvousPendingAccounted`, `RendezvousFirstAnswerWins` and the refinement
`RendezvousImplemented`. `SigInv` has `ClientInv` (what a handler's place tells of
its reply), `QueueInv` (`OfferOnce` by positions, without counting),
`PendingAccounted`, `PostInv` and `ChannelInv`. The last two are about the gap
between the lookup of a channel and the send: the channel a post holds belongs
to a call with the id the post names, also after that call has returned and
its entry is gone; and what was accepted for a call is what its client got,
followed by what is still in the channel. A buffer of one then bounds the
answers that are accepted and lost. For the refinement `StepRefines` maps each
action to a step of `Rendezvous` or to a stutter.

**CandidatesProofs**: `CandidatesTyped`, `CandidatesAcceptedOnce`,
`CandidatesDrainInOrder`, for any `Asks`, and `CandidatesAddressedToPoller`: if every
peer polls with its own id, each gets only what is addressed to it. `CandInv` has `PlaceInv` (where an accepted candidate is),
`QueueInv` (a queue is the end of what entered it) and `ListInv`: what polls have
received comes before everything still queued, so that the next receive is in
order even if several polls drain at once.

**RegistryProofs**: `LedgerTyped`, `LedgerTokenIndex`, `LedgerTokenGoesToOwner`,
`LedgerTokenWorks`. `LedgerInv`
adds `CallsAccounted` (a call that reads its record back holds a token that was
issued for the bastion it names) and `MintedAccounted` (a token leads only to
the bastion it was issued for): they carry what `Register` did across the gap
between its two locks.

**PushProofs** (`ApiSpec`, with `Delete`): `PushTyped`, `PushReportAddsUp`,
`PushOncePerDevice`. `PushInv` says that a call's list has each device once
(`TodoInv`), that a push without an answer is the only one of its call to its
device (`StaleInv`), and that a device still in the list has neither such a push nor a
delivery, except the first one between its failure and the mark
(`UntouchedInv`). `CountInv` bounds the devices a call has handled, those
whose push is still out included, by its two counts, and so before a late
answer can add a delivery. That is what makes `ReportAddsUp` inductive.

**AuthProofs**: `AuthTyped`, `AuthOneDocument`, `AuthRevocationBound` and
`AuthRotationBound`, for any lifetime of the cache and any fetch timeout.
`AuthInv` adds what the service's history says (`HistoryOK`), that the document
in a call's hands was served at an instant since its fetch began (`DocsInTime`),
and what a call knows at each of its places (`CallsInTime`): a fetch is no longer
than its timeout, and a key that passed `keyFor` has not been withdrawn for as
long as the bound. `OneDocument` is what makes both bounds inductive: it dates
the cache by the service's clock, where `keysAt` dates the installation.

**ServerProofs**: `ServerTyped`, `ServerRecordedIsSent`, `ServerGracefulExit`.
`ServerInv` adds what the recorder holds while a request is under way
(`RecordInv`), and how late `main` can be in each phase, with nothing in flight
once `Shutdown` has returned nil (`ShutdownInv`).

`ServerHandshakeAsExpected` follows a WebSocket request to the wire and the
recorder: it is answered 400 exactly if query string and offers give no role or
no bastion, and nothing changes that answer before the request ends
(`AnsweredUntouched`). It rests on `NegotiateIsExpected`, which is about lists of
any length. The prover has no induction rule it can use for that; a least
counterexample serves instead (`LeastNat`, from the well-foundedness of `<`).
`SameIteration` says that two functions that start and go on alike agree
everywhere, `IterationExists` that a step function can be iterated, which is what
gives the recursive functions of the model their value. Then:

* `FinalOfAppend`: one more offer changes `Final` as one iteration of the loop
  changes its variables: a new credential is the last one, and is the first that
  names a bastion only if there was none;
* `LoopIsFinal`: so the loop over a list computes its `Final`;
* `FinalOfParse`: dropping blanks does not change `Final`;
* what `Final` says was negotiated was offered, so `websocket.Accept` selects it.

**Only model-checked**: the liveness properties (`OnlySlowBlocks`, `HubDrains`,
`CallEnds` of `Signaling` and of `Auth`, `QueueDrains` of `Signaling` and of
`Candidates`, `ShutdownEnds`), because fairness and `ENABLED` are beyond the
prover; and the violated properties, which are counterexamples.

## 5. What is left out, and observations

Contents are opaque (SDP, ICE, frames, notifications), as they are to the code.
Logging, the exporters, signature arithmetic (`rs256.go`), the encoding of tokens
and keys and the HTTP server itself are not modelled. `Stats` and the health
endpoint only read. `PermitsBastion`, `Touch`, `VerifyDaemonToken` and the push
registry's `Delete` have no caller in the program; the last three are modelled
all the same, as operations of their registries. The program keeps nothing on
disk: a crash loses everything, and there is no recovery to model.

Seen while reading, and not the subject of a run:

* `joinRoom` displaces a daemon without closing it, and the displaced one goes
  on broadcasting to the room ("At most one daemon connection can hold a Room at
  a time", `wsrelay.go:47`). `NothingLost` holds in its presence.
* `registry.go:39` says that `Touch` runs when a bastion polls; nothing calls it.
* `pushSend` sends to the registrations of its snapshot, also to a device that
  another user has registered since (`main.go:255-256`; "so we send to THAT
  user's devices", `main.go:212`). `PushStale` shows the other consequence of the
  same snapshot.
* Of several subprotocol credentials the first names the bastion, and the last
  is sent back (`HandshakeAsExpected`).
* "allow all" (`main.go:64`): without a JWKS endpoint the routes that need claims
  answer 401 to everyone.
* `obs.go:142` says that the middleware panics again after it has captured a
  panic; it ends the request with 500.
* A token without `exp` never expires (`auth.go:188`).
* A bad APNs key is not replaced by a configured certificate (`apns.go:96-116`),
  and a device whose platform has no backend is marked as failed.
* The reconnect-resume of `wsrelay.go:15-19` is not in the code.

## 6. Plan

Every safety property of a passing run and the refinement are proved. What is
left:

1. `FailureIsOfThisToken` restated, and proved, for the histories in which it
   does hold, as `HubSlotBelongsToId` does for `ClientKeepsSlot`.
2. When the code is changed where a run shows a violation, the violated property
   becomes one to check and to prove.
