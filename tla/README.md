# IStream: models and proofs

IStream streams the screen of one Windows computer to another over the local
network. Every installation can ask for a connection and be asked for one. This
directory holds TLA+ models of its core (`src/main/connectivity`,
`src/main/storage`, `src/main/diagnostics`, `src/main/configuration`, the start and
end of the application, and the media session and settings of the renderer),
the TLC configurations that check them on small instances, and TLAPS proofs of the
results that matter most, for every value of the constants.

To repeat a check: `tlc -config PeerSessionConsent.cfg MCPeerSession`; to repeat
a proof: `tlapm PeerSessionProofs.tla`.

## 1. Inventory

| Component | State it keeps | Operations | Interacts with |
|---|---|---|---|
| Peer session (`PeerSession.ts`, `JsonLineTransport.ts`, `ProtocolContracts.ts`) | phase, prompt, both consents, role, pending reversals and diagnostics requests, three timers | a handler for each of 12 message kinds, handshake, health and diagnostics timers, calls of the user | its peer by messages over one TCP connection; trust store (await); manager and media by callbacks |
| Trust store (`PairedPeerStore.ts`) | map from requester and direction to an entry with expiry | load, rememberInbound, clear, isTrusted | atomic file (await), sessions, user interface |
| Atomic JSON file (`AtomicJsonStore.ts`) | a file and a temporary file | read, write | file system; used by trust store, identity store and settings |
| Connection manager (`ConnectionManager.ts`) | `#session` | connect (await), acceptIncoming, disconnect, dispose, delegations | sockets, control server, sessions |
| Control server (`ControlServer.ts`) | listening server and port | start over 11 ports, stop | manager by callback |
| Device identity (`DeviceIdentity.ts`) | a file with a key pair | loadOrCreate at the start | atomic file (await), hellos |
| Facade and application (`ConnectivityFacade.ts`, `index.ts`) | service state, last error, the parts | start (six awaits), stop, one call per user operation, snapshot | all of the above |
| Handshake and cipher (`SessionCryptography.ts`) | keys, two message counters | hello creation and verification, encrypt, decrypt, validation | session |
| Discovery (`DiscoveryService.ts`) | peers with the time last seen, probe times | beacon, probe, expiry, refresh | UDP multicast, trust store, facade |
| Diagnostics (`DiagnosticsHub.ts`, `DiagnosticsHttpServer.ts`) | ring of records, stream readers | publish, snapshot, stream, peer snapshot | sessions, media, HTTP readers |
| Media session (`WebRtcMediaSession.ts`) | role, generation, peer connection, capture, three queues, restart timer | synchronize, receiveSignal, offer and answer, restart, stop | browser WebRTC and capture (awaits), its peer through the session |
| Streaming settings (`StreamConfigurationService.ts`, `StreamingPolicyPanel.tsx`) | configuration in file and memory, draft in the window | load, get, update, edit, save | atomic file (await), IPC, media session |
| IPC bridge, windows, user interface (`ConnectivityIpcController.ts`, `ApplicationWindow.ts`, `App.tsx`) | the snapshot and what React has rendered of it, busy, reload attempts | hand calls, answers and snapshots over, reload a crashed window | facade, settings, media session |

Which behaviours are hard, and what makes each component correct:

- **Peer session.** Two computers run the same class with different parts; each
  handler is one run of an event loop and messages of one side cross those of the
  other. Correct means: nobody streams on one user's word; crossing requests to
  reverse the direction leave complementary roles; no session hangs; the loss of
  one end is the end of both; peers that speak the protocol never refuse each
  other. The one `await` in the middle of the protocol, the storing of trust, is
  where most of this is at risk.
- **Trust store and file.** Writes are neither ordered nor exclusive, and the
  application quits without waiting for them. Correct means: the file is always
  whole, a restart restores exactly what was granted, and what was cleared stays
  cleared.
- **Manager.** It looks for a session before it dials and installs one after.
  Correct means: one session at a time, none that nobody knows of, nobody else's
  call ends yours, and crossing calls settle.
- **Media.** Capture and negotiation resume after awaits whatever happened
  meanwhile. Correct means: no capture outlives its role; offers, answers and
  candidates of different generations do not mix; connected peers end up streaming.
- **Discovery.** Timers of several computers, beacons under way, a throttle on
  answers. Correct means: who runs is found and stays listed, who ceased is
  forgotten in time, and the port listed is the current one.
- **Diagnostics.** Retention by age and number while records arrive, readers come
  and requests overlap, time out and lose their session. Correct means: snapshots
  hold the right window, streams have no gap, answers are whole.
- **Cipher and lines.** The counter moves when a message is encrypted, not when it is
  written, and a chunk of lines is handled to its end. Correct means: a nonce is never
  used twice, a session is given what its peer composed without gap or repetition, and
  the ends do not refuse each other's envelopes but for what no sender checks.
- **Settings.** A draft in the window, a memory that changes before the file, answers
  that replace what is shown. Correct means: no draft is lost, what is shown as saved is
  in the file, and the media session works with what the window shows.
- **Application.** Six awaits that open one thing after the other, a stop between any
  two, a second instance on the same computer. Correct means: one identity for good,
  ports that are announced are open, nothing is left open, the window is told.

`PROJECT.json` lists each hazard at its line with the properties that cover it. Where the
code does not withstand a hazard, the property makes no claim for that case, and a note
at the hazard says so.

## 2. Modules

| Module | What it is |
|---|---|
| `PeerSession` | both ends of a control connection, the transport between them, the responder's trust in this requester |
| `MCPeerSession` | its instance for TLC |
| `PeerSessionProofs` | types, mutual consent, timers, reversal requests, roles and what is refused, proved |
| `AtomicJsonStore` | a file replaced by rename, one file operation at a time |
| `AtomicJsonStoreProofs` | types and the file under one writer, proved for whoever keeps a file |
| `PairedPeerStore` | the trust store on top of it (`EXTENDS AtomicJsonStore`), with restarts and expiry |
| `MCPairedPeerStore` | its instance for TLC |
| `PairedPeerStoreProofs` | types, the file against the memory and the term of trust, proved |
| `ConnectionManager` | several computers, the calls between them, the service around each manager |
| `MCConnectionManager` | its instance for TLC |
| `ConnectionManagerProofs` | types and three properties of the managers, and types and all four properties of diagnostics, proved |
| `MediaSession` | the windows of two connected computers, with the main process between them |
| `MCMediaSession` | its instance for TLC |
| `Discovery` | several computers that find each other by multicast |
| `MCDiscovery` | its instance for TLC |
| `DiscoveryProofs` | types and all four properties of discovery, and types and three properties of media sessions, proved |
| `Diagnostics` | hubs, stream readers and fetched records of two computers |
| `MCDiagnostics` | its instance for TLC |
| `ReliableChannel` | what two sessions may expect of the channel between them (abstract) |
| `SecureChannel` | cipher counters over the lines of a socket, shown to implement it |
| `MCSecureChannel` | its instance for TLC |
| `SecureChannelProofs` | types, nonces, the refinement and what is refused, proved |
| `StreamSettings` | the streaming configuration in file, memory and window (`EXTENDS AtomicJsonStore`) |
| `MCStreamSettings` | its instance for TLC |
| `StreamSettingsProofs` | types, what survives, the draft and the media session, proved |
| `Application` | instances of the application from start to end (`EXTENDS AtomicJsonStore`) |
| `MCApplication` | its instance for TLC |
| `ApplicationProofs` | types and all five properties of its run, proved |

### 2.1 PeerSession

The variables are the private fields of the class, one value per side
(`phase`, `prompt`, `localConsent`, `remoteConsent`, `role`, `error`, the timers,
`outgoing` and `incoming` for the two pending reversal identifiers, `queries` for
the pending diagnostics requests), the two message queues `chan`, and what the
responder's store knows of this requester (`trusted`, `remember`). One action is
one synchronous run of the event loop: a message handler (`Handle...`), a timer
callback, the continuation after `rememberInbound` (`FinishRemember`,
`FailRemember`) or a call of the user.

- The transport is a TCP connection: messages arrive in order and once.
  `JsonLineTransport.close` destroys the socket right after the last write, so
  `WriteAndClose` loses any end of what was still under way, then reports the
  close. `LoseLink` silences the network for good; then only timers help.
- `AcceptingPhases` collects the phase checks of `handleWireMessage` and of the
  handlers; `RejectMessage` is the `catch` that turns anything thrown into a
  closed session.
- Health checks carry no information, so at most one ping and one pong are queued
  per direction; `missed` counts ticks since the last message.
- Keys, signatures and codes are left to the cryptographic library: `expected`
  says whether the responder is the device the initiator wants to reach, and only
  the right code is typed (a wrong one changes no state in the code either).
- The batches of one diagnostics answer count as one message.

Names of the form *Slip* mark operators next to an original that show what a
plausible mistake there would look like; no specification uses them.

### 2.2 AtomicJsonStore and PairedPeerStore

`AtomicJsonStore` follows each `write` through `mkdir`, opening and emptying the
temporary file, writing it, and `rename`. Paths name inodes: a call that has
opened the temporary file keeps its inode even after another call has renamed the
path. Text written over another call's text leaves JSON only if it is not the
shorter of the two, so both outcomes are possible. Any operation may fail, and
`EndCallsOf` ends a process between any two of them.

`PairedPeerStore` adds the map in memory, which `rememberInbound` and `clear`
change before the write, `load` with its validation, the clock, and the service
state. A `clear` that finds no entry of the computer in memory writes nothing and is done
at once, with no regard to what earlier writes came to: it is the second branch of
`Clear`. The history variables (`granted`, `clearing`, `cleared`, `unsaved`, `failed`,
`overlapped`) exist for the properties only; `unsaved` has the entries that were removed
from memory and whose removal no write has brought to the file since. Nothing keeps two callers from writing
side by side; the properties that only hold for one write at a time say so by
`overlapped`, which tells whether two writes ever were under way together.

### 2.3 ConnectionManager

A session appears here only as the state of one end of a call, as far as the
manager can tell the difference. `Connect` is the part of `connect` before its
await, `DialSucceeds` and `DialFails` the part after it; the server may accept the
call before or after the caller hears of it. The module takes over one result of
`PeerSession`: a session closed while it stores trust comes back as `Revived`,
connected but without a socket, until its health check gives up.
The service states around the manager decide who may call: the server listens from
the middle of the start, also when a later part of the start fails, until `stop`.

### 2.4 MediaSession

`window[s]` is a record of the private fields of `WebRtcMediaSession` and of what
`App.tsx` keeps around it. Every handler is a function from the window before it to
the window after it; `out` collects what it hands to the main process. An `await`
ends a handler and its continuation is a handler of its own. Operations on the peer
connection are chained by the browser (`rtc`) and never settle once it is closed;
`waiting` holds the calls of `getDisplayMedia` with the role they were made under.

The main process appears as `mainRole`, the network `net` and one ordered pipe `down`
that carries snapshots, signals, replies and granted captures to the window. React
commits a state some time after it was set: signals and grants are read after the
commit, snapshots and saved configurations may come before (`Rendered`).

Generations are numbered, and `by` names the peer connection a description was made
by. Creating a description and setting it locally are one operation, one candidate
stands for all candidates of a description, and the end of gathering is left out. In
the model a candidate is its label; a candidate gathered before a restart and sent
under the new label cannot be told apart. `locals` is the queue of candidates that
wait for their description to be announced. The restart timer fires only when the work
of the window at hand is done: it takes 1.5 seconds. The main process grants a capture
once for each call that awaits one (`Grants` counts those on their way).

Two histories exist for the properties only: `described`, the generations whose
description a window has handed over, also when there was no session to send it in, and
`refused`, those whose description a peer connection could not apply. Both ends of the connection become connected at once:
what happens when they do not is in `PeerSession`. Messages to a closed peer are
lost. Metrics, codec preferences and sender parameters are left out.

### 2.5 Discovery

The private fields of `DiscoveryService`, one value per computer. Instants are kept
as the number of ticks since, so that the state space is finite without a bound on
the clock. A tick waits for the timers that are due and for datagrams that have been
under way for `MaxDelay`; within it every order is possible, so beacons overtake one
another and cross starts, stops and refreshes. Datagrams may be lost, at the cost of
the bound `MaxEvents`, which starts and refreshes share. A computer gets another port
at each start, so that beacons of earlier starts can be told from current ones.

Left out: joining multicast groups, the validation of datagrams, names and addresses,
the trust shown with a peer (the facade computes it anew), duplicated datagrams, and
a refresh while the socket is still being bound.

### 2.6 Diagnostics

Each computer has the records of its hub with their age, the clients of its loopback
server, one end of the session and the requests pending there. `Publish` is `publish`
of the hub with its listeners, `Prune` the two loops that drop records from the head.
The answer to a request is filtered, cut to the limit and split into batches as in the
code; the awaiting continuation that publishes fetched records (`Collect`) is an
action of its own, because messages of the same packet come before it. `NoNumber` is
what `parseInt` makes of a limit that is none. There are exactly two computers
(`HubsAssumption`), and `Picked`, the records of a snapshot, is a recursive function over
the ring. The history `all` keeps every record a
hub ever received, so that `Window` can say without reference to the code what a hub
ought to retain.

### 2.7 ReliableChannel and SecureChannel

`PeerSession` takes for granted that messages arrive in order and once. `ReliableChannel`
says so in ten lines: a session is given the messages its peer composed, from the first
on, none left out or repeated. `SecureChannel` shows how the code keeps this:
`SendSecure` encrypts under the next counter and then writes, and the write throws on a
closed socket or for a frame above 65,536 bytes (`FrameBytes` computes its length), so a
counter may be used up for nothing. `DataArrives` brings some complete lines, `ReadLine`
handles one of them; the rest of the chunk follows even when the session has closed
(`Busy`). `Decrypts` wants the very next counter, the key of the direction and a message
`ProtocolValidator` accepts.

A message is its kind, the numbers the validator looks at and the bytes of its JSON; the
limits are those of the code, and `NoNumber` stands for NaN, which becomes null.
Signatures, key agreement and AES-GCM are taken as what they promise: an envelope is read
only with its key and as it was made. The refinement maps `sent` to the messages of what was encrypted and `received` to what
`handleSecureMessage` was called with.

### 2.8 StreamSettings

`memory` and the file belong to the main process; `state` is what React has rendered of
`App`, `next` what the calls of `setState` have queued. `outbox` and `inbox` are the
ordered pipes of IPC; answers reach the load of the window that asked. `update` changes
the memory, then writes through the steps of `AtomicJsonStore`, so writes of two pages
may overlap and the process may end in one. The window may crash and is loaded again up
to a limit, the application may stop and start. Of a configuration two frame rates are
kept, because an edit can bring them into an order that validation refuses, and `tidy`,
which stands for what validation rewrites. `applied` is what `synchronize` handed to the
media session.

### 2.9 Application

`app[i]` is the process of the instance `i`: the await its `start` is at, the service
state, the ports, discovery, the last error, pending operations, the view of its window
and how far `stop` has come. Nothing in the code keeps a user from starting the
application twice, so instances share the identity file and the ports (`held`); other
programs hold some ports for good. The identity is a number, new for each key pair.
Every await of `start` is an action; `Quit` may come between any two, and `start` then
goes on, as in the code, except when it waits for the discovery socket, which is closed
under it. `Exit` ends a process at any moment. Operations are refused, succeed at once
or wait and end later; they share one error, as in the code. Sessions and the trust
store are in modules of their own and count here only as far as they may fail.

## 3. Runs

| Run | Bounds | What it shows | Distinct states |
|---|---|---|---|
| `session_consent` | pairing deadline 2 ticks, connected 3, both directions, link may fail; fairness | `MutualConsent`, `EverySessionTimed`, `BothEndsShut`, `ConsentSettles` | 30,784 |
| `session_traffic` | one reversal, one media signal, one diagnostics request by each side | `ReversalTokens`, `ComplementaryRoles`, `RejectedOnlyInRaces` | 704,387 |
| `trust` | one device, two writes at a time, 3 clock values, failing operations | `FileIsWhole`, `FileFollowsMemory`, `ClearedOnceWritten`, `TrustNeverProlonged` | 957,715 |
| `calls` | two computers that call each other, a third that calls one of them; fairness | `SingleSession`, `NoGuestsAfterStop`, `DisplacedByOwnCall`, `CallsSettle` | 363,498 |
| `media_live` | one connection, one reversal; fairness | `OnlySharersSend`, `MediaSettles` | 119,780 |
| `media_resume` | one connection, one interruption, one save; fairness | `RestartsOwnConnection`, `MediaSettles` | 451,793 |
| `media_failures` | one connection, one interruption, one reload, failing operations | `SignalsInOrder` | 538,080 |
| `discovery` | two computers, period 2, expiry 7, throttle and delay 1, five starts, refreshes and losses | `OfflineForgotten`, `FoundInTime`, `PortCurrent`, `PeersStay` | 1,769,610 |
| `diagnostics` | two computers with one reader each, hub of 3, retention of 1 tick, one session, two requests, batches of one | `WindowKept`, `StreamWhole`, `AnswersWhole`, `SessionOutlivesRequests` | 1,253,631 |
| `channel` | a counter of two on each side and a ping, descriptions of three sizes, a limit too large and one that is no number, failing link; fairness | `NonceUsedOnce`, `OnlyUncheckedRefused`, `ReliableSpec`, `SkipEndsSession` | 309,668 |
| `settings` | two writes at a time, two edits, one snapshot, two starts, one reload, failing operations | `SettingsSurvive`, `MediaFollowsState`, `DraftKept` | 937,093 |
| `application` | two instances, one with a user and failures, three starts, two ports, two operations | `IdentityKept`, `ReadyServes`, `FailsForAReason`, `ClosedAfterStop`, `UserIsTold` | 1,592,249 |

The types are stated in each module (`TypeOK`, in the modules that share a proof module
with another one `DiagnosticsTypeOK` and `MediaTypeOK`) and proved for all of them (section
5); the runs spend their properties on what can go wrong. `SignalsInOrder` is
made of `AnswersOwnOffer`, `CandidatesMatch` and `DescribedFirst`; `FoundInTime` of
`FoundByBeacon` and `FoundByProbe`; `SettingsSurvive` of `StartsAgain` and
`SavedSurvives`; `UserIsTold` of `WindowCurrent` and `FailedSaysWhy`.

**Bounds.** Every handler of a session depends on at most one pending request of
each kind per direction, so one request per side produces every crossing, also with
an answer that is still under way. The code gives up at the third tick while pairing
and at the eighth when connected; smaller numbers keep the order of the two deadlines
and reach every state in which a tick meets another event. For the file two
overlapping writes are the smallest number that can disturb each other. Three calls
among three computers cover glare, a call to a full manager, and a third party.

The media runs share one connection between them and vary what happens to it: a
reversal, an interruption with a saved configuration, an interruption with failures and a
reload. Two
generations are enough for messages of different generations to meet. Discovery
keeps the proportion of the program (a period of two seconds, an expiry of seven), for
which three beacons in a row must be lost before a running peer is dropped; two
starts and three losses are five events. In `diagnostics` a hub of three is filled by
own and fetched records together, an answer takes two batches, and two requests may
overlap or outlive each other.

In `channel` two messages of each side and the ping behind them are enough for one that
is skipped and one that reveals it; the sizes are the longest description that is
accepted, one character more, and one whose frame is too large; a diagnostics limit is
above its bound, or no number; the other side sends a candidate that is a character too
long. In `settings` two edits
and two writes let an answer meet a draft and a write meet another; two starts show what
the first left. In `application` two ports and two instances make a search succeed at
once, late and never, and a third start lets a port come free behind the search: an instance
that looks for a port while others come and go may find each one taken, although they
were never all taken at once, which is why `FailsForAReason` counts starts and not
instances. With one port held by another program the run is too long to repeat often; it
has been made once by hand and passes (5,561,088 states).

**Deadlock.** The session, channel, manager, media, settings and application runs say
`CHECK_DEADLOCK FALSE`: both ends closed, or all processes ended and no start left, is a
proper end. The other runs check deadlock.

**Fairness.** Timers fire, a file operation ends in one way or the other, TCP
delivers while the link is up, a dial ends within its five seconds and the server
accepts what is queued; the event loop and the operating system provide all of
this. `LoseLink`, users, failures of a session of its own and the end of the
process get none. Message delivery is fair only while `link` holds, so
`BothEndsShut` rests on the timers alone once the network is silent.
In the media runs messages are read, handlers run, operations of the browser settle,
candidates are gathered, React commits, the main process publishes, and a user who is
asked for a capture grants it; interruptions, users, saves and reloads may come or not.

In `channel` what has arrived is handled, the ping timer goes on and a closed socket is
reported. The other runs have safety and action properties only and assume no fairness.

`MediaSettles` is checked with saves only where the direction is not reversed: a save
right after a reversal hands the snapshot of the last commit to the media session
(`App.tsx:191`), which takes up its old role again until the next snapshot, and an
offer that arrives meanwhile is dropped.

## 4. What the models found

In three places the code does not do what the documents say. None of them is a run:
the formulas stand in the modules, TLC refutes each within a minute, and the properties
that are checked say what is left of them.

1. **A session comes back after it was closed.** `tryEstablishConnection` resumes after
   the trust was stored and never looks at the phase (`PeerSession.ts:453-468`). If the
   session was closed meanwhile, it turns connected without a socket and publishes a
   connected sample after its closure record. README.md:69 says "every session closure
   records its reason and previous state before sampling stops. This keeps a failed or
   closed connection from leaving a misleading final `connected` record."
   `BothEndsShut` shows that its health check ends it again. To see it: name
   `NoSampleAfterClosure` under PROPERTIES of `PeerSessionConsent.cfg`.
2. **Cleared trust returns.** README.md:10 promises "30-day inbound trust with an X control
   to clear it immediately." There are two ways in which an entry is trusted again after a
   restart although its removal was reported done. The write of a grant may finish after
   the write of a later clear (`AtomicJsonStore.ts:25`, `PairedPeerStore.ts:98`). And a
   clear takes the entry out of memory before it writes: when that write fails, or has not
   ended when the process does, a second clear finds nothing in memory and is done without
   a write (`PairedPeerStore.ts:96-98`), while the file keeps the entry. `ClearedOnceWritten`
   says what is left without overlapping writes: a removal that any write has brought to
   the file is final, and one that came to nothing shows only after a write has failed or
   was cut off. To see it: name `ClearedStaysCleared` under INVARIANTS of `Trust.cfg`; TLC
   shows the second way, which is the shorter.
3. **A capture outlives its role.** `startSharing` stores the stream of `getDisplayMedia`
   without looking whether its role still holds (`WebRtcMediaSession.ts:108`); after a
   reversal the window that has become the viewer goes on capturing.
   docs/implementation-baseline.md:39 says "Direction reversal tears down the old media
   role and starts a fresh generation in the opposite direction." `OnlySharersSend` shows
   that it sends nothing of it. To see it: name `OldRoleTornDown` under INVARIANTS of
   `MediaLive.cfg`.

Some properties that hold are shaped by what the code does in races:

- `RejectedOnlyInRaces`: the initiator is connected when it hears the consent, the
  responder only after its file is written, so a media signal in between ends the
  session (`PeerSession.ts:571-573`); the other race is a withdrawal that crosses the
  answer. In no other way does a valid message come in a phase that refuses it.
- `DisplacedByOwnCall`: a dial started before an incoming session was established
  disposes of that session when it succeeds (`ConnectionManager.ts:76`). Nothing else
  displaces one.
- `SessionOutlivesRequests`: a limit that is no number passes the bounds as NaN, is
  sent as null, refused by the validation of the peer, and so ends the session
  (`DiagnosticsHttpServer.ts:153`). No other request does.
- `FoundInTime`: the throttle is one for all computers, so the refresh of one may go
  unanswered because another has just refreshed (`DiscoveryService.ts:206`);
  the next beacon makes up for it.
- `SignalsInOrder`: when the answer to a restart cannot be applied, the window shows that
  it has failed but goes on adding candidates of the new generation to the description of
  the old one (`WebRtcMediaSession.ts:198-202`). Those of a description that was `refused`
  are therefore exempt, and no others.
- `OnlyUncheckedRefused`: a media signal is sent whatever its length
  (`PeerSession.ts:254-259`); the peer refuses a description above 32,000 characters, a
  candidate above 4,096 and either one when it is empty, and above what a frame holds the
  counter it used up is missed. The limit of a diagnostics request that is NaN is sent as
  null (`PeerSession.ts:230`) and refused as well (`SessionCryptography.ts:353-363`).
  After nothing else does the cipher of one side refuse an envelope of the other. (A
  message that is valid but comes in the wrong phase is the subject of
  `RejectedOnlyInRaces`.)
- `DraftKept`: the fields stay enabled while a save or the first answer is awaited, and
  what is typed then is replaced by the answer (`App.tsx:70`, `App.tsx:190`).
- `MediaFollowsState`: two messages handled before React rendered the first leave the
  media session with a new configuration and an old connection, or the reverse, until the
  next snapshot (`App.tsx:191`, `App.tsx:212`).
- `ClosedAfterStop`: a stop that comes before the start has ended does not end it; what
  the start opens afterwards stays open until the process ends
  (`ConnectivityFacade.ts:108-114`).
- `IdentityKept`: two instances started side by side on a computer without an identity
  may work under two, of which one is gone after the next start (`DeviceIdentity.ts:71`).
- `UserIsTold`: `disconnect` clears the error of a service that failed
  before it throws, without telling the window (`ConnectivityFacade.ts:243`).

## 5. Proofs

`PeerSessionProofs` proves `Spec => []TypeOK` and `Spec => []MutualConsent` for
every choice of deadlines, directions and bounds and for queues of any length.
It assumes only `TicksAssumption` and `BoundsAssumption`.

- Lemmas about sequences say that `Tail`, concatenation and a cut keep the elements
  of a queue within what was there and what was written; with them every operation
  of the transport is shown to invent no message (`WriteCarries`, `AnswerCarries`,
  `CloseCarries`).
- `MutualConsent` speaks of the peer, of which a side knows only by messages, so it
  is not inductive. `ConsentInv` adds: a consent under way was given by its sender;
  an accepted remote consent was given; a side that declined has closed its
  transport; a responder that is storing trust has both consents; and what phase and
  prompt tell of a side's own consent. `ConsentQuiet` carries it over every step
  that writes no consent and changes no phase to connected; `ConsentDeliver` and
  `ConsentLocal` treat the others one action at a time.

The same module proves `EverySessionTimed`, which is inductive together with the types: a
step leaves the phase and timers of a side alone, ends its session, takes it to a phase the
health checks watch, or takes it one step further in the handshake. The session that comes
back after it was closed (section 4) is of the third kind: its health checks start again,
which is why it ends.

It proves `ReversalTokens` and `ComplementaryRoles` for any number of requests. Both speak
of two open ends (`Both`); once an end is closed nothing is left to show, because none opens
again. A queue is looked at as the set of its messages of a kind (`Of`) with the fact that
there is at most one (`Once`), and the lemmas on queues say what taking the head and adding
at the end do to both.

- `TokenInv` strengthens `ReversalTokens`: the token of a pending request is a request on
  its way, the prompt of the peer or an answer on its way back; it carries the identifier
  that is pending; and only a connected side has a prompt or a pending request. The last
  is why an answer finds its side connected.
- `RoleInv` says why roles are opposite. A side that is connected first keeps its initial
  role until the other one is, because a request that arrives earlier is declined; the
  second side to connect therefore takes the other initial role. After that an acceptance
  changes one role and puts one accepted answer on its way (`Responds`), and hearing it
  takes it away and changes the other (`Hears`).
- `EntryInv` closes the gap `FinishRemember` leaves: a responder that is storing trust on
  an open transport is not connected yet, so it takes its initial role only once.

Last it proves the action property `RejectedOnlyInRaces`, which is about the order of all
messages under way.

- The protocol takes a side through four stages: the peer's hello, its confirmation of the
  channel and its consent each open the next one (`Opens`); any other message needs a stage
  and leaves it (`Suits`). `Heard` is the stage a side has come to, `Told` the one its peer
  will have come to when it has read everything. A queue is a `Path` between two stages;
  lemmas say so of no, one and two messages, of the tail, of a concatenation and of a cut.
- `OrderInv`: what is under way to an open end is a path from `Heard`, and while both ends
  are open it leads to `Told` of the peer. So a message of an earlier stage is never behind
  one of a later stage, however many there are.
- `StageInv` says which phases a side has and what consents go with them. `QueueInv` says
  what is behind the two races: a responder that traffic is on its way to has given its
  own consent, and an initiator whose withdrawal is on its way has ended. `DecisionInv`
  says that an answer on its way carries the identifier that is pending, also when the end
  that gave it is gone, where `TokenInv` is silent.
- `RefusedInRaces` goes through the stages: of what can be read in its order, only the two
  races are left. `OnlyRejects` says that no other action ends a session in this way.

`ConnectionManagerProofs` proves `TypeOK`, `SingleSession`, `NoGuestsAfterStop` and
the action property `DisplacedByOwnCall` for any set of computers and calls, from
`CallsAssumption`. `NoGuestsAfterStop` needs `SingleSession` (stop disposes of the
installed session; no other may be open) and `SilentAfterExit` (no dial survives
its process), so the three are proved together as `IInv`.

`SecureChannelProofs` proves, for any messages, any number of sends and any failures, that
the channel keeps its types (`TypesCorrect`), that no key and counter seal two messages
(`NoncesUsedOnce`) and that `SecureChannel` implements `ReliableChannel`
(`ImplementsReliableChannel`), from `SidesAssumption`, `AskedAssumption` and
`BoundAssumption`. None of these is inductive: that the next line carries the next message
depends on what counters mean. `IInv` adds that a cipher numbers what it has sealed
(`CountersNumber`), that a line is an envelope of its sender (`LinesSealed`) and that what
was delivered are exactly the messages up to the counter accepted last
(`DeliveredToCounter`). Steps fall into four kinds, each with a lemma: one that sends
(`SendStep`), one that accepts, perhaps with an answer (`AcceptNext`, `AcceptStep`), one
that refuses (`RefuseStep`), and the rest (`QuietStep`, `EndsStep`). The refinement maps a
send to `Sends`, an accepted line to `Delivers`, with the answer in the same step, and
everything else to a stutter.

The fourth theorem, `OnlyUncheckedRefusedHolds`, states `OnlyUncheckedRefused` and needs
`ComposedAssumption` besides: what a side composes is `Unchecked` (a signal of a length that
is not allowed, a limit that is no number), or it is valid and, but for answers, short
enough for a frame. The code gives that: a limit is bounded otherwise, batches are sliced,
and the remaining fields are identifiers, booleans and fixed texts. `AcceptedInv` says that
as long as a cipher has sealed nothing unchecked, every message it seals becomes a line while its end is open, and
the other end has accepted every line it has read; an answer that does not fit a frame closes
the session of its sender in the same step.

`AtomicJsonStoreProofs` holds what every service that keeps a file needs, for any finite
number of calls and any values, from `CallsAssumption` and `ValuesAssumption`. It has no
theorem of its own; the three modules that follow cite its lemmas.

- A call that opens a new temporary file finds an inode: there are more inodes than calls
  and paths that could use one (`UnusedExists`, by counting). The types need this.
- `WholeInv`: while there is `OneWriter`, the inode of the file is whole and is not the one
  a call is writing.
- `FileChanges` says that the file becomes another one only by a rename, and which; `Writes`
  what a write adds to the calls under way.

`PairedPeerStoreProofs` proves the types of the trust store and all four properties of
the run `trust`, for any number of calls side by side, of entries and of clock values,
from the assumptions of the file, `TrustAssumption` and `ValueAssumption`.

- `FileIsWhole` is `WholeInv`: a load finds a whole file or none.
- `FileFollowsMemory` adds `Saved`: the one write under way writes what the memory says,
  and without one the file has it. A stopped service has no call under way, so what a
  start loads cannot change behind it.
- `ClearedOnceWritten` adds `Removed`: an entry whose clear was reported done and has been
  written is gone from memory and file, and one whose clear is under way is gone from memory.
  An entry removed from memory and still `unsaved` is on its way out of the file, or a write
  has failed. For the clear that writes nothing it is needed that a service that is ready
  has in memory whatever the file has, but for `unsaved` entries; while it is loading, the
  write of what was dropped has still to end. Failures and restarts keep all of it.
- `TrustNeverProlonged` needs no single writer: nothing in memory, in a write under way or
  in any whole file, old and unnamed ones included, ends later than what was granted
  (`Within`), and every write and every load copies one of these.

`ApplicationProofs` proves the types and all five properties of the run `application`, for
any number of instances, ports, starts, failures and operations, from
`ApplicationAssumption`, `HolderAssumption` and the assumptions of the file.

- A step changes the record of one instance. For each update there is a lemma that says what
  it keeps and what it changes (`NotifiedKeeps`, `OpenedKeeps`, `BindEffect`, `QuitEffect`
  ...); the invariants are proved from these, action by action.
- `TypeCorrect` needs `CountInv`: no more key pairs are made and no more instances live than
  were started, counting those that are still reading the identity.
- `ReadyServes`, `ClosedAfterStop` and `UserIsTold` follow from `PortInv`. Of each instance
  it says what is open at which await of the start (`Placed`), what a stop has closed
  (`Closed`) and what the window knows (`Told`), and that the ports a process believes to
  have are held by it and no others (`Holds`).
- `IdentityKept` rests on `WholeInv` and `FileInv`: as long as nobody found no file while
  another was writing the first one, there is one writer at most, it writes only while there
  is no file, and what has been shown is what the file says.
- `FailsForAReason` rests on `SearchInv`. When an instance tries a port, the ports before it
  that no other program holds (`Blocked`) and the other instances that have, or may yet have,
  a port from there on (`Able`) are together fewer than the starts: each port that was taken
  cost a start, and whoever gave one up behind the search is no longer counted. So a search
  that ends without a port has as many programs and starts to blame as there are ports.

`StreamSettingsProofs` proves the types and all three properties of the run `settings`, for
any frame rates and any number of edits, snapshots, windows, starts and writes, from
`SettingsAssumption` and the assumptions of the file.

- `LifeInv`: no window, request or write outlives the process. `OrderInv`: every load asks
  once for the configuration before it saves anything, and requests are handled in the order
  of the loads.
- `AnswerInv`: a request to save is in one place at a time, in the outbox, as a write or as an
  answer, and the window is busy until it has the answer; the answer to the request of the
  load comes before it (`Pipeline`). There is a lemma for each way a request moves.
- `MemoryInv`: without overlapping or lost writes the one pending write, or else the file,
  has what the memory has. `ScreenInv`: what the window shows as saved is what the memory has,
  once no request to save is in the hands of the main process. Together with `WholeInv` they
  give `SettingsSurvive`.
- `DraftInv`: as long as nothing was edited while an answer was awaited, everything under way
  between window and file is the draft. `MediaInv`: the media session has what the window
  shows, as long as no two messages met in one rendering.

`DiscoveryProofs` proves the types and all four properties of the run `discovery`, for any
number of computers, starts, refreshes and losses and for all times, from `TimesAssumption`
and `BoundsAssumption`. All of them are about ages. A step is a tick, which makes everything
older alike, or what happens between ticks, which `Moves` says pair by pair.

- `OfflineInv`: what is under way from a computer that has gone is at least as old as its
  end, and who lists it heard of it no later than one delay after its end.
- `BeaconInv` and `AskedInv`: who is missing has yet to send a beacon, or one is under way; who
  was asked has yet to receive the probe, or its answer is under way. Their ages give
  `FoundInTime`.
- `PortInv`: a datagram of an earlier start is at least as old as the present one, and who
  lists an old port has the first beacon of this start before it. The property states its
  conditions itself: delays shorter than a period, and an expiry of at least a period and a
  delay. For slower datagrams it is false, which TLC shows.
- `StayInv`: since a peer was heard of, the beacons lost or under way are as many as periods
  fit; the sets of those under way are counted by injections. Hence an expiry costs a row of
  losses.

The second half of `ConnectionManagerProofs` proves the types and all four properties of the
run `diagnostics`, for all limits, batch sizes and retentions and any number of records,
readers, sessions and requests, from `HubsAssumption`, `LimitsAssumption` and the
`BoundsAssumption` of `Diagnostics`. It stands there because proofs are kept in few modules.

- `RecordsInv` has the types and says of each hub (`Holds`) that its ring is a suffix of all
  it ever received, and that a record it has dropped is too old or has as many behind it as
  the ring holds; ages fall along the ring (`Aging`), so what is too old stays in front.
  `PruneIsWindow` turns this into `WindowKept`: what the two loops of `prune` leave is what
  `Window` says, also in a hub that nobody has pruned for long. `StreamsFollow` says the same
  of a reader: what it has is what was in the window when it came and everything since.
- `Picked` is computed by recursion. That the function exists and what it picks is shown by
  taking a least length for which it failed (`WFMin`, `NatLessThanWellFounded`).
- `RequestsInv` is about requests: fetched records keep their origin (`OriginsKept`), a batch
  belongs to a request that was made (`IdsAsked`), is heard once and in order (`HeardOnce`),
  and the batches still under way complete what has been gathered to what the peer chose when
  it heard the request (`BatchesCome`). `StepEffect` sorts the actions by what they do to
  requests, batches and answers. `BatchFits` follows: more records than were asked for never
  arrive, so only a limit that is no number ends a session (`SessionOutlivesRequests`).

The second half of `DiscoveryProofs` proves the types of `MediaSession` and the three
invariants `OnlySharersSend`, `RestartsOwnConnection` and `SignalsInOrder`, for any number of
connections, reversals, interruptions, saves and reloads, with and without failures, from
`SidesAssumption` and `MediaBoundsAssumption`.

- `SoundWindows` is what one window knows of itself (`Sound`): without a role it has nothing
  (`Idle`), a viewer no timer and no tracks (`Viewing`), a sharer an open connection, whose
  answer was to its own offer if it has one (`Sharing`), only the last capture asked for can be
  for the open connection (`Waits`), pending operations are of the present generation and
  candidates come behind a description (`Operates`), and candidates carry the label of a
  description that was applied or refused (`Labels`). `OnlySharersSend` and
  `RestartsOwnConnection` follow from it alone.
- `SignalsInOrder` relates the two sides, so the rest of `MediaInv` speaks of what is on the
  way. Generations are numbered as drawn (`Drawn`) and two sharers never have the same
  (`Apart`). While one shares, every description of its generation names its connection
  (`Owned`), there is a session or word of its end is coming (`Lasting`, `CloseMeans`), an
  answer that was given is under way or has arrived (`AnswerComes`), and candidates of the
  viewer come behind it (`CandidatesFollow`). On the sending side nothing is announced before its
  description is handed over (`Announcing`).
- Each handler is shown to keep what a handler may keep (`Handled`), in lemmas that look at one
  window only: where its new signals come from (`Learns`), whether it still shares the same
  generation (`Shares`), what it hands over (`Says`) and in which order (`Ordered`). A viewer
  that gets its role handles all signals that have waited; that recursion is treated by a least
  counterexample, too (`IsFlushing`).
- `WindowStepKeeps` carries `MediaInv` over every step of a window, knowing only `Steps`, and
  `MainStepKeeps` over every step of the main processes, each of which lets the pipes of a side
  grow, passes one message on, or cuts them off (`Grows`, `Passes`, `Cuts`).
- The theorems are about the program as far as its timing is as in section 2.4: they use that
  the restart timer waits for the work at hand.

Only model-checked:

- all liveness properties (`BothEndsShut`, `ConsentSettles`, `CallsSettle`, `MediaSettles`,
  `SkipEndsSession`): liveness under fairness and `ENABLED` are out of reach of the prover.

Every other property of a run is a theorem. The invariants of the proofs were checked by TLC
on small instances before they were proved (`MediaInv` on the first 8.7 million states of
one).

## 6. Not modelled

- Cryptography itself: signatures, key agreement and AES-GCM are taken as what they
  promise. Of the validation of messages only the limits are modelled that a peer running
  the same code can exceed.
- The arithmetic of media metrics, codec preferences and sender parameters; metrics of a
  connection that was replaced may still be shown for a moment.
- `MediaEngine.ts`, a stub that nothing calls; `UserFacingError.ts`, a table of texts;
  the views of the renderer; the scripts that package and publish.
- The list of peers the facade composes from discovery and trust: a pure function of two
  states that have models of their own.
- Clocks that are set back; the models let time go on. In the code peers then stay listed
  and probes go unanswered (`DiscoveryService.ts:232`).
- A socket error of discovery, also one of a single send, which stops it for good while the
  service stays ready (`DiscoveryService.ts:120`).
- What media does after a window was loaded again during a session: nothing in the code or
  the documents makes it resume, so `MediaSettles` is checked without reloads.
- Whose records the limit of the hub may push out: fetched ones count like own ones, and
  `WindowKept` holds them alike.
- What the buttons of a user allow while the service has failed: a call accepted by its
  control server can then be neither answered nor ended by that user.

`PROJECT.json` gives the reason for each component.

## 7. Plan

1. `PeerSession` over `ReliableChannel`: its two queues of messages are, for each
   direction, the difference between what was sent and what was received.
2. A restart timer that fires while signals of the interruption are still being handled.
