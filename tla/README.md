# A TLA+ model of ergo-proxy

ergo-proxy is a relay between Ergo nodes. It keeps outbound connections to seed
nodes, accepts inbound ones, and forwards announcements, requests, responses and
sync messages between the two sides without holding any block itself. This
directory models the router with its tables, the tokio tasks around it, the
decisions that open connections, what goes over a connection (codecs, handshake,
frames), and the latency figures.

Line numbers refer to the sources under `src/` of the repository; "the design" is
`docs/superpowers/specs/2026-03-31-ergo-proxy-node-design.md`.

## The system and its modules

| Part of the program | Source | Module |
| --- | --- | --- |
| InvTable, RequestTracker, SyncTracker, the table half of LatencyTracker | `routing/inv_table.rs`, `tracker.rs`, `latency.rs` | `Trackers` |
| Router: registry, `register_peer`, `handle_event` | `routing/router.rs` | `Router` |
| What routing promises about modifiers | (abstract) | `Relay` |
| What the contracts and the design say and the code does not do | `contracts/`, design, comments | `RouterContract` |
| PeerStateMachine | `protocol/peer.rs` | `PeerLifecycle` |
| `run_peer`, writer tasks, main loop, keepalive | `main.rs` | `Proxy` |
| `accept_loop`, `outbound_manager` | `main.rs` | `Connections` |
| Values `Config::load` accepts | `config.rs` | `Connections` |
| VLQ, zigzag, short strings | `transport/vlq.rs` | `Vlq` |
| Frames | `transport/frame.rs` | `Frame` |
| Message bodies, a message's way through proxies | `protocol/messages.rs` | `Messages` |
| Building, parsing and validating handshakes | `transport/handshake.rs` | `Handshake` |
| One connection: handshakes, then frames | `transport/connection.rs`, `main.rs` | `Exchange` |
| Latency averages, statistics, what the RRD task reports | `latency.rs`, `main.rs` | `Latency` |
| Starting rrdtool, dashboard, packaging | `main.rs`, `deploy/`, `debian/` | not modelled |

`Trackers` holds operators on table contents, `Router` the tables as variables.
`Proxy` extends `Router` and composes it with the tasks; `Latency` extends `Router`
with the numbers the tables leave out. `Connections` stands by itself: it looks only
at how many peers are registered. `Frame` and `Handshake` extend `Vlq`; `Messages`
uses the frames, `Exchange` composes frames and handshakes. The modules `MC...` give
the constants values. The proofs are in `RouterProofs`, `ProxyProofs`,
`ConnectionsProofs`, `MessagesProofs`, `ExchangeProofs` (with `Handshake`) and
`LatencyProofs`, each about the module of that name, on top of `CodecProofs` (`Vlq` and
`Frame`) and `Recursion` (induction and recursive definitions).

### Trackers and Router

A `HashMap<K, V>` is a total function with the value `None` for an absent key. The
state is `peers`, the three tables, the two maps of the sync tracker, and for the
latency tracker the target of each timed request and the set of peers that have an
average. `actions` is what the last `handle_event` returned, as a set; `issued` is
the set of ids the counter of `main.rs` has given out and that were registered, so
that an id is never registered twice.

There is one definition for each arm of `route_message`. Ids in one message are a
set: the handlers treat them one after the other, and a repeated id acts like a
second message. Bodies are opaque to the router and left out. `find` over a
`HashMap` may return any match, so the choice of a sync partner is
nondeterministic. The `debug_assertions` checks are left out: the model is the
release build.

`RouterNext` lets any peer whose id has been issued send any message at any time,
also after its disconnection. `Proxy` shows that the tasks are better behaved than
that.

`Relay` is what this amounts to for modifiers, without tables: who offers a modifier,
who is owed one (`wants`), and who has been asked for it and not answered (`open`, in
the router the latency tracker's `pending`). A response goes to everyone who is owed
it, once. When a peer leaves, what it offered, was owed and was asked for goes. The
claims that wait for its answer may go or stay: the design (line 201) purges them, the
code keeps them, so that another peer's response still reaches the requester. Every
other claim stays.

### Proxy

One task per connection goes through `absent`, `handshaking`, `registered`,
`connected`, `reading`, `closing`, `removed`, `gone`, the stages of `run_peer`.
Every await that can block is a step of its own. The router mutex is only held for
synchronous calls. The `peer_senders` mutex is held across the sends of the main
loop and of the keepalive task, and is the variable `senders_lock`; the tasks that
take it for one operation need it to be free. Write channels are counters, because
what a frame contains does not matter once it is routed. A remote peer in
`Stallable` may stop reading its socket, after which its writer does not come back
from `write_frame` unless the write fails.

Receiving an event and handling it is one step. Between the two the main loop only
waits for the router mutex. A step another task takes there either touches the
channel or the router, and can be moved behind or before the pair without changing
what any task sees.

The main loop sends its actions in any order. The code has an order within one
message, which no property depends on.

### Connections

A slot holds a connection, pending or registered. The limits are compared with the
registered ones, as in the code. Sleeps and timeouts end at some time; the value of
the backoff is kept. A rejected connection and a failed `accept` change nothing and
are not steps. The limits are those `Config::load` lets through (`LoadAccepts`).

### Vlq, Frame and Messages

A stream is a sequence of units. A field the code reads with one `read_exact` of
fixed size (a magic, a version, an id) is one unit; a VLQ is a sequence of units
whose bytes have 2 data bits instead of 7 and whose words have 5 bits instead of 64.
As in the code, the last byte of a word is only partly inside it. A read takes a
cursor and returns one, and a failed cursor stays failed, as `?` does: `Then(c, r)`
applies the reader `r`, a function of the input that is left. Features and modifiers
have the same layout, an id and a body with its length; `WriteBlocks` and `ReadBlocks`
are the loops over them, and `ReadBlocks` says what was read and how many blocks were
missing when the input ended, which `parse_features` ignores and the other readers
turn into an error. The checksum is a number that tells bodies of one length apart.

`Messages` parses and encodes the bodies. Its machine follows one frame from the
remote peer that wrote it through a row of proxies: `read_frame`, `from_frame`, what
the router forwards, `to_frame`, `write_frame`. A journey ends with a message that
is not forwarded or does not parse.

### Handshake and Exchange

`Handshake` has the functions of `handshake.rs` as operators: `parse`, which accepts
features that are cut off, `measure_size`, which does not, and the validation.

`Exchange` is one TCP connection. Each end is a proxy, which runs the code, or some
other node, of which only what it writes is modelled: its handshake at any time or
never, frames after it, and that it may hang up. A read of the handshake sees any
non-empty part of what has been written and not been consumed, which is what segments
amount to. When an end closes, any tail of what it wrote may be lost. The
`outbound_manager` of a proxy drops a connection whose other end is a proxy.

### Latency

`Latency` takes the steps of the router together with what they do to the numbers:
the age of each timed request, in ticks, and the average of each peer, in units of
`1/Scale`. The weight of 3/10 makes averages of up to `MaxSamples` samples exact when
`Scale` is a multiple of `10^(MaxSamples-1)`; the rounding of `f64` is left out. The
order in which the ids of one response are credited is left open.

## Runs

Passing runs:

| Run | Instance | Shows |
| --- | --- | --- |
| `router` | 3 peers, 1 modifier | `TypeOK`, `PartnersAgree`, `TablesMentionRegistered`, `NonSyncActionsTargetRegistered`, `RequesterIsNotTarget`, `LightPeersNeverSync`, `ImplementsRelay` |
| `proxy_tasks` | 2 peers, event channel of 2, nobody stalls | `ProxyTypeOK`, `EventsOfRegistered`, `RegistryFollowsTasks`, `DisconnectionIsLast`, `FollowsLifecycle`, `LostPeerIsUnregistered`, `MainLoopReturns`, no deadlock |
| `proxy_modifiers` | 2 peers, 1 modifier, event channel of 1, one peer may stall | `ModifierTrafficAfterSetup` |
| `connections` | 4 slots, 2 listeners, 2 seeds | `ConnectionsTypeOK`, `EverySeedDialled` |
| `messages` | every Inv and response body of up to 5 units out of 5, responses with two modifiers, every request body of up to 3, a few of the other kinds, one too large; every signed word | `WrittenIsReadable`, `MeaningKept`, `NumberReadBack` |
| `exchange` | proxies of two networks and modes; nodes of both networks, with and without Session, too old, with an address; 2 frames from each end | `AcceptedIsComplete`, `StreamIntact`, `NetworksNeverMix`, `HandshakeEnds`, `ProxiesPart` |
| `latency` | 3 peers, 1 modifier, 2 samples, ages 0 and 1 | `StatsOfConnected`, `AverageWithinSamples`, `SampledWasAsked` |

Deadlock is checked except where the system may stop: in `proxy_modifiers`
and `stalled_peer` a stalled peer may stop the proxy, which is what `stalled_peer` is
about; in `messages`, `exchange` and `segmented_handshake` a journey or a connection
comes to its end.

Two of the properties deserve a word. `AcceptedIsComplete` holds because
`read_handshake` calls both `parse` and `measure_size`: the first alone would take a
handshake whose features are cut off by a segment for a complete one without them.
`NetworksNeverMix` holds because of the magic of the frames: a node of the other
network that sends no Session feature is accepted as a peer, and its first frame ends
the connection.

Runs that end in a counterexample, each against a sentence of the repository:

| Run | Sentence | What the code does |
| --- | --- | --- |
| `actions_target_registered` | `router.rs:6` | a second `pair` of an inbound peer leaves the first partner's entry, which outlives the inbound peer, and SyncInfo is addressed to it |
| `paired_sync_forwarded` | design 236, `README.md:42` | a paired peer's next SyncInfo is dropped unless another outbound peer is free |
| `stalled_peer` | design 330 | one peer that does not read stops the main loop and every cleanup |
| `segmented_handshake` | `connection.rs:119` | a handshake that arrives in two segments is parsed after the first and turned away |
| `design_backoff` | design 251 | the delays are 5 s doubled up to 300 s, not 30, 60, 120, 240 and 300 s, and start over with every TCP connection made, even one whose handshake fails |

Other disagreements between text and code, met while modelling and not given a run
of their own:

- Sync: the entry a second `pair` leaves behind also breaks `tracker.rs:14` and
  `router.rs:8`. SyncInfo addressed to a peer between `register_peer` (`main.rs:365`)
  and the insertion of its sender (`main.rs:379`) is lost (design 236). With a single
  outbound peer, an inbound peer whose first SyncInfo is lost in this way is paired and
  gets no sync until one of the two reconnects.
- Requests: a second requester of a modifier displaces the first (`tracker.rs:29`,
  design 181); requests sent *to* a departed peer stay pending (`tracker.rs:40`, design
  201), which `Relay` allows, as it allows a router that drops them; requests of light
  peers for block parts are not dropped (`contracts/routing.md:42`).
- Limits: pending handshakes are not counted (`main.rs:232`, `README.md:76`);
  `max_peers` is validated and never used (design 248); the backoff also grows in rounds
  in which nothing is missing (design 251).
- Handshake: a peer with a missing or a short Session feature is accepted
  (`handshake.rs:259`, design 75 and 154); feature lengths are VLQ in the code and
  big-endian `u16` in `contracts/transport.md:24`; a configured name of more than 255
  bytes wraps its length byte (`vlq.rs:106`) and does not parse (`handshake.rs:5`).
- VLQ: bits beyond the word are dropped without the error of `vlq.rs:38`, and words
  of 64 bits are written although `vlq.rs:5` speaks of 63.
- Errors of the transport end the connection at once (design 327).
- Latency: a sample can be credited to a peer that was asked and did not itself
  answer, or be timed from a later request for the same id (`latency.rs:7`). The peer
  count in the RRD is the number of peers with an average, inbound ones included, and
  the graph is titled "Connected Outbound Peers" (`generate-graphs.sh:84`).

### Bounds

- Router: three peers allow a requester, an announcer and a third that competes
  with either or responds in its place, and for the sync tracker two inbound peers
  that compete for one outbound peer or one that is paired twice. The proofs cover
  larger sets. Ids are independent of each other in every handler, so one modifier
  suffices. Peers and modifiers are interchangeable in `Router`, so the runs that check
  invariants and the refinement use symmetry.
- Proxy: two peers on opposite sides are enough for every task to wait for every
  other. Capacities of 1 and 2 stand for 64 and 256, so that full channels are the
  common case. The runs differ in the messages remote peers send (`Broadcast`,
  `ModifierExchange`), which keeps each of them small. An id is used
  once, so a run has at most two connections in all; the proofs cover any number.
- Connections: four slots are more than the limits in use (1 inbound, 1 to 2
  outbound).
- Messages: with 2 data bits and 5-bit words a word takes up to three VLQ bytes, the
  last of which holds one bit of it, as the tenth byte of a `u64` does. Bodies of 5
  units hold a modifier or several ids, lengths in more bytes than needed, units after
  the end, and every way to be cut short; two modifiers take 6 or 7 units and are added
  by themselves. Words are checked exhaustively.
- Exchange: the handshake of a proxy with its three features is within the
  buffer (`BufSize` 60, 8192 in the code). Two frames from each end are enough for one
  to share a segment with the handshake and one to follow it.
- Latency: two samples are the first, which starts the average, and one that is
  averaged. Longer series repeat the second step.

### Fairness

`Proxy`: a task that can go on does (weak fairness of the main loop's, the
writers' and the keepalive task's steps). Where the main loop or a cleanup waits
for the mutex, or a cleanup for room in the event channel, the fairness is strong:
tokio's mutex and channel serve waiters in order of arrival. Writers are fair as
long as their peer reads. Nothing is assumed about remote peers, errors, or new
connections.

`Connections`: the manager's steps are weakly fair; a dial ends, because it has a
timeout of 10 s.

`Exchange`: a proxy writes and reads when it can, and the timer of its handshake
fires. Nothing is assumed of a node, nor of when either end hangs up.

## Proofs

Router, for any sets of peers, modifiers and types (assuming only that `None` is
neither a peer nor an entry):

- `RouterInvariant`: `RouterSpec => []RouterInv`. `RouterInv` joins the checked
  invariants with three more facts. `RegistryInv` says that registered peers hold
  issued ids and outbound peers are full; a new registration therefore cannot turn
  a peer that some table still mentions into another kind of peer. `OutboundPartners`
  says what is left of the outbound half of a pairing: its key is a connected
  outbound peer, and the peer it names is gone for good or is a full inbound one.
  Without it `LightPeersNeverSync` is not inductive, because SyncInfo goes to that
  half. `ActionsInv` does the same for messages addressed to peers that are gone.
- `RouterTypeCorrect`, `TablesConsistent`, `ActionTargets`, `PartnersConsistent`,
  `LightIsolation`, `RequestPairs`: the conjuncts the runs check.
- `RouterImplementsRelay`: `RouterSpec => ImplementsRelay`. The tables map to the
  sets of pairs they stand for, the latency tracker's `pending` to the open requests;
  registration is `Join`, disconnection `Leave`, Inv
  `Announce`, a request `Ask`, a response `Answer`, and everything else an `Answer`
  to nobody.

`RouterProofs` has one lemma per handler and, for the refinement, one per action of
`Relay`, on top of lemmas on what table operations do to the pairs.

Proxy, for any number of connections, any profiles and messages, and channels of
any capacity:

- `ProxyInvariant`: `ProxySpec => []ProxyInv`. `ProxyInv` joins the types, the
  invariant of the router, and `TasksInv`. The checked invariants in it are not
  inductive by themselves. `EventsFollowTasks` adds that a queued event tells how far
  its task has come; in particular a task whose PeerDisconnected is queued is `gone`
  and sends nothing more, which is why the event stays the last of its peer, why the
  peers of the events behind it are still registered when it has been handled, and why
  the registry is exact. `TablesAfterSetup` adds that the modifier tables name only
  peers whose sender has been published, because a peer enters a table by a message.
- `ProxyTypeCorrect`, `EventsAreOfRegistered`, `RegistryIsExact`,
  `NothingAfterDisconnection`, `ModifierTrafficIsLate`: the conjuncts the runs check.
- `ProxyFollowsLifecycle`: `ProxySpec => FollowsLifecycle`. The stage of a task maps to
  a PeerState; the stages that the state machine does not know map to a stutter.

The calls of the router are covered by the lemmas of `RouterProofs`. That
`handle_event` is only called for issued ids, which those lemmas assume, is itself a
consequence of `EventsOfRegistered`.

Connections, for any limits that `Config::load` accepts, any seeds, slots and
listeners: `ConnectionsInvariant`, and from it `ConnectionsTypeCorrect`, which includes
that the delay stays between 5 and 300 s. The invariant adds that the manager is at a
seed when it dials, without which the loop over the seeds could run past its end.

Messages, for any width of a byte and of a word, any frames a remote peer may write,
and any number of proxies in a row (assuming of the constants what `VlqAssumption`,
`FrameAssumption` and `MessagesAssumption` say, all of which the code's constants
satisfy):

- `MessagesInvariant`, and from it `WrittenFramesReadable` (`WrittenIsReadable`) and
  `MeaningIsKept` (`MeaningKept`). The invariant is short, since a hop starts from
  whatever is on the wire. The argument is in `ForwardedCarried`: what the router makes
  of a body that parses is within the size limit and is read back as it was meant,
  because encoding it again makes it no longer. A length that was written with more
  groups than it needs becomes shorter, and so does a list that is split.
- `NumbersReadBack` (`NumberReadBack`): `read_vlq` inverts `write_vlq` and
  `zigzag_decode` inverts `zigzag_encode`, for every word.

`CodecProofs` carries most of the work: powers of two, the number of groups of a word,
`read_vlq` after `write_vlq` with anything behind it, lengths, strings, lists of blocks
and, in `FrameReadBack`, whole frames. A second family of lemmas says that a reader that
succeeds on an input returns the same on a longer one.

Exchange, for any segmentation of the two streams, any bytes lost when an end closes,
any frames, and any mix of proxies and nodes at the two ends:

- `ExchangeInvariant`: `ExchangeSpec => []ExchangeInv`. The invariant says of each end
  what its input holds, given where the end is. Before the handshake is consumed it is a
  prefix of the handshake of the other end and the frames behind it; afterwards it is
  a prefix of the frames written and not yet read; in both cases it is all of it while
  the other end is open. A read of the handshake sees a prefix of that input, and the
  step lemma rests on `HandshakeOfPrefix`: if `measure_size` accepts a segment of a
  stream that begins with a handshake, the segment holds all of the handshake, `parse`
  returns all of what was described, and exactly its bytes are consumed.
- `AcceptedHandshakesComplete` (`AcceptedIsComplete`), `StreamsIntact`
  (`StreamIntact`), `NetworksStayApart` (`NetworksNeverMix`).

`ExchangeAssumption` asks that what a peer describes can be written in the layout of a
handshake (`WellFormed`): strings of at most 255 bytes, the precondition of
`write_short_string` (`vlq.rs:100`), which `Config::load` does not check; addresses
with 4 or 16 bytes and a 16-bit port; features within `MAX_VLQ_LENGTH`. That
the features of a proxy itself are within it is proved (`OwnSpecExpressible`).

Latency, for any finite sets of peers and modifiers, any number of samples and any
scale:

- `LatencyInvariant`: `LatencySpec => []LatencyInv`. To the checked invariants it adds
  that every peer a request is timed against has been asked, without which a response
  could credit a peer that never was, and the invariant of the router, from which it
  follows that peers with an average are registered.
- `AveragesBounded` (`AverageWithinSamples`), `OnlyAskedAreSampled`
  (`SampledWasAsked`), `StatisticsSound` (`StatsOfConnected`).

The loop over the ids of a response is an iteration of unknown length
(`CreditRun`), and the sum of `stats` a recursion over a finite set (`SumLaw`).

Induction and recursion are done in first-order form. `NatSetInduction` says that a set
that contains 0 and with n also n + 1 contains all of Nat, and is applied to
{n \in Nat : ...}; `RankRecursion` says that a recursive definition whose calls
decrease a rank in Nat has a solution, which is what the equation of a TLA+ recursive
function needs.

Most leaves are first-order, and the larger modules leave them to Zenon (`USE
ZenonT(30)`); a leaf that needs arithmetic, or what the SMT backend knows of sequences
and functions, cites `SMTT(30)`.

With this every safety property that a passing run checks is also a theorem. Only
model-checked: the liveness properties `LostPeerIsUnregistered`, `MainLoopReturns`,
`EverySeedDialled`, `HandshakeEnds` and `ProxiesPart`, which are out of the prover's
reach, and the absence of deadlock, which is a statement about ENABLED.

## Not modelled, and the plan

Left out, because nothing in them changes the state of the proxy or because they only
turn text into values: TOML parsing and `version_bytes`, the UTF-8 validity of strings,
`Display` and logging, the start of `rrdtool` and the dashboard, packaging and fail2ban
rules.

What could be added:

1. The composition of `Connections` and `Exchange` with `Proxy`, in which a slot is a
   task and `Spawn`, `HandshakeFails` and `Register` are steps of an exchange. Each of
   the three now leaves to nondeterminism what the others decide, so their safety
   properties carry over; a property across the seam (such as a bound on the peers
   registered at once) would need it.
2. The theorems speak of one unit for a field of fixed size. Proofs over single bytes
   would need a model of the big-endian fields of a frame header and of the 32 bytes of
   an id, and say nothing more about the control flow.
