# A TLA+ verification project for OwlNest

OwlNest is a peer-to-peer node written in Rust on top of libp2p. This directory
holds TLA+ models translated from its source, TLC configurations that
model-check them, and TLAPS proofs. `PROJECT.json` lists components, runs,
mutants, the map from definitions to source lines, findings, hazards and
theorems.

## 1. The system

One *swarm task* owns the libp2p `Swarm` and with it the state of every
protocol. Other tasks and the CLI talk to it through *handles*: a handle puts a
command into an mpsc channel and waits for the answer on a oneshot callback, or
for an event on a broadcast channel. Each connection runs in a task of its own,
which owns one *handler* per protocol; handlers and the swarm task exchange
events through libp2p.

| component | state | operations | hard behaviour | module |
|---|---|---|---|---|
| swarm event loop (`owlnest/src/net/p2p/swarm/mod.rs`), generated `RxBundle` | command channels, broadcast channel of events | select, dispatch, publish, back off | backpressure, lagging receivers, callers that hold a receiver while they wait | `Swarm` |
| kad handle (`protocols/kad.rs`), hooks of mdns and of connections | routing table, `tree_map`, queries | query, bootstrap, insert_node, set_mode, mirroring task | results picked out of everybody's events; a copy kept by a task that may end | `Swarm` |
| blob behaviour (`protocols/owlnest-blob/src/behaviour.rs`) | four maps of records (pending/ongoing send/recv), id counters, connected peers, two event queues | send, accept, cancel, expiry, nine handler events, disconnection | records at two peers linked only by an id; cancellation, expiry, disconnection and restart crossing messages in flight | `Blob` |
| blob handler and handle | queue in, queue out, one outbound state | open stream, send, time out | lost acknowledgement, dropped callback | `Blob`, as the behaviour sees them |
| messaging (`protocols/owlnest-messaging`, handle) and universal framing (`owlnest-prelude`) | connected peers, per connection a handler with queue, state, stream and timer | send_message, receive, negotiate, time out, close | late verifiers, replaced streams, connections that close under a message, callbacks | `Messaging` |
| advertise (`protocols/owlnest-advertise`, handle) | the relay's table, provider state and pending answers; the clients' connected peers | query, post, retract, provide, clear | capacity, answers without query id, several connections of a client | `Advertise` |
| gossipsub's and messaging's stores (`protocols/gossipsub.rs`, `messaging.rs`) | topics in two maps, subscriptions, messages | subscribe, publish, join, leave, push, clear | several map accesses per operation, store told after the swarm | `Stores` |
| memcache | a map in a task | get, insert, remove | none: one command at a time | not modelled |
| hyper, template, wrappers of libp2p protocols, the rest of the macros, CLI, identity, configuration, db, http | none of their own, or not in use | | | not modelled, or in `Swarm` as far as they reach its channels |

What makes them correct, in a sentence each. *Swarm loop*: no reader of the
events ever misses one, backpressure ends, every call returns. *Kad*: a query
gets all of its results and nobody else's; `tree_map` follows the table. *Blob*:
an id names one operation; what is written is a prefix of what was announced;
nothing is sent before acceptance or after cancellation; records vanish with
their peer; a transfer ends. *Messaging*: a message is delivered at most once,
in order, `Ok` means delivered, and a call waits only for the network or with a
handler that has given up. *Advertise*: the table is about connected peers, and a
query is answered with something that was true meanwhile. *Stores*: nothing that was inserted is lost, and store and swarm
agree when nobody is in between.

## 2. What is modelled

### `Blob.tla`

All peers, their connections and their users, in one state machine.

- `node[p]` is the `Behaviour` of p: a record with the fields of the struct. Its
  `&mut self` methods are operators from record to record with the names of the
  code (`queue_send` is the body of `SendFile` in `push_event`). A `HashMap` is
  the set of its values, since every value holds its key; where the key is *not*
  the id one would expect (`ongoing_recv` is keyed by the remote's send id) the
  operators compare exactly the field that is the key.
- `conn[p][q]` are the connections p's swarm counts, which differ at the two
  ends while only one of them knows that a connection is gone.
- `link[<<p, q, c>>]` is p's handler on connection c with q: `inq` is
  `pending_in_events`, `busy` the message of `OutboundState::Busy`, `ev` what is
  reported and not yet seen by the behaviour (`pending_out_events` and libp2p's
  channel), `open` whether there is an outbound stream. `wire` is the message on
  that stream which the remote has not read.
- `panic`, `cancelled`, `accepted`, `faults`, `restarts` record what properties
  and bounds speak of; no action of the code reads them. `panic[p]` names the
  assertion that has stopped p's swarm.

Actions: the user's calls (`SendFile` and its three failing forms, `AcceptFile`,
`CancelRecv`, `CancelSend`); `Poll` and `PollExpiry` (`poll`, without and with
`check_expiry`); one action per event of `on_connection_handler_event`; the
handler's `OpenStream`, `Transmit`, `Arrive`, `Complete`, `Fail`; and
`Connect`, `Close` (`on_disconnect`), `Restart`.

Abstractions:

- A file is a sequence of chunks, a chunk is what one `read` returns, sizes are
  counted in chunks. `FileLen` is what the metadata said, `FileData` what reading
  returns: they differ for a file that changes in between. `bytes_received` is
  the length of what has been written.
- Ages are not modelled: when the throttle fires, any records of a map with a
  timeout may have expired, in any order.
- Calls with an unknown id only answer their caller: stuttering. `FileSendPending`
  and the completion of a cancel message only log. The `List*` queries only read.
- The acknowledgement of a message (the verifier) travels in one step with its
  reading: between `Arrive` and `Complete` the sender does not know that it came,
  and `Fail` may happen there.
- An error reported by a handler may overtake events it has queued. It is only
  passed on to the user, so its place in the queue does not matter.
- `NotifyHandler::Any` is libp2p's choice of any connection; an event for a peer
  without connection is dropped by libp2p.
- Not in this module: callbacks answered by handlers, the `Inactive` state of a
  handler whose peer does not speak the protocol, bytes and headers.

### `MCBlob.tla`

Names the small instances: who is connected, who sends, how long files are.
`whole` has two chunks, `cut` was announced with one and is empty when it is read.

### `Swarm.tla` and `Multicast.tla`

The swarm task, the handles in front of it and the event channel behind it.

- `chan[h]` is the bounded mpsc channel of handle h, `call[c]` the call a task is
  in (`sending`, `waiting` for a callback, `listening` to events). `RxBundle`
  polls its fields in order, so `Take` asks that the channels before are empty.
- The tokio broadcast channel is `unread[r]` for every receiver r in `subs`;
  publishing when a receiver has `Capacity` events unread overwrites its oldest
  and puts it into `lagged`. `Room` is the guard of the second branch of
  `select!`, `UpperBound` the `(size >> 2) << 2` it compares with. The guard is
  evaluated when `select!` is entered: `polling` is what it was then, and stays
  that until the loop's next turn, which every branch brings about.
- kad is `table`, `pending` (events it has queued for the swarm), `open` and
  `progress` of its queries; `mirror` is `tree_map`, `kadTask` whether the task
  that fills it is alive.

Actions: `Start`, `Send`, `Listen` (`listen_event!`), `SetModeTimeout` of the
callers; one action per kind of command; `ConnectionEstablished`,
`ConnectionClosed`, `MdnsEvent`, `OtherSwarmEvent` and `KadEvent` for what the
swarm may produce, each with its hooks and its publication; `KadProgress` of kad;
`Mirror` of the task; `Timer`, the branch of the loop that only logs, but without
which a swarm that found no room would not be polled before the next command.

Abstractions: an event no reader looks for is `Other`. All operations of the
swarm's own handle that only ask libp2p and answer are one action, likewise those
of mdns, and autonat's without callback. An mdns event carries one address. A
query is a sequence of at most `MaxSteps` progress events. kad may decline a peer
whose bucket is full. A size below four is left out: the bound is 0 then and the
swarm would never be polled.

`Multicast` is what the users of the channel rely on: an unbounded channel
without lagging. `Reliable` states that `Swarm` implements it.

### `Messaging.tla` and `Courier.tla`

One direction of messaging between two nodes, over several connections.

- `call[m]` is the call of `send_message` with message m; a callback that is
  dropped without an answer is `panicked`, since the handle expects one.
- `inEvents`, `connected`, `known` and `events[k]` are the Behaviour: commands,
  `connected_peers`, the connections it counts and what it has yet to hear.
- `handler[k]` is the local handler of connection k with its state, its queue
  and its `OutboundState`; `streams[k]` the streams opened so far with unread
  frames and unread verifiers; `offered` and `inbound` the remote handler's side.
- Which lengths the remote refuses (`tooLong`) is chosen initially. Any
  negotiation may succeed, fail for a while or fail with `NegotiationFailed`, after
  which the handler of that connection is `Inactive` or `Reported` for good,
  whatever the other connections of the peer do.

There is an action for each branch of the handler's `poll` and of
`on_connection_event`, at both ends, and for the two ends of a connection going
away independently; `Close` also drops the reports the Behaviour has not seen.

Abstractions: a message is a model value and its bytes are `Content[m]`, so that
two messages may have the same hash. A frame is written and read in one step. The
way of a received message from the remote handler to its user is left out: it
neither loses nor reorders. The handler's timer may fire at any time.

`Courier` is what a caller may rely on: at most one delivery, no `Ok` without
delivery, no delivery after `PeerNotFound`. `KeepsPromise` is the refinement, with
`answer` computed from `call`.

### `Advertise.tla`

One relay and its clients: `advertised`, `providing` and `pendingQuery` are the
relay's `Behaviour`; `served` and `open` the connections as either end knows
them; `toRelay[k]` and `toClient[k]` the packets on connection k, each of which
may be lost; `caller[c]` a task in `query_advertised_peer`, with the lists that
the relay would have answered since the call began (`seen`) and whether no older
answer was on its way then (`clean`), both for the properties only.
The handlers are those of messaging; here they are queues that lose packets at
any time. `OutboundNegotiated` fills a client's `connected_peers`.

### `Stores.tla`

Every access to a `DashMap` is a step; an operation of a store is a program of
such steps (`Program`, `PartOf`), and tasks interleave between them. One topic and
the history of one peer are followed: no operation looks at two. `raced` collects
the overlaps of calls (`Overlaps`) that have occurred, and each property names the
ones under which it may fail. They are the least: with any exception removed TLC
finds a violation. `crossed` are the tasks during whose call the topic was in
neither map, since `insert_topic` takes it out of one before it puts it into the
other; it is kept per call, so a later miss is not excused by an earlier promotion.
`known`, `members`, `expected` and `pushed` are history.

## 3. What is checked

Deadlock is not checked: when all calls and transfers are over the system waits
for its users. Every property of a passing run has a mutant of the code that
breaks it in that run.

| run | instance | properties |
|---|---|---|
| `two_sends` | two peers, one connection, two sends, one cancellation per user | `CancelledSendStays`, `OneRecvPerSend`, `WrittenIsPrefix`, `CompletionIsWhole` |
| `faults` | one send of two chunks, one fault of any kind, one cancellation, all timeouts, reconnection | `TypeOK`, `NoOrphanRecords`, `OneChunkInFlight`, `AcceptedBeforeSent`, `AcceptHandledOnce`, `WrittenIsPrefix` |
| `live` | one send per life, one fault or one restart of either peer, reconnection, timeout of ongoing sends, fairness | `IdsConsistent`, `NoOrphanRecords`, `OneChunkInFlight`, `TransfersEnd`, `SendsExpire` |
| `cancel_recv` | two sends | `CancelRecvFinds` is violated |
| `cancel_send` | one send, one cancellation | `CancelSendStops` is violated |
| `stale_accept` | two connections, one restart | `AcceptedBeforeSent` is violated |
| `two_senders` | two peers sending to a third | `WrittenIsPrefix` is violated |
| `swarm` | a channel of four events, two callers, one peer with two addresses, three calls or network events, two steps per query | `TypeOK`, `ListenersSurvive`, `TableIsMirrored`, `QueryResultsComplete`, `Reliable`, `CallsReturn`, `BackpressureEnds`, `MirrorCatchesUp` |
| `messaging` | two messages of the same bytes, two connections, fairness | `TypeOK`, `InOrder`, `ConnectedMatches`, `KeepsPromise`, `CallsEnd` |
| `advertise` | capacity 0, two clients, one of them with two connections and two callers, three calls | `TypeOK`, `AdvertisedAreConnected`, `FreshAnswer` |
| `stores` | three tasks, four calls, one peer, two messages | `TypeOK`, `KnownNeverLost`, `OneMap`, `KnownIsFound`, `ParticipantsExact`, `SubscriptionsAgree`, `MessagesComplete` |
| `stores_join` | two tasks, three calls, one peer | `JoinReturns` is violated |

Bounds. *Blob*: two chunks and the empty one distinguish the first chunk, a chunk
that follows another and the end; two sends are what it takes to confuse ids; one
fault or one restart at *any* moment covers every single failure, followed by a
reconnection, and a fault also together with a cancellation; `MaxFaults` bounds
both kinds together. *Swarm* (166 thousand states): the channel fills up, since
one query makes two events, and an unread receiver, a full channel and two
concurrent calls all occur; the proofs cover every size. Three inputs do not
suffice for one handle's commands to keep the loop from the channels after it for
ever, so `CallsReturn` says nothing of that starvation. *Messaging* (505
thousand): two messages are enough to overtake and to take a late verifier for
one's own; a connection is established once, two cover a message that is posted
while the other one closes; the number of streams is not bounded but by the
messages and by the attempts they cause. *Advertise* (1.04 million): with capacity
0 one client fits and the second does not; two callers and two connections of one
client make answers overtake. *Stores* (656 thousand): two tasks race on any pair
of operations, the third puts the store in the state in which they do.

Fairness of blob (`FairSpec`). `WF_vars(System)`: as long as some task has
something to do, some task does something. The executor runs every woken task, the
swarm task polls the behaviour until it is idle, and connection tasks poll their
handlers. Nothing is assumed of users, and nothing of the environment.
`SendsExpire` assumes in addition that an expired send is taken out some time: the
behaviour is polled whenever the swarm loop's timer has it enter `select!` again
(the throttle's `Delay` is not polled after its reset and wakes nobody), and a
send nobody touches does not get younger. It is a hypothesis of that property
alone, and only meaningful with a timeout above 0 (three minutes by default;
pending sends have none by default).

Fairness of swarm (`LiveSpec`). Tasks that can run do (`Send`, `Listen`,
`Mirror`); `select!` polls both branches and picks one at random, so neither
commands (as a whole: `RxBundle` prefers the first channels) nor kad's events are
passed over for ever; kad's queries end, which libp2p's query timeout sees to;
`set_mode`'s timer and the loop's own (`Timer`) fire. The network owes nothing.
`BackpressureEnds` and `CallsReturn` hold for receivers that read, as every reader
in the repository does. `BackpressureEnds` says that a swarm which is not polled
for lack of room is polled again; it fails without `Timer` although the readers
have read.

Fairness of messaging (`LiveSpec`). The swarm task and the connections' tasks are
run; the handler does not store its waker, but a connection's other handlers
(ping) have it polled again; its timer fires. Nothing is assumed of the remote or
of the network. A message in the queue of a handler without a stream has no timer,
so `CallsEnd` has the network's help as a hypothesis of its own (`NetworkHelps`):
a negotiation that is tried again and again succeeds or is refused, and a
connection whose remote end is gone closes. Without it such a message waits for
ever.

What the violated properties show (section "findings" of `PROJECT.json` quotes
the lines):

1. `remove_recv_record` looks a local recv id up among remote send ids. As soon
   as the two counters differ, `cancel_recv` on an ongoing recv answers
   `IdNotFound` or cancels another transfer, and so does the expiry.
2. `cancel_send` answers `Ok` while a chunk may still be queued; it is sent.
3. After a restart of the sender, an `AcceptFile` for a send of its previous
   life matches a new send with the same id. `AcceptHandledOnce` also fails
   then, when the true acceptance follows, which is why the run `live`, which has
   restarts, does not list it.
4. Two senders count from 0 each, and the receiver's `ongoing_recv` does not
   distinguish them.
5. `join_topic` reaches its `unreachable!()` while another task promotes the topic,
   which is in neither map for a moment. `participants` answers `None` then.

Where a property that holds makes an exception, the exception is what the code does
and TLC refutes the property without it:

- `WrittenIsPrefix` is checked and proved for one connection at a time: over two the
  receiver's swarm may see the second chunk first, and writes it first.
- `CallsEnd` excepts messages with a handler of messaging that has given up
  (`Stranded`): it is still handed messages while another connection of the peer has
  negotiated, or did before it closed. Neither sent nor refused, they wait for ever,
  and `list_connected` names the peer.
- `FreshAnswer` excepts calls that begin while an older answer is on its way: such a
  call may end with that answer, which was true before it began.
- `ParticipantsExact` and `OneMap`: two first insertions of a topic at once lose a
  participant or leave the topic in both maps. `SubscriptionsAgree`: a `subscribe`
  and an `unsubscribe` at once leave store and swarm disagreeing. `MessagesComplete`:
  of two first messages of a topic one is lost, and an empty history may replace
  the one with the first message of a peer.

The relay's table takes one peer more than `max_advertise_capacity`, since it is
compared with `<=` before the insertion. The model does the same; no property
restates the comparison.

## 4. What is proved

Eight modules hold proofs. Each proves its results for every value of the
constants, from the assumptions in the module it extends.

### `BlobProofs.tla`

`BlobProofs.tla` proves, for every set of peers, connections and files and all
bounds, from the assumptions of `Blob.tla` only (file lengths are naturals,
initial connections are symmetric and join different peers, bounds are
naturals):

- `TypeCorrect`: `Spec => []TypeOK`;
- `IdsAreConsistent`: `Spec => []IdsConsistent`;
- `NothingOrphaned`: `Spec => []NoOrphanRecords`;
- `CancelledStaysCancelled`: `Spec => []CancelledSendStays`.

The properties are not inductive one by one. That a record of p is never about
a disconnected peer needs to know that its send was made to a connected peer,
hence that `connected_peers` holds only connected ones; that a cancelled send
stays away needs that an id is used once and that cancelled ids were handed out
(a new id is never a cancelled one). So one invariant `Inv` is proved:

- `NetType` and `GhostType`: types of connections, handlers and ghosts;
- `NodeInv`: for every peer, `Good(node[p], C, K)` - typed, ids consistent, all
  records and `connected_peers` within the set C of peers with a connection, and
  no record with an id in the set K of cancelled ids, which are all below
  `send_counter`.

`Good` speaks of one record, so each method gets one lemma (it maps a good
record to a good record) that knows nothing of the network. `Put*` lemmas say
once what replacing some fields does to the type. `Shrinks` is the common case:
methods that only remove records or fill queues keep all of `Good`. Each action
then gets one lemma that cites its methods, and `NextInv` puts them together.

### `BlobFlowProofs.tla`

Extends `BlobProofs.tla` with three results that relate the two ends of a
transfer, from the same assumptions, for any number of peers, of connections
between two of them (a message may overtake one on another connection), of
requests and of faults:

- `AcceptNeverHandledTwice`: `Spec => [](restarts = 0 => AcceptHandledOnce)`;
- `RequestReceivedOnce`: `Spec => [](restarts = 0 => OneRecvPerSend)`;
- `NothingSentUnasked`: `Spec => [](restarts = 0 => AcceptedBeforeSent)`.

None of the three is inductive: that no acceptance meets a started send depends
on the messages in flight, on the remote's records and on the counter that gave
out the id. The invariant `FlowInv` follows a request through its life, which is
one thing at a time: an `IncomingFile` on its way (`Announced`), a pending record
of the remote (`Waiting`), an `AcceptFile` on its way back (`Answered`), an
ongoing send (`Started`). Each part says that the later forms do not exist yet
and that the id was given out, so `SendFile` makes an id that nothing is about.

- A letter (`IncomingFile` or `AcceptFile`) has a place `At(..., k, c, i)`: queue
  of the Behaviour, `pending_in_events` of a handler, stream, events of the
  remote's handler. `Lone` says that no two places hold the same letter. `Carried`
  says that a step moves or loses letters and makes none; one lemma per kind of
  move (`CarryPost`, `CarrySent`, `CarryRead`, `CarryTake`...) shows it, all from
  the same fact about queues (`Carry`).
- `Calm` steps start nothing and `CalmFlow` covers them at once: cancellations,
  expiry, closed connections, failures, acknowledgements, the panic of `SendFile`.
  Each method that takes part has a lemma that it is `Idle`.
- The four steps that are not calm are proved one by one: `RequestFlow`,
  `RecordFlow`, `AcceptFlow`, `StartFlow`.

The hypothesis `restarts = 0` is needed: after a restart `send_counter` starts at
zero again while letters and records about the old ids are still about; the run
`stale_accept` shows the violation. TLC checked `FlowInv` on the instances of
`MCBlob` before it was proved.

### `BlobChunkProofs.tla`

Extends `BlobFlowProofs.tla` with the flow control of a transfer, from the same
assumptions, with restarts too:

- `OneChunkOnItsWay`: `Spec => []OneChunkInFlight`.

A chunk, from the read of the file until the Behaviour has seen its
acknowledgement, has one place `Tok(..., k, l, i)`: the queue of the Behaviour, the
queue of a handler, its outstanding message, its reports. `Sole` says that the
chunks of a send are at one place; `Fewer` and `Lasts` say that a step makes none
and loses none, and are shown once for each kind of move, not for each action. The
invariant `ChunkInv`:

- `Paced`: `Sole`; chunks are of ids that were given out and of no pending send, so
  the acceptance that starts a send finds none; and a chunk in the queue is for the
  remote of its send, so that it finds a connection (with `NoOrphanRecords`). When
  `OnSendProgressed` queues the next chunk, the report it consumed was the only
  trace of the last one;
- `Fed`: until something has failed every ongoing send has a chunk somewhere;
- `Plugged`: a handler without a connection is as new, so `Connect` loses nothing;
- `Paired`: until something has failed both ends have the same connections, so
  `ConnectionNoticed` does not happen.

The first half of the property holds whatever fails. The second half has its
premise because a failed message is dropped by the handler and the Behaviour is
told only that something went wrong, not what (`SendsExpire`). TLC checked `ChunkInv`
on the instances of `MCBlob` and on one with two connections before it was proved.

### `BlobOrderProofs.tla`

- `WrittenInOrder`: for any peers and files, whatever is cancelled, expires or fails,
  `WrittenIsPrefix` holds as long as no peer is restarted (`restarts = 0`), two peers
  have one connection at a time (`OneConnection`) and a chunk is only reported under
  a key of `ongoing_recv` whose record is about its sender (`KeysApart`);
- `CompletedIsWhole`: `CompletionIsWhole` under the same conditions;
- `TwoPeersWriteInOrder`, `TwoPeersCompleteWhole`: both for two peers, where `KeysApart`
  is proved (`TwoPeersApart`) rather than assumed.

The conditions are those of the code. `ongoing_recv` is indexed by the remote's id
alone: run `two_senders` shows what happens without `KeysApart`. Chunks carry no
offset, `NotifyHandler::Any` picks any connection and the swarm takes the events of
two handlers in any order, hence `OneConnection`; TLC violates `WrittenIsPrefix` when
one file of two chunks is sent over two connections. A restarted peer counts its sends
from 0 again, so that ids of the old process name new sends.

The invariant `OrderInv` has, for every ongoing recv, the chunks of its send in the
sender's queue, in handlers, on streams and among the receiver's events (`Row`):

- `Wrote`: the data are the first chunks of the file; this is what is wanted;
- `Ahead`, `Lined`, `Behind`, `Whole`: the chunks that are not written are of that
  file and later, their reports are in order, what is not read comes after what is,
  and no chunk before one that is on its way is missing;
- `Sourced`: the sender is at the last of them, and when it may read the next one
  (an acknowledgement is on its way) everything before was read.

`Tied`, `Spent`, `Match` and `Shut` say why no other chunk interferes: a chunk on a
stream is the only one of its send, a send that has a chunk is past its request, both
ends mean the same file, and a stream has only what is outstanding on it. They rest
on the invariants of `BlobFlowProofs` and `BlobChunkProofs`, which is why these two
follow letters and chunks separately. A failed chunk is dropped by the sender's handler
and may still be read: the row keeps it as the last one, for no acknowledgement will
make the sender read on.

For `CompletedIsWhole`, `Sized` adds that what was announced is the size of the file,
and `NextModest` that only the empty chunk at a record that has everything
(`Finishes`) reports completion. By `Whole` and `Lined` nothing was before that chunk
that is not written. The theorem also covers files that shrink or grow after they were
announced (`FileData` differs from `FileLen`): they are never reported as complete.

### `SwarmProofs.tla`

Assumptions: `BufferSize <= Capacity` (tokio rounds the capacity up), the
mirroring task is not a caller, `Does` gives operations, bounds are naturals.

- `TypeCorrect`: `Spec => []TypeOK`;
- `ListenersAlwaysSurvive`: `Spec => []ListenersSurvive`;
- `EventsAreMulticast`: `Spec => Reliable`, the refinement;
- `TableAlwaysMirrored`: `Spec => []TableIsMirrored`;
- `ResultsAlwaysComplete`: `Spec => []QueryResultsComplete`.

The invariant has five parts. `ChannelInv`: a receiver has at most `UpperBound`
events to read, nobody lags, and who is not subscribed has nothing; publishing is
then always an `Append` (`PublishAppends`), which is the heart of the refinement,
and a `Drop` of a receiver that is not subscribed is a stutter. `PollInv`: what
`select!` found when it was entered still holds, since only the loop publishes.
`KadInv`: types, and a query that runs has steps left. `CommandInv`: a command with a callback is
in the channel of its operation, once, and its caller waits for it; so answering
it changes a call that waited for just that. `CountInv`: the queries made and the
callers about to ask for one are not more than the calls so far, hence a new
query has an id within the bound; it uses cardinalities. `ChannelStep` reduces
every action to what it does to the channel, so that invariance and refinement
are each argued over five cases rather than over all actions.

The last two theorems are about news that travel through two queues, kad's own and
the channel. `Newest` and `Brings` say what a queue still brings, and lemmas say
what they become when an event is added or the first one is taken; `Trails` and
`Gathered` put both queues and the reader together, so that publishing an event
moves it from one term to the other. `NewsInv` adds that the mirroring task is
subscribed. `ResultInv` adds that whoever will listen is subscribed before its
command is sent, and that no event is about a query that was not made yet
(`Asked`): so a query that gets its id has missed nothing.

### `AdvertiseProofs.tla`

Assumptions: `Owner` and `Home` are functions to clients, bounds are naturals.

- `TypeCorrect`: `Spec => []TypeOK`;
- `OnlyConnectedAdvertised`: `Spec => []AdvertisedAreConnected`;
- `AnswersAreFresh`: `Spec => []FreshAnswer`. `FreshInv` adds what a caller will
  be told: for one that began with no answer on its way, every answer that is on
  its way to its client now is one of the lists seen since.

### `MessagingProofs.tla`

No assumption: messages, contents and connections are any sets.

- `TypeCorrect`: `Spec => []TypeOK`;
- `ConnectedPeersMatch`: `Spec => []ConnectedMatches`;
- `DeliveredInOrder`: `Spec => []InOrder`;
- `PromiseKept`: `Spec => KeepsPromise`, the refinement of `Courier`.

The invariant follows a message from its caller to its delivery:

- `LinkInv`: what the Behaviour knows of a connection and has yet to hear of it (a
  `ConnectionClosed` is the last report, and there is one exactly while the
  connection is closed and still known);
- `QueueInv`: a message is with the Behaviour, or was handed to one connection, once;
- `HandlerInv`: the handler holds the last messages handed to it, and the one it is
  writing is the one before;
- `StreamInv`: each stream has one unread frame at most, that of the handler's
  current task on the stream it holds, and a verifier there says that this task was
  delivered, not another one with the same bytes; `Ok` is therefore never said of
  an undelivered message;
- `OrderInv`: indices of messages delivered and in streams grow, across streams
  that were replaced, since the remote reads them in the order of their opening.

The refinement uses it three times: a frame that is read was not delivered before,
its call was not refused, and a verifier confirms what was delivered.

### `StoresProofs.tla`

No assumption beyond those of `Stores`: tasks, peers, messages and calls are unbounded.

- `TypeCorrect`, `TopicNeverLost` (`KnownNeverLost`), `TopicInOneMap` (`OneMap`),
  `KnownTopicFound` (`KnownIsFound`), `ParticipantsRight` (`ParticipantsExact`),
  `SubscriptionsRight` (`SubscriptionsAgree`), `MessagesRight` (`MessagesComplete`):
  every invariant of the run.

A property holds while certain overlaps have not happened. `PlaceInv` says that
`raced` is honest: a task is somewhere in the program of its call (`Placed`), and two
tasks in calls that do not tolerate each other are in `raced` (`Clashes`). Each
further part says what a task relies on at its place (`hash_insert` relies on
`populated` being empty, `push_append` on a list that exists); a step of another
task that breaks it is an overlap, which `raced` then has. `KnownTopicFound` needs
no overlap but the call's own: `CrossedThen` says that every call under way while a
task holds the topic is in `crossed`, so a call that is not and that finds one map
empty will find the topic in the other. One lemma per action
shows where it may move (`Placed`) and one per action and part that the part holds.

### Only model-checked

- Liveness (`TransfersEnd`, `SendsExpire`, `CallsReturn`, `BackpressureEnds`,
  `MirrorCatchesUp`, `CallsEnd`): fairness is outside the prover's reach.
- The violated properties are counterexamples on small instances.

## 5. Plan

1. Proofs for `Blob`: which inputs keep `KeysApart` with three peers or more (a
   receiver that accepts from one sender at a time).
2. Models: a frame read in pieces and the stream that ends inside it; callbacks of
   blob's handler; the wait of advertise's `remove_advertised`.

## 6. Not modelled

- `owlnest-memcache` is a crate the node does not use; its task serves one command
  at a time. `hyper` is commented out of the behaviour, `template` is a skeleton.
- Wrappers that pass a call to libp2p and its answer back (ping, identify, relay,
  upnp, dcutr, allow_block_list) and the conversions of events; the macros except for the polling
  order, `listen_event!` and the generated handle methods.
- gossipsub's ban, unban, reject and scores: they go to libp2p and touch no store.
- Reading a frame in pieces, for messaging, advertise and blob.
- CLI, configuration, identity, database and http stubs.
- libp2p itself is external: connections, stream negotiation, kad's routing and
  the choice of a connection are modelled from how the code uses them.
