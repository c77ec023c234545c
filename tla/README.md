# A TLA+ development of Ossa's core

Ossa is a local-first protocol: applications on several devices share *stores*,
replicated values that change by operations. This directory models the part of
`src/ossa-core` and `src/ossa-crdt` that decides whether devices come to hold the
same data: the causal graph of a store, the value its operations make, the
protocol that synchronises two graphs, the way a device that knows only a store's
id obtains it from peers, the Merkle tree against which it checks what it is sent,
how two devices find the stores they share and set up streams for them, and the
multiplexer that carries those streams. TLC checks the models on small instances,
TLAPS proves the invariants of graph, value, tree, synchronisation, download and
connection set-up, and that the multiplexer is what it promises to be, for all.

## 1. Inventory of the system

Paths are relative to `src/ossa-core/src` unless they start with `src/`.

| Component (source) | State | Operations | Talks to |
|---|---|---|---|
| Causal graph, ECG (`store/ecg.rs`) | `dependency_graph`, `root_nodes`, `node_info_map` (depths, operations), `tips` | `insert_header`, `is_ancestor_of`, `get_children_with_depth`, tips, roots | called by the store task; copied for the sync tasks |
| Headers and bodies (`store/ecg/v0.rs`) | none: values | `new_header`, `validate_header`, operation times, `happens_before` | called by the graph and applications |
| ECG synchronisation (`protocol/store_peer/ecg_sync.rs`) | initiator: the `have` proposed last; responder: `their_known`, `our_unknown`, `send_queue`, `sent_haves`, `haves_queue` | a round = request (tips, bitmap), answer (proposals, operations) or Wait | a stream between two tasks; the store of each side by commands |
| StoreSync tasks (`protocol/store_peer/v0.rs`) | position in the conversation | `run_server` (initiator), `run_client` (responder) | commands to and from their store, the stream |
| Store task (`store/mod.rs`) | `state_machine` (DownloadingMetadata, DownloadingMerkle, DownloadingInitialState, Syncing), `peers`, four maps of subscribers, listeners | one command at a time: Apply, Received*, Handle*PeerRequest, SubscribeECG, RegisterOutgoingPeerSyncing, RegisterPeers, ...; `send_sync_requests` | StoreSync tasks, applications, the core |
| Metadata, blocks (`store/v0.rs`), Merkle tree (`util/merkle_tree.rs`) | a partly known tree: each node missing, unverified or verified | `missing_indices`, `set`, `validate_children`, `index_for_leaf`, `validate_chunk` | store task |
| Peer manager (`protocol/manager/v0.rs`), and peers of a store (`store/mod.rs`) | `latest_stream_id`; per store an incoming and an outgoing status of each peer | store advertisement, creation of streams; RegisterPeers, SyncWithPeer, Register*PeerSyncing, `manage_peers` | core, multiplexer, store |
| Core (`core.rs`), handshake (`network/protocol/mod.rs`) | `peer_state`, `active_stores` | connect, accept, handshake, create and join stores | everything |
| Multiplexer (`network/multiplexer.rs`) | table of streams, the frame being read, bounded queues | write a frame, read and dispatch, create a stream | all mini-protocols, TCP |
| Heartbeat (`protocol/heartbeat`) | a timer, a random number | request, answer, answer to the answer | its peer |
| CRDTs (`src/ossa-crdt`), operation times (`store/ecg/v0.rs`) | the replicated value: a map of registers and the keys deleted | `apply` of `TwoPMap` and `LWW`, `happens_before`, `compare_with_tiebreak` | store task (`apply_operations`) |
| UI bindings, derive macros, storage, identities, older protocol modules compiled for tests | - | - | - |

What is hard about it:

* **Interleaving.** Every store is one task with a queue of commands; each peer
  adds two tasks, one per direction. A sync task works on a *copy* of the graph
  while its store goes on; between its last look and its subscription the store
  may change. Several peers deliver overlapping headers in any order.
* **Bookkeeping of others' knowledge.** The responder guesses, from tips and
  from a bitmap matched by position, what the initiator has. A wrong guess
  means an operation refused, sent again, or never sent.
* **Wakeups.** A responder with nothing to send sleeps in `ecg_subscribers`;
  `update_listeners` takes all out and puts one back.
* **Phases.** Four phases, four maps of waiting peers, answers that arrive after
  the phase they were asked in; metadata, hashes and blocks asked of several
  peers at once.
* **Causal order and ids.** Ids are hashes: their order, which breaks ties, knows
  nothing of causality. A register must neither show a write that was overwritten
  nor depend on the order in which concurrent writes came.
* **Wrong answers.** A hash or a block may be wrong; a pair of hashes that does not
  fit its parent is forgotten and asked for again, in any order with right ones.
* **Bounds.** At most `MAX_HAVE_HEADERS` proposals and `MAX_DELIVER_HEADERS`
  operations per response, request limits for hashes and blocks, bounded stream
  queues.
* **Two of everything.** Two devices may dial each other at once; both ends of a
  connection hand out stream ids; both advertise their stores while stores open,
  and each asks the other for a stream per direction.
* **Blocking.** A multiplexer is one loop: while it writes a frame, or delivers to
  a full queue, it does nothing else.
* **Failure.** Tasks end by `todo!()`, `unreachable!` or `expect` in several
  places. There is no persistence and no retry: crash recovery does not arise,
  and streams (TCP) neither lose nor reorder. A connection that ends is not noticed.

What makes each component correct is stated in the modules named below; the
full list of hazards, with the lines where they bite and those no property covers
yet, is in `PROJECT.json`.

## 2. Modules

| Module | Models | State and actions |
|---|---|---|
| `HeaderGraph` | headers and the graph of a set of headers | operators only. `ParentIds[h]` is a function since an id is the hash of a header that contains its parents' ids; `HashesAreAcyclic` says that no header is older than itself |
| `Ecg` | `ecg::State` of one replica | `node_info_map`, `edges`, `root_nodes`, `tips`; `InsertHeader(h)` with its three ways out: a root, a child, refused |
| `EcgSync` | synchronisation of graphs over any set of links | per link the initiator's task, the stream, the responder's task; per device the graph. One action per store command (`RegisterOutgoing`, `StoreReceives`, `StoreSharesState`, `StoreSubscribes`, `Apply`) and per stretch of a task between two awaits (`Initiator*`, `Responder*`) |
| `EcgSyncSent` | `EcgSync` with a history variable | `sent`: per link all operations sent so far. It is added to every step of `EcgSync` and restrains none (`SentSpec`) |
| `CausalReplicas` | what `EcgSync` promises: devices with sets of headers | per device the headers it has; `Create(h)` at the author, `Learn(l)` any headers of the other end of a link whose parents come along or are there |
| `MerkleTree` | a tree whose hashes arrive one by one, some of them wrong | `nodes`; `Set`, then per call of `validate_children` one of `Postpone`, `Accept`, `Reject` |
| `Crdt` | the value of one replica: a `TwoPMap` of `LWW` registers over the graph of `Ecg`, which it extends | `map`, `tombstones`; `AddHeader`, then per operation of the header `ApplyOperation` (`InsertKey`, `ApplyToKey`, `DeleteKey`, `IgnoreDeleted`) |
| `Replica` | what one store holds, from the metadata on: composes `MerkleTree` and `Crdt` | the phase, the blocks; `ReceiveHash`, `Validate`, `ReceiveBlock`, `Sync` |
| `Store` | how a device gets a store and keeps up with it | per device the `state_machine`; per link the same pipeline, and the responder's registration with its store. One action per command (`Receive*`, `StoreHandlesRequest`, `RegisterOutgoing`, `Apply`) and per stretch of a task |
| `PeerManager` | two devices or more from dialling to streams | per connection the state of its ends, the two managers' tasks (`leader`, `follower`), the message between them, the streams of each end; per device `active_stores`, `peer_state`; per store the `peers` and the queue of commands. One action per stretch of a task (`run_*`, `AdvertiseStores`, ...) and per command (`Handle*`) |
| `Channels` | what the tasks of a connection rely on | per end and stream the messages under way; `Send`, `Receive` |
| `Multiplexer` | two multiplexers with their tasks | tasks in turn, `outgoing`, the frame being written, TCP as a sequence of units, the buffer, `read_state`, `inbox`. `handle_receive` is `handle_header`, `handle_body` and `DeliverMessage`, for it awaits in between |
| `HeaderGraphProofs` | - | graphs of headers, and loops that work off a queue: what the two modules below share |
| `EcgProofs`, `CrdtProofs`, `ReplicaProofs` (with `MerkleTree`), `EcgSyncProofs`, `StoreProofs`, `PeerManagerProofs`, `MultiplexerProofs` | - | theorems about the module of that name |
| `MCReplica`, `MCEcgSync`, `MCEcgSyncSent`, `MCStore`, `MCPeerManager`, `MCMultiplexer` | - | instances for TLC |

`EcgSync` takes a graph to be its set of headers. `Ecg` justifies that: tips,
roots, edges and depths are functions of the headers held
(`EcgIndexesMatchHeaders`, `EcgDepthIsMinimal`). `Store` takes the
rounds of `EcgSync` to be one request and one answer, which is what its phases
and subscribers see of them. The two thus look at the same tasks with different
detail.

`Store` and `Replica` divide the download. `Store` says what is asked of whom, when
and over what, with a tree and a state given by what they lack. `Replica` says what
a store makes of hashes and blocks that come, right or wrong, in any order, late or
twice, and of the operations afterwards.

A handler that loops or calls itself is, in `MerkleTree` and `Crdt`, a row of steps:
`pending` are the calls of `validate_children` still to be made, `applying` the
operations of an accepted header still to be applied. While one is not empty the
guards keep every other action out, as the store task handles one command at a
time, and the properties hold in between as well.

`CausalReplicas` is the abstract specification of `EcgSync` (`ImplementsReplicas`,
checked on a forest and proved of all graphs, merges included). The state is the graphs alone: `Apply` is `Create`,
`StoreReceives` is `Learn`, and whatever the tasks and streams do besides changes nothing.
It says what a store may take in, not that it must: that is `EventuallyConsistent`.

The modules form layers. `Multiplexer` implements `Channels` (the refinement
`ImplementsChannels`, checked and proved), and a channel per stream is what `PeerManager` (`wire`),
`EcgSync` and `Store` (their request and response) have between two tasks. What
`PeerManager` ends with, a peer `Syncing` in a direction, is where a link of
`EcgSync` and `Store` begins: their `RegisterOutgoing` is the command that
`HandleRegisterOutgoing` handles.

Abstractions, in all modules:

* Ids are numbers where the code orders them (the priority queues), model values
  otherwise. Hashes, signatures and serialised bodies are left out.
* Peers are honest in `Store` and `EcgSync`. In `Replica` any hash or block may
  come, and at most `MaxWrong` wrong ones in all.
* The hash function has no collisions (`HashesDoNotCollide`).
* A queue between two tasks is a sequence. Commands that several tasks have sent
  to one store are taken in any order: each task has at most one outstanding, so
  these are all the orders of arrival.
* A queue inside a task of `EcgSync` is a count of copies of each element, and the
  order in which its elements leave is an operator (`NextToSend`, `NextToPropose`).
  That `mark_as_known_helper` takes them in some order is no matter (`MarkNext`).
* `PeerManager` keeps the order of the commands sent to one store. An advertisement
  is a list and its answer a set of positions, as the bitmap is; the
  salted hash of a store's id is taken for the id. The follower's send of its answer and
  its commands to its own stores are one step, for nothing in between sees the
  difference. A store that runs goes on running: no code takes a store out of
  `active_stores`. The sleep of a client's manager before it
  starts is any delay. Whether the client's handshake reads ahead is a
  choice, made when there is something to read; what it loses is a whole
  message or a part of one. In that case the peer is recorded all the same, and the client's
  multiplexer, which meets the rest of the message first, is taken to fail at once.
* In `Multiplexer` each half of a frame's header is one unit and so is any piece of a
  body, and a body carries the number of its exchange: what a cut in the middle of
  four bytes can do, a cut between the halves can. Reads return any number of
  units. Its tasks are those of the streams a connection starts with, managers and
  heartbeat, which speak strictly in turn. Streams created later are in `PeerManager`, and
  what StoreSync says on them in `EcgSync` and `Store`, with a channel each. There a responder
  may say Wait and then answer unasked, two messages in a row; once at most before the
  initiator speaks again (`EcgSyncProofs`), so fewer than the four an inbox holds. That
  step from `EcgSync` to the inboxes of `Multiplexer` is an argument, not a check.
* Choices by `shuffle` and by hash-map order are nondeterministic.
* Each module holds, before the operators they vary, the mistaken forms
  (`\* Mutant: ...`, `\* Mistaken ...`) against which the properties are tested.

## 3. Runs

| Run | Instance | What it shows |
|---|---|---|
| `replica` | 5 blocks, 2 wrong answers; then 10 headers with 12 operations on 3 keys: three roots, merges of unequal depth, merges of merges, an id smaller than its parent's with a concurrent one between them | wrong hashes and blocks are never taken and never wedge the tree, the download ends; every order of insertion leaves a closed graph with right indexes, least depths and a right ancestor search; keys and registers depend on the set of operations only, and nothing overwritten is shown |
| `ecg_sync_pair` | 2 devices, both directions; a chain of 3 by one, a root by the other; 3 proposals, 2 operations per response | nothing refused, nothing sent twice over a link in all rounds together, no stale lookup, no wakeup lost, one request outstanding per link, every empty round proposes something new, the stores are replicas of one history (`ImplementsReplicas`), and the graphs become equal |
| `store_pair` | seed and downloader, 3 blocks (4 tree nodes besides the root), limits 3 and 2, 2 operations | the download ends, nothing held is lost, answers belong to their requests, operations become shared |
| `store_triangle` | seed, downloader, and a third that asks both; 2 blocks, limits 1 | phases, subscribers and requests are consistent in every interleaving, including the repeated metadata and lost tasks of section 4 |
| `peer_manager` | 2 devices that dial each other at once; one opens two stores, the other the second of them; 2 stores per advertisement | statuses match requests under way, no manager or store gives up, stream ids do not clash, one stream per direction, bits are taken for the stores they were set for, so that known peers run the store, and what both always advertise is synchronised both ways unless the handshake lost something |
| `multiplexer` | a heartbeat led by the server and a request-answer protocol led by the client, 2 exchanges each; messages of 1 and 3 units, reads of up to 4 | each stream is a channel, every delivery finds room, answers match, every exchange ends |
| `ecg_sync_merge`, `ecg_sync_marks`, `ecg_sync_wide`, `store_chain`, `store_two_seeds`, `peer_manager_loss` | one small instance each | section 4 |

Why these bounds. Five leaves are the least with two in the bottom layer and
three above it, where the array's order is not that of the blocks; two wrong
answers can spoil both hashes of one pair or two pairs at different depths. Ten
headers were chosen for the graph (every kind of merge) and the ids in it for the
registers: three writes of one register that `compare_with_tiebreak` orders in a
circle, and others that it orders. A chain of three with two operations per response needs two
rounds of delivery, and the third header may be made at any moment, so also
between a responder's copy and its subscription; a second root makes one side
hold something the other never heard of, so that bitmaps matter. That an update from
one peer is passed on to the others takes a third device: `SyncWaitsOnlyWhenCaughtUp`
covers any number. Three blocks make a
tree of three levels and two chunks of each kind; two blocks with limit one let
two peers answer for different parts. One and two blocks, and one, are the
boundary at which the hash phase is skipped (`store_chain`, `store_two_seeds`).

A device dials a peer at most once (the bound `Dials`). Dialling twice, or each
other, gives two connections of one pair; with the crossed pair every outcome of
the two handshakes occurs: one connection, or two with one live end each. One device opens the
stores 1 and 2, the other 2 only: while 2 is advertised as the first of a list, 1 may be
launched and go before it, which is the least in which positions shift between a list and
its answer. The limit is then reached but cuts nothing off; what it cuts off is in
the theorems, which hold for every limit. Stores that open before, between and after
advertisements give every order of advertisement and request. A connection to
oneself is modelled (both ends close) but is not in the instance. For the
multiplexer, TCP holds 6 units: more than a frame of the client, and all the short
messages it may have outstanding. That is a condition: each multiplexer writes a
whole frame before it reads again, and with `PipeCapacity = 3` TLC reports that the two
wait for each other for ever, each writing. The code leaves this to the size of TCP's
buffers. An inbox holds two messages here and four in the code; since the last
message of a heartbeat may be followed at once by the first of the next, one
place would not be enough for `NeverWaitsForATask`, and two are. Two exchanges let a message of one
meet those of the next.

`CHECK_DEADLOCK FALSE` is set where the system comes to rest: applications need
not apply anything more, and every task then waits.

**Fairness.** In `Replica` a handler that has begun ends (a store task awaits
nothing in it), and a right hash or block arrives again and again as long as it is
missing: a store asks again whenever a peer has answered (`SendSyncRequests` of
`Store`), and one peer at least answers right. `EcgSync` only assumes that some task takes a step when some can;
`Store` that each stream's tasks do. In `PeerManager` some
task runs while one can, and in `Multiplexer` something happens while it can; both
end, so nothing stronger is needed. Nobody need dial or open a store. Tokio's scheduler runs woken tasks, and a
store takes from one unbounded queue. Applications are never assumed to act, so
the liveness properties speak of the time after the last operation.

**Forests.** `TheyKnowIsTrue`, `DeliverableInOrder`, `WaitsOnlyWhenCaughtUp` and
`EventuallyConsistent` hold where no header has two parents. With merges they
do not (`ecg_sync_merge`), and `ecg_sync_pair` says nothing
of merges. Three of the four are proved of forests in section 5, and TLC finds each of the
three violated on the instance of `ecg_sync_merge`; so the hypothesis is needed. Likewise `ProposesSomethingNew` needs fewer unknown tips than a
response has proposals, and the liveness of `store_pair` needs a peer that has
all that is asked of it: two conditions that section 4 shows to be needed.
`EventuallyShared` and `NothingIsLost` speak of a store downloaded from one peer.

## 4. Where the code disagrees with what it says

1. **Merges are lost** (`ecg_sync_merge`). The responder queues a header when
   *one* parent is known and delivers it without a look at the others
   (`ecg_sync.rs:350`). If another was not sent, the merge is refused, is believed
   known and is never sent again; the responder sleeps. `ecg_sync.rs:3`: "Request
   all operations that responder has that initiator doesn't have (R \ I)."
2. **Ancestors are not marked** (`ecg_sync_marks`). `mark_as_known_helper` reads
   the result of `BTreeSet::insert` the wrong way round (`ecg_sync.rs:181`): it goes
   on to the parents of a header that was known and stops at one that was not.
   `ecg_sync.rs:201`: "Invariant: if a header is in `their_known`, all the header's
   ancestors are in `their_known`." The price is operations sent to an initiator whose
   tips say that it has them: with a chain of four and a branch at its first header, the bitmap
   makes that header known, and its children are sent. The first item does not go away with
   this one.
3. **Wide graphs make no progress** (`ecg_sync_wide`). All tips are queued anew
   each turn before what the last response had no room for (`ecg_sync.rs:438`).
   With 32 unknown tips (2 in the run) each round proposes the same.
   `ecg_sync.rs:38`: "Good: logN network communication".
4. **Wait is not understood** (`store_chain`). Told to wait for metadata, hashes
   or blocks, the initiator's task reaches `todo!()` (`v0.rs:379`) and its peer is
   outstanding for ever. `v0.rs:64`: "Don't currently know, wait until we share it
   with you."
5. **Late metadata resets a store** (`store_two_seeds`). Every registration in
   DownloadingMetadata asks another peer; the second answer replaces the state
   machine whatever the phase (`mod.rs:601`). Operations then reach a store that
   is downloading: `unreachable!("We must be syncing")` (`mod.rs:776`).
6. **The handshake reads ahead** (`peer_manager_loss`). The client's handshake
   goes through a buffered reader that is dropped, with its buffer, before the
   multiplexer starts (`core.rs:390`). The server sends its first advertisement
   right after its id; the client may read both together. Then the server's
   manager waits for an answer for ever, or the client takes the middle of the
   message for a header. `store/mod.rs:980`: "For now, sync with all (connected?) peers."

No run, but a limit: `compare_with_tiebreak` (`src/ossa-crdt/src/time.rs:32`) is not
transitive. With a write *b* made knowing of *a*, a write *c* concurrent to both, and
ids *b* < *c* < *a*, a register to which *a*, *b*, *c* are applied shows *c*, and one to
which *a*, *c*, *b* are applied shows *b*: `lawCommutativity` of `src/ossa-crdt/src/lib.rs`
asks for the same. Hence `RegistersConverge` supposes that the writes of the
register are ordered transitively, as they are when all are concurrent or all are
causally ordered; the instance has registers with and without.

## 5. Proofs

`EcgProofs`, about one replica, for every set of headers and every acyclic
`ParentIds`. Neither closure nor the indexes are inductive alone: that the new
header is a tip needs that no held header names it, which needs closure. `IInv`
is their conjunction with types and the local recursion of depths. Theorems:
`EcgTypeOK`, `EcgCausallyClosed`, `EcgIndexesMatchHeaders`, `EcgGraphOnlyGrows`;
`EcgDepthIsMinimal`, by the header of wrong depth that comes first (`OldestFirst`);
and `EcgSearchFindsAncestors`: the layers a search visits grow until there is nothing
new, and what is visited then is closed under parents.

`HeaderGraphProofs` holds what these proofs share with those of `EcgSync`.
`TipsDetermineHeaders`: closed sets with equal tips are equal, which is
what `handle_ecg_subscribe` relies on when it compares tips; it takes a
header of the difference that no other header of it has for a parent
(`HashesAreAcyclic`). And what can be said of recursion where induction over data is out of
reach. A loop is a recursive function of its state, *f*[*s*] = *s* where it is done and
*f*[*s*] = *f*[*step*[*s*]] elsewhere. `LoopIsDefined`: there is such a function, whether the loop
ends or not. `LoopResult`: what holds at the start, is kept by a step and leaves no infinite run
(`LoopEndsIn`) holds of the result. `QueueRunsDry` gives the last: if whatever is taken out of a
queue puts in only its descendants in an acyclic relation, finitely many elements cannot be taken
out for ever, for one of them comes again and again, and so do those that put it in. `CountedIsDefined` and
`DepthIsDefined` do the same for functions on 0 to *n* and along the graph. The proofs rest on sets of
numbers that have a least element, not on an induction rule.

`StoreProofs`, about the download, for every set of devices, links and
operations, every number of blocks (`InitialStateIsNotEmpty`) and every limit.
`StoreInvariant` proves `IInv` inductive; from it follow `StoreTypeOK`,
`StoreMissingWhileDownloading`, `StoreWaitsOnlyForWhatIsMissing`,
`StoreOneRequestOutstanding` and `StoreOneExchangePerStream`. The argument turns
on the exchange over one stream: that operations handed to a store are
operations (types) needs the answer to be of the kind asked, which needs the
stream to be idle when the initiator asks, which needs that a responder that has
answered is no longer registered (`ResponderOK`), so that no transition of its
store wakes or serves it again. `RequestsOK` is `OneRequestOutstanding` by cases.
`SendFacts` says what `send_sync_requests` does to any choice of peers;
`ServeFacts` and `ListenersFacts` what a transition does to subscribers;
`ContinueStep` puts them together for all `Received*` handlers.

`ReplicaProofs`, in its first part, is about the tree alone, for every number of leaves, every hash
function without collisions (`HashesDoNotCollide`) and any number of wrong hashes.
`TreeInv` says that a verified node other than the root has a verified parent and
a verified sibling; that waiting calls are for different nodes whose children are
not verified; and `NothingIsForgotten`: an unverified pair below a verified node has a
waiting call. `TreeVerifiedIsHonest` needs only the first, and that a pair hashes to
one value. For `TreeNeverStuck` take, in a tree with nothing missing and no call
waiting, the unverified node of least index: its parent is verified and its sibling
not missing, so a call would be waiting. `IndexForLeafIsRight` (from
`NextPowerOfTwoAssumption`) says that `index_for_leaf` undoes the layout of `from_leaves`.

`CrdtProofs`, for every graph and every `Operations` in which keys are used after
they were inserted (`OperationsAssumption`). `CrdtInv` adds to the graph's `IInv` that what is
being applied is the rest of a header that has no children yet (`ApplyingOK`), so
that everything that happened before the next operation has been applied. Theorems:
`CrdtKeysAreDetermined`, `CrdtNothingOverwrittenIsShown` (a write shown is never
replaced by one it overwrote, `PrecedesIsTotal`) and `CrdtRegistersConverge`.

The second part of `ReplicaProofs` composes the two: `ReplicaKeepsItsParts` says that every step of `Replica`
is one of the tree, of the value, or neither, so their theorems carry over, and
`ReplicaContent` that verified hashes, accepted blocks and the state under the
operations are the creator's.

`PeerManagerProofs`, for every set of devices, of stores each opens, of connections
between them, and every size of advertisement (`PeerManagerAssumption`). Five of the
six invariants of the module follow from `IInv`, whose parts need one another:

* `Connected`: an end whose managers run is the one recorded in `peer_state`, so a pair of
  devices has one leader at most (`OneLeader`), whichever handshakes crossed.
* `Conversations`: by what the leader is about, what may be on the wire and where its
  follower may be (`Advertising`, `Requesting`). Part of it is that the list on the wire is
  the one the leader keeps, and that a bit in the answer is for a position of that
  list with a store that both run, whatever was launched since.
* `KnownRuns`, `CommandsRun`, `CommandsOpen`: stores never stop, so what an
  advertisement said stays true in every command and status it led to.
* `OutgoingOnce`, `IncomingOnce`, `AskingOnce`: `OneRequestPerStatus` with the counts
  written per pair of devices. They rule out the panic of `update_peer_to_syncing`.
* `ConsentIsAsked`: while an end has not yet asked a peer for a stream, the peer has
  consented to none. That is why a request finds the status `Known` and is not refused: two
  stores that learn of each other at different times cannot have agreed before.
* `StreamsOK`: ids are the leader's, of its parity and growing, so an id is free at both
  ends when it is used.

`RequestStep`, `RequestArrivesStep`, `FollowerCreatesStep`, `LeaderCreatesStep` and the steps
of the four commands follow one request along its way. `SyncedOnce` needs more: that a
stream made earlier is still remembered. `Stays` says that no step takes back
`Syncing`, or a registration before the status says so, and `SoleStreams`, inductive beside
`IInv`, that every stream has one of these (`Served`, `Fed`) and so no second.

`EcgSyncProofs`, for every set of devices, links and headers, in three parts.

* *The exchange.* `IInv` gives the stages of an exchange (`Commanded`, `Requested`, `Answering`,
  `Answered`, `Delivered`) and says what is where in each; that the initiator is told to wait
  once at most is part of it, for otherwise the response would not be the next message it expects.
  `SyncOneRequestOutstanding` follows. `Bystander` says that a store's step keeps the exchanges
  it does not act on, `RespondStep` that a turn may end with any operations and proposals.
* *A turn.* `MarkEnds`, `SendEnds` and `ProposeEnds` say that the loops of
  `mark_as_known_helper`, `prepare_operations` and `prepare_sent_haves` end, and `MarkedFacts`,
  `SendResult` and `ProposeResult` what they do: nothing comes into a queue that is not in the
  graph, what is sent was not known, has no header twice, and is known after, at most `MaxHave` are
  proposed, and if nothing is sent or proposed every tip is known. `TurnOutcome` puts a turn together.
* *The ends.* `CInv` says of each link what is `Right` given the graphs of its ends: types and
  widths; the copy a responder works on is a closed part of what its store has, and has all that the
  queues refer to (`InGraph`); what is under way the responder's store has (`SentOurs`); and, where no header has two parents (`Forest`), what the
  responder has been told is true (`ToldTrue`), what it takes for known the
  initiator has or will get (`KnownTrue`), what is under way can be inserted in order
  (`SentRight`), and who sleeps has nothing for the initiator (`CaughtUp`). For the last, that
  all tips are known is enough, since a closed set is what its tips have for ancestors
  (`TipsCover`). `RightForBystander` covers the links a step does not act on,
  the lemmas `RightAfter*` the one it does.

`SyncContent` is `Spec => [](IInv /\ CInv)`. From it follow, merges included, `SyncTypeOK`
and `SyncQueuesInSnapshot`; and under `Forest` `SyncTheyKnowIsTrue`,
`SyncDeliverableInOrder` and `SyncWaitsOnlyWhenCaughtUp`. `SyncIsCausalReplication` is the
refinement of `CausalReplicas`, which needs no forest: what a store keeps of a batch comes from the
other end (`SentOurs`) and leaves its graph closed (`InsertHeadersFacts`), even if the batch
is out of order and part of it is refused (`StoreReceivesLearns`). `Forest` is used for one fact, that the
children of a known header have all their parents known. `send_queue` is filled on the strength of
it, and where it fails item 1 of section 4 happens. The hypothesis does not say that applications never
merge: it says how far the protocol can be relied on as it is.

`SyncSendsOnce`, merges included, is about the history variable `sent` of `EcgSyncSent`: over a
link no operation is ever sent twice. Its invariant `HInv` says that what was sent has no
repetition and is still marked (`Remembers`). For a turn that is what `SendResult` says of
one response (nothing twice, nothing marked before) and that no other loop takes a mark away
(`TurnRemembers`); two sequences without repetitions and with nothing in common, one put behind
the other, have none (`InjectiveConcatenation`).

`MultiplexerProofs`, for any streams, each led by either end, any lengths of messages, and
any capacities (`MultiplexerAssumption`) under one condition: the channel of a task holds
the messages of an exchange but one (`InboxAssumption`; the code has room for 4 messages,
`multiplexer.rs:31`, and exchanges of 2 and 3 on the streams of the module). `IInv` has three parts:

* `Typed`. The number of bytes a reader still wants is not negative only because
  `send_buffer` never outgrows the announced length.
* `AllFramed`: what the reader holds, its buffer, TCP and what the writer has left are, put
  together (`UnderWay`), whole frames one behind the other. No part is that alone, for a
  frame may be cut anywhere; and without it a reader could take a body for a header.
  A unit that moves from one place to the next leaves the whole (`Still`), so
  `WriteFrame`, `ReadPipe`, `handle_header` and `handle_body` change no channel;
  `TakeOutgoing` adds a frame at the end (`MessagesAppended`) and `DeliverMessage` takes
  the first one away (`MessagesPrepended`), which moves a message from one part of
  `Transit` to the next.
* `InTurn`: the two tasks of a stream are in the same turn with nothing under way, or one
  is one or two turns ahead by the messages it sent (`AheadOf`). Two ahead is a heartbeat's
  end followed at once by the next one's beginning.

`MultiplexersAreChannels` is the refinement, step by step: `SendMessage` is `Send`,
`ReceiveMessage` is `Receive` and every other step a stutter. `NoTaskIsWaitedFor` needs all three
parts: the message about to be delivered is one of those under way (frames), and these are
fewer than an exchange (turns). `AnswersAreExpected` and `TypeCorrect` follow as well. The lists of messages
in a sequence of units are counted, not computed (`Kth`, the k-th number of a set), so that
the lemmas on frames need no recursion.

Only model-checked: all liveness (out of the prover's
reach), so what `EcgSync`, `Store`, `Replica` and `PeerManager` owe to fairness, and
`EveryExchangeEnds` of `Multiplexer`; `ProposesSomethingNew`, which holds only while fewer tips are unknown
than a response has proposals; and `NothingIsLost`, which does not hold with several sources.

## 6. Not modelled, and the plan

The plan put the graph first, then its synchronisation, the download, the
connections, the multiplexer, and the data (Merkle tree, values): those are done.

Left out for good: identities and key generation, storage, time sources, UI
bindings, derive macros (no behaviour over time, or generated code),
serialisation and version negotiation (sequential and without state), print and
debug output, and the older `network/protocol/ecg_sync` and `keep_alive`, which
only tests compile and which `network/protocol/mod.rs:19` marks for deletion. Of
`src/ossa-crdt`, the map and the register are modelled. `CausalTree` is not: neither a tree
nor an operation of it can be made outside its module, and nothing in it makes one.
`ORSet` is commented out, and nothing uses the Lamport times. The count
of operations of a body in a byte (`store/ecg/v0.rs:232`) is arithmetic on one value, with no
state to relate it to.
