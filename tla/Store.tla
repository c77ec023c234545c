------------------------------- MODULE Store -------------------------------
(***************************************************************************)
(* How a device that knows only the id of a store gets the store from its  *)
(* peers: the state machine of store/mod.rs (metadata, merkle tree, blocks *)
(* of the initial state, then operations) and the StoreSync tasks of       *)
(* protocol/store_peer/v0.rs that carry its requests.                      *)
(*                                                                         *)
(* A link <<i, r>> is one StoreSync stream, on which i's task (initiator,  *)
(* run_server) requests and r's task (responder, run_client) answers.      *)
(* Every device runs one store task, which takes one command at a time.    *)
(*                                                                         *)
(* Peers are honest: a hash or a block is the right one, so a tree or an   *)
(* initial state is given by what is missing of it.  The exchange of       *)
(* operations is one request and one answer here, and its Wait is silent;  *)
(* EcgSync models its rounds.                                              *)
(***************************************************************************)
EXTENDS Integers, Sequences, FiniteSets

CONSTANTS
  Device,       \* devices that know the store's id
  Seed,         \* devices that created the store (new_syncing)
  Link,         \* pairs <<initiator, responder>> with a StoreSync stream
  Operation,    \* operations that applications may apply
  BlockCount,   \* block_count of the initial state
  MerkleLimit,  \* MERKLE_REQUEST_LIMIT: hashes asked for in one request
  BlockLimit    \* BLOCK_REQUEST_LIMIT: blocks asked for in one request

ASSUME StoreAssumption ==
  /\ Seed \subseteq Device
  /\ Link \subseteq {l \in Device \X Device : l[1] # l[2]}
  /\ MerkleLimit \in Nat \ {0} /\ BlockLimit \in Nat \ {0}

\* A serialized value has at least one byte, so there is a block.
ASSUME InitialStateIsNotEmpty == BlockCount \in Nat \ {0}

VARIABLES
  store,        \* store[d]: state_machine of d's store
  outgoing,     \* outgoing[l]: outgoing_status of the peer at the initiator's store
  command,      \* command[l]: StoreSyncCommands on their way to the initiator's task
  initiator,    \* initiator[l]: what the initiator's task waits for
  request,      \* request[l]: requests on the stream
  response,     \* response[l]: responses on the stream
  received,     \* received[l]: Received* commands on their way to the initiator's store
  responder     \* responder[l]: state of the responder's task and of its subscription

vars == <<store, outgoing, command, initiator, request, response, received, responder>>

Initiator(l) == l[1]
Responder(l) == l[2]

Block == 0..(BlockCount - 1)
Node == 1..(2 * BlockCount - 2)     \* nodes of the merkle tree but its root, 0

Kind == {"Metadata", "Merkle", "Blocks", "Operations"}

\* "Panicked": the store's task has hit an unreachable!.
Phase == {"DownloadingMetadata", "DownloadingMerkle", "DownloadingInitialState", "Syncing", "Panicked"}

\* What is asked for or given: node ids, block ids or headers.
Item == Node \cup Block \cup Operation
ItemOf(kind) ==
  CASE kind = "Merkle" -> Node [] kind = "Blocks" -> Block [] kind = "Operations" -> Operation
    [] OTHER -> {}
Message == UNION {[kind : {k}, items : SUBSET ItemOf(k)] : k \in Kind}

\* hashes, blocks: what is missing of the tree and of the initial state.
StoreState ==
  [phase : Phase, hashes : SUBSET Node, blocks : SUBSET Block, ecg : SUBSET Operation]

NewDownloading == [phase |-> "DownloadingMetadata", hashes |-> {}, blocks |-> {}, ecg |-> {}]
\* Mutant: the root is not set from the metadata, and is missing too.
NewMerkleWithoutRoot ==
  [phase |-> "DownloadingMerkle", hashes |-> {0} \cup Node, blocks |-> {}, ecg |-> {}]
NewMerkle == [phase |-> "DownloadingMerkle", hashes |-> Node, blocks |-> {}, ecg |-> {}]
NewInitialState == [phase |-> "DownloadingInitialState", hashes |-> {}, blocks |-> Block, ecg |-> {}]
NewSyncing == [phase |-> "Syncing", hashes |-> {}, blocks |-> {}, ecg |-> {}]

(***************************************************************************)
(* The responder's task.  "Asked": its command is with the store.          *)
(* "Answer": the store has answered.  "TellWait": the store has registered *)
(* it, and it has yet to tell the initiator.  "Waiting": it awaits the     *)
(* channel it is registered with.  subscribed: it is among the store's     *)
(* *_subscribers; answer: what has been sent on that channel.              *)
(***************************************************************************)
Answer == [type : {"Response"}, items : SUBSET Item] \cup [type : {"Reject"}]
Response == Answer \cup [type : {"Wait"}]

ResponderState ==
  [stage : {"Receive", "Asked", "Answer", "TellWait", "Waiting"},
   request : Message, subscribed : BOOLEAN, answer : Seq(Answer)]

NewResponder ==
  [stage |-> "Receive", request |-> [kind |-> "Metadata", items |-> {}],
   subscribed |-> FALSE, answer |-> <<>>]
-----------------------------------------------------------------------------
(***************************************************************************)
(* What a store can answer.                                                *)
(***************************************************************************)
CanAnswer(st, req) ==
  CASE req.kind = "Metadata"   -> st.phase # "DownloadingMetadata"
    [] req.kind = "Merkle"     -> st.phase \in {"DownloadingInitialState", "Syncing"}
    [] req.kind = "Blocks"     -> st.phase \in {"DownloadingInitialState", "Syncing"}
    [] req.kind = "Operations" -> st.phase = "Syncing" /\ ~ (st.ecg \subseteq req.items)

\* A store that is downloading the blocks gives those it has (None for others).
AnswerTo(st, req) ==
  [type |-> "Response",
   items |-> CASE req.kind = "Metadata"   -> {}
               [] req.kind = "Merkle"     -> req.items
               [] req.kind = "Blocks"     -> req.items \ st.blocks
               [] req.kind = "Operations" -> st.ecg \ req.items]

Subscribers(d, kinds) ==
  {l \in Link : Responder(l) = d /\ responder[l].subscribed /\ responder[l].request.kind \in kinds}

\* Those who wait at d's store, now st, for a thing of these kinds are given
\* it.  The peer it came from gets nothing; it can have asked for blocks.
ServeSubscribers(d, st, kinds, from) ==
  [l \in Link |->
     IF l \notin Subscribers(d, kinds) THEN responder[l]
     ELSE LET peerKnows == Initiator(l) = from /\ responder[l].request.kind # "Blocks"
          IN  [responder[l] EXCEPT
                 !.subscribed = FALSE,
                 !.answer = IF peerKnows THEN <<[type |-> "Reject"]>>
                            ELSE <<AnswerTo(st, responder[l].request)>>]]

\* Mutant: the peer an update came from is taken out and not added back.
UpdateListenersDropsSender(resp, d, from) ==
  [l \in Link |->
     IF l \notin Subscribers(d, {"Operations"}) THEN resp[l]
     ELSE IF Initiator(l) \in from THEN [resp[l] EXCEPT !.subscribed = FALSE]
     ELSE [resp[l] EXCEPT !.stage = "Asked", !.subscribed = FALSE]]

\* Mutant: a subscriber that is woken stays subscribed.
UpdateListenersKeepsSubscribed(resp, d, from) ==
  [l \in Link |->
     IF l \in Subscribers(d, {"Operations"}) /\ Initiator(l) \notin from
     THEN [resp[l] EXCEPT !.stage = "Asked"]
     ELSE resp[l]]

\* update_listeners: subscribers for operations look at the graph again, but
\* for the peer an update came from, who stays subscribed.
UpdateListeners(resp, d, from) ==
  [l \in Link |->
     IF l \in Subscribers(d, {"Operations"}) /\ Initiator(l) \notin from
     THEN [resp[l] EXCEPT !.stage = "Asked", !.subscribed = FALSE]
     ELSE resp[l]]

(***************************************************************************)
(* send_sync_requests: the metadata is asked of one ready peer; the        *)
(* missing hashes or blocks, in ascending chunks, of as many ready peers   *)
(* as there are chunks, in any pairing; operations of every ready peer.    *)
(***************************************************************************)
Rank(S, x) == Cardinality({y \in S : y < x})
Chunks(S, limit) == {{y \in S : Rank(S, y) \div limit = Rank(S, x) \div limit} : x \in S}

Needed(st) ==
  CASE st.phase = "DownloadingMetadata"     -> {[kind |-> "Metadata", items |-> {}]}
    [] st.phase = "DownloadingMerkle"       ->
         {[kind |-> "Merkle", items |-> c] : c \in Chunks(st.hashes, MerkleLimit)}
    [] st.phase = "DownloadingInitialState" ->
         {[kind |-> "Blocks", items |-> c] : c \in Chunks(st.blocks, BlockLimit)}
    [] OTHER                                -> {}

Pairings(ready, needed) ==
  LET n == IF Cardinality(ready) < Cardinality(needed) THEN Cardinality(ready) ELSE Cardinality(needed)
  IN  UNION {{f \in [L -> needed] : \A k, m \in L : f[k] = f[m] => k = m} :
               L \in {K \in SUBSET ready : Cardinality(K) = n}}

RequestsOf(st, ready) ==
  IF st.phase = "Syncing"
  THEN {[l \in ready |-> [kind |-> "Operations", items |-> st.ecg]]}
  ELSE Pairings(ready, Needed(st))

\* Mutant: peers with an outstanding request are asked again.
SendSyncRequestsToAll(d, st, out) ==
  \E sent \in RequestsOf(st, {l \in Link : Initiator(l) = d /\ out[l] # "Initializing"}) :
    /\ outgoing' = [l \in Link |-> IF l \in DOMAIN sent THEN "Outstanding" ELSE out[l]]
    /\ command' = [l \in Link |-> IF l \in DOMAIN sent THEN Append(command[l], sent[l]) ELSE command[l]]

SendSyncRequests(d, st, out) ==
  \E sent \in RequestsOf(st, {l \in Link : Initiator(l) = d /\ out[l] = "Ready"}) :
    /\ outgoing' = [l \in Link |-> IF l \in DOMAIN sent THEN "Outstanding" ELSE out[l]]
    /\ command' = [l \in Link |-> IF l \in DOMAIN sent THEN Append(command[l], sent[l]) ELSE command[l]]
-----------------------------------------------------------------------------
(***************************************************************************)
(* The store's task (run_handler).                                         *)
(***************************************************************************)
Runs(d) == store[d].phase # "Panicked"

\* RegisterOutgoingPeerSyncing: the initiator's task is up.
RegisterOutgoing(l) ==
  LET d == Initiator(l)
  IN  /\ Runs(d)
      /\ outgoing[l] = "Initializing"
      /\ SendSyncRequests(d, store[d], [outgoing EXCEPT ![l] = "Ready"])
      /\ UNCHANGED <<store, initiator, request, response, received, responder>>

\* Handle*PeerRequest and SubscribeECG: answered or registered.
StoreHandlesRequest(l) ==
  LET d == Responder(l)
      req == responder[l].request
  IN  /\ Runs(d)
      /\ responder[l].stage = "Asked"
      /\ \/ /\ CanAnswer(store[d], req)
            /\ responder' = [responder EXCEPT ![l].stage = "Answer",
                                             ![l].answer = <<AnswerTo(store[d], req)>>]
         \/ /\ ~ CanAnswer(store[d], req)
            /\ responder' = [responder EXCEPT
                  ![l].stage = IF req.kind = "Operations" THEN "Waiting" ELSE "TellWait",
                  ![l].subscribed = TRUE]
      /\ UNCHANGED <<store, outgoing, command, initiator, request, response, received>>

\* The end of a Received* handler: d's store is st, its subscribers are served,
\* the peer of link l is ready, and requests go out.
Continue(l, st, resp) ==
  LET d == Initiator(l)
  IN  /\ store' = [store EXCEPT ![d] = st]
      /\ responder' = resp
      /\ received' = [received EXCEPT ![l] = Tail(@)]
      /\ SendSyncRequests(d, st, [outgoing EXCEPT ![l] = "Ready"])
      /\ UNCHANGED <<initiator, request, response>>

Receives(l, kind) ==
  /\ Runs(Initiator(l))
  /\ received[l] # <<>>
  /\ Head(received[l]).kind = kind

\* Mutant: those who wait for the metadata are not served.
ReceiveMetadataSilently(l) ==
  /\ Receives(l, "Metadata")
  /\ Continue(l, IF Node = {} THEN NewInitialState ELSE NewMerkle, responder)

\* handle_received_metadata.  It does not look at the phase.  With one block
\* the tree is its root and complete.
ReceiveMetadata(l) ==
  LET d == Initiator(l)
      st == IF Node = {} THEN NewInitialState ELSE NewMerkle
      served == {"Metadata"} \cup IF Node = {} THEN {"Merkle"} ELSE {}
  IN  /\ Receives(l, "Metadata")
      /\ Continue(l, st, ServeSubscribers(d, st, served, Responder(l)))

\* Mutant: the last hash does not complete the tree.
ReceiveMerkleOnly(l) ==
  LET d == Initiator(l)
  IN  /\ Receives(l, "Merkle")
      /\ Continue(l, [store[d] EXCEPT !.hashes = @ \ Head(received[l]).items], responder)

\* handle_received_merkle_hashes, update_state_to_downloading_initial_state.
ReceiveMerkle(l) ==
  LET d == Initiator(l)
      missing == store[d].hashes \ Head(received[l]).items
  IN  /\ Receives(l, "Merkle")
      /\ IF store[d].phase # "DownloadingMerkle"
         THEN Continue(l, store[d], responder)
         ELSE IF missing # {}
         THEN Continue(l, [store[d] EXCEPT !.hashes = missing], responder)
         ELSE Continue(l, NewInitialState,
                       ServeSubscribers(d, NewInitialState, {"Merkle"}, Responder(l)))

\* handle_received_initial_state_blocks, update_state_to_syncing.
ReceiveBlocks(l) ==
  LET d == Initiator(l)
      missing == store[d].blocks \ Head(received[l]).items
  IN  /\ Receives(l, "Blocks")
      /\ IF store[d].phase # "DownloadingInitialState"
         THEN Continue(l, store[d], responder)
         ELSE IF missing # {}
         THEN Continue(l, [store[d] EXCEPT !.blocks = missing], responder)
         ELSE Continue(l, NewSyncing,
                       UpdateListeners(ServeSubscribers(d, NewSyncing, {"Blocks"}, Responder(l)),
                                       d, {Responder(l)}))

\* Mutant: what is received replaces the graph.
ReceiveOperationsReplacing(l) ==
  LET d == Initiator(l)
  IN  /\ Receives(l, "Operations")
      /\ store[d].phase = "Syncing"
      /\ Continue(l, [store[d] EXCEPT !.ecg = Head(received[l]).items],
                  UpdateListeners(responder, d, {Responder(l)}))

\* handle_received_ecg_operations.
ReceiveOperations(l) ==
  LET d == Initiator(l)
  IN  /\ Receives(l, "Operations")
      /\ store[d].phase = "Syncing"
      /\ Continue(l, [store[d] EXCEPT !.ecg = @ \cup Head(received[l]).items],
                  UpdateListeners(responder, d, {Responder(l)}))

\* The same, in another phase: unreachable!("We must be syncing").
ReceiveOperationsPanics(l) ==
  LET d == Initiator(l)
  IN  /\ Receives(l, "Operations")
      /\ store[d].phase # "Syncing"
      /\ store' = [store EXCEPT ![d].phase = "Panicked"]
      /\ received' = [received EXCEPT ![l] = Tail(@)]
      /\ outgoing' = [outgoing EXCEPT ![l] = "Ready"]
      /\ UNCHANGED <<command, initiator, request, response, responder>>

\* StoreCommand::Apply, which is dropped unless the store is Syncing.
Apply(d, op) ==
  /\ store[d].phase = "Syncing"
  /\ \A e \in Device : op \notin store[e].ecg
  /\ store' = [store EXCEPT ![d].ecg = @ \cup {op}]
  /\ responder' = UpdateListeners(responder, d, {})
  /\ UNCHANGED <<outgoing, command, initiator, request, response, received>>
-----------------------------------------------------------------------------
(***************************************************************************)
(* The initiator's task (run_server).                                      *)
(***************************************************************************)
InitiatorState == [stage : {"Command", "Response", "Dead"}, asked : Message]

InitiatorRequests(l) ==
  /\ initiator[l].stage = "Command"
  /\ command[l] # <<>>
  /\ request' = [request EXCEPT ![l] = Append(@, Head(command[l]))]
  /\ initiator' = [initiator EXCEPT ![l] = [stage |-> "Response", asked |-> Head(command[l])]]
  /\ command' = [command EXCEPT ![l] = Tail(@)]
  /\ UNCHANGED <<store, outgoing, response, received, responder>>

InitiatorReceives(l) ==
  /\ initiator[l].stage = "Response"
  /\ response[l] # <<>>
  /\ Head(response[l]).type = "Response"
  /\ received' = [received EXCEPT ![l] =
                    Append(@, [kind |-> initiator[l].asked.kind,
                               items |-> Head(response[l]).items])]
  /\ initiator' = [initiator EXCEPT ![l].stage = "Command"]
  /\ response' = [response EXCEPT ![l] = Tail(@)]
  /\ UNCHANGED <<store, outgoing, command, request, responder>>

\* Told to wait, or rejected, it reaches a todo!() (the Wait for hashes or
\* blocks does not even parse: it is that for metadata), and its task ends.
InitiatorDies(l) ==
  /\ initiator[l].stage = "Response"
  /\ response[l] # <<>>
  /\ Head(response[l]).type # "Response"
  /\ initiator' = [initiator EXCEPT ![l].stage = "Dead"]
  /\ response' = [response EXCEPT ![l] = Tail(@)]
  /\ UNCHANGED <<store, outgoing, command, request, received, responder>>
-----------------------------------------------------------------------------
(***************************************************************************)
(* The responder's task (run_client, run_client_helper).                   *)
(***************************************************************************)
ResponderReceives(l) ==
  /\ responder[l].stage = "Receive"
  /\ request[l] # <<>>
  /\ responder' = [responder EXCEPT ![l].stage = "Asked", ![l].request = Head(request[l])]
  /\ request' = [request EXCEPT ![l] = Tail(@)]
  /\ UNCHANGED <<store, outgoing, command, initiator, response, received>>

ResponderTellsWait(l) ==
  /\ responder[l].stage = "TellWait"
  /\ response' = [response EXCEPT ![l] = Append(@, [type |-> "Wait"])]
  /\ responder' = [responder EXCEPT ![l].stage = "Waiting"]
  /\ UNCHANGED <<store, outgoing, command, initiator, request, received>>

ResponderAnswers(l) ==
  /\ responder[l].stage \in {"Answer", "Waiting"}
  /\ responder[l].answer # <<>>
  /\ response' = [response EXCEPT ![l] = Append(@, Head(responder[l].answer))]
  /\ responder' = [responder EXCEPT ![l].stage = "Receive", ![l].answer = <<>>]
  /\ UNCHANGED <<store, outgoing, command, initiator, request, received>>
-----------------------------------------------------------------------------
Init ==
  /\ store = [d \in Device |-> IF d \in Seed THEN NewSyncing ELSE NewDownloading]
  /\ outgoing = [l \in Link |-> "Initializing"]
  /\ command = [l \in Link |-> <<>>]
  /\ initiator = [l \in Link |-> [stage |-> "Command", asked |-> NewResponder.request]]
  /\ request = [l \in Link |-> <<>>]
  /\ response = [l \in Link |-> <<>>]
  /\ received = [l \in Link |-> <<>>]
  /\ responder = [l \in Link |-> NewResponder]

TaskStep(l) ==
  \/ RegisterOutgoing(l)
  \/ StoreHandlesRequest(l)
  \/ ReceiveMetadata(l)
  \/ ReceiveMerkle(l)
  \/ ReceiveBlocks(l)
  \/ ReceiveOperations(l)
  \/ ReceiveOperationsPanics(l)
  \/ InitiatorRequests(l)
  \/ InitiatorReceives(l)
  \/ InitiatorDies(l)
  \/ ResponderReceives(l)
  \/ ResponderTellsWait(l)
  \/ ResponderAnswers(l)

Next ==
  \/ \E l \in Link : TaskStep(l)
  \/ \E d \in Device, op \in Operation : Apply(d, op)

\* Every task runs when it can; applications need not do anything.
Fairness == \A l \in Link : WF_vars(TaskStep(l))

Spec == Init /\ [][Next]_vars
FairSpec == Spec /\ Fairness
-----------------------------------------------------------------------------
(***************************************************************************)
(* Properties.                                                             *)
(***************************************************************************)
TypeOK ==
  /\ store \in [Device -> StoreState]
  /\ outgoing \in [Link -> {"Initializing", "Ready", "Outstanding"}]
  /\ initiator \in [Link -> InitiatorState]
  /\ responder \in [Link -> ResponderState]
  /\ command \in [Link -> Seq(Message)]
  /\ request \in [Link -> Seq(Message)]
  /\ received \in [Link -> Seq(Message)]
  /\ response \in [Link -> Seq(Response)]

(***************************************************************************)
(* The invariants written at StateMachine: a store in DownloadingMerkle    *)
(* lacks a hash, one in DownloadingInitialState lacks a block.  Otherwise  *)
(* send_sync_requests panics, or has nothing to ask for and stops.         *)
(***************************************************************************)
MissingWhileDownloading ==
  \A d \in Device :
    /\ store[d].phase = "DownloadingMerkle" => store[d].hashes # {}
    /\ store[d].phase = "DownloadingInitialState" => store[d].blocks # {}

(***************************************************************************)
(* A peer waits in *_subscribers only for what its store cannot give yet:  *)
(* each transition serves those that wait for what it brought, in any      *)
(* order of their registration and the store's changes of phase.           *)
(* (Blocks are an exception: handle_block_peer_request gives those of a    *)
(* store that is downloading them, but those who wait are served later.)   *)
(***************************************************************************)
WaitsOnlyForWhatIsMissing ==
  \A l \in Link : responder[l].subscribed /\ Runs(Responder(l)) =>
    LET st == store[Responder(l)]
        req == responder[l].request
    IN  CASE req.kind \in {"Metadata", "Merkle"} -> ~ CanAnswer(st, req)
          [] req.kind = "Blocks"     -> st.phase # "Syncing"
          [] req.kind = "Operations" -> TRUE

(***************************************************************************)
(* is_outstanding is right: of a peer marked so, one request is on its     *)
(* way in some stage, of any other peer none.  A task that died keeps its  *)
(* peer outstanding.                                                       *)
(***************************************************************************)
OneRequestOutstanding ==
  \A l \in Link :
    Len(command[l]) + Len(received[l]) + (IF initiator[l].stage = "Command" THEN 0 ELSE 1)
      = IF outgoing[l] = "Outstanding" THEN 1 ELSE 0

(***************************************************************************)
(* A response names no request: run_server takes the next one on the       *)
(* stream for the answer to what it asked last, and the store takes it for *)
(* what the task says.  So while the initiator has nothing outstanding the *)
(* stream and the responder are idle, and once it has asked, the request   *)
(* is on the stream, or with the responder, or answered, and only there.   *)
(***************************************************************************)
Idle(l) == request[l] = <<>> /\ responder[l].stage = "Receive" /\ response[l] = <<>>
Waits(l) == response[l] # <<>> /\ response[l][1].type = "Wait"
OneExchangePerStream ==
  \A l \in Link :
    /\ initiator[l].stage = "Command" => Idle(l)
    /\ initiator[l].stage = "Response" =>
         \/ request[l] = <<initiator[l].asked>> /\ responder[l].stage = "Receive" /\ response[l] = <<>>
         \/ request[l] = <<>> /\ responder[l].stage # "Receive" /\ (response[l] = <<>> \/ Waits(l))
         \/ request[l] = <<>> /\ responder[l].stage = "Receive" /\ (Len(response[l]) = 1 \/ Waits(l))
    /\ initiator[l].stage = "Dead" => request[l] = <<>>
    /\ responder[l].stage # "Receive" => responder[l].request = initiator[l].asked

(***************************************************************************)
(* Operations reach only a store that is Syncing, as the unreachable! of   *)
(* handle_received_ecg_operations says ("We must be syncing").             *)
(***************************************************************************)
OperationsOnlyWhileSyncing ==
  \A l \in Link : received[l] # <<>> /\ Head(received[l]).kind = "Operations" /\ Runs(Initiator(l)) =>
    store[Initiator(l)].phase = "Syncing"

PhaseOrder ==
  [p \in Phase |-> CASE p = "DownloadingMetadata" -> 1 [] p = "DownloadingMerkle" -> 2
                     [] p = "DownloadingInitialState" -> 3 [] OTHER -> 4]

(***************************************************************************)
(* What a store has got it keeps: its phase never goes back and no         *)
(* operation is lost, by whatever Received* handler.                       *)
(***************************************************************************)
NothingIsLost ==
  [][\A d \in Device :
       /\ PhaseOrder[store[d].phase] <= PhaseOrder[store'[d].phase]
       /\ store[d].ecg \subseteq store'[d].ecg]_vars

(***************************************************************************)
(* Every device gets the store: told to wait, a device is in the end given *)
(* what it waits for.                                                      *)
(***************************************************************************)
EveryoneGetsTheStore == \A d \in Device : <>(store[d].phase = "Syncing")

(***************************************************************************)
(* Every device gets the store, and in the end all have the operations     *)
(* that any application applied.                                           *)
(***************************************************************************)
EventuallyShared ==
  <>[](\A d, e \in Device : store[d].phase = "Syncing" /\ store[d].ecg = store[e].ecg)
=============================================================================
