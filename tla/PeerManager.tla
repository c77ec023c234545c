---------------------------- MODULE PeerManager ----------------------------
(* How two devices find out which stores they share, and set up a stream   *)
(* for each direction in which such a store is synchronised.               *)
(*                                                                          *)
(* A connection runs two managers (protocol/manager/v0.rs): the one named   *)
(* "Client" is led by the end that dialled, "Server" by the end that        *)
(* accepted.  The leading end advertises its stores and asks for streams;   *)
(* the other answers.  The stores of a device (store/mod.rs) keep for each  *)
(* peer an incoming and an outgoing status and are driven by commands.      *)
(* One action is the work of one task between two awaits.                   *)
EXTENDS Naturals, Sequences, FiniteSets

CONSTANTS
    Device,             \* the devices
    Opens,              \* [Device -> SUBSET Nat]: the stores its applications open
    Dials,              \* the pairs <<client, server>> that connect, once each
    MaxAdvertiseStores  \* MAX_ADVERTISE_STORES, 256 in the code

Store == UNION {Opens[d] : d \in Device}
Party == {"Client", "Server"}
Dual(p) == IF p = "Client" THEN "Server" ELSE "Client"

ASSUME PeerManagerAssumption ==
    /\ Opens \in [Device -> SUBSET Nat]
    /\ Dials \subseteq Device \X Device
    /\ MaxAdvertiseStores \in Nat \ {0}

VARIABLES
    active,         \* active_stores of each device
    end,            \* the state of each end of a connection
    lost,           \* what the client's handshake has read and thrown away
    peer_state,     \* the connection each device has recorded for a peer
    commands,       \* the queue to the manager a device leads, per peer
    leader,         \* the manager task with initiative, per connection
    follower,       \* the manager task without
    wire,           \* the message under way between the two
    changed,        \* active_stores has changed since the leader looked
    streams,        \* stream_map of each end, but for streams 0, 1 and 2
    peers,          \* the statuses a store keeps
    queue,          \* the commands sent to a store
    panicked        \* the stores that ended with "Invariant violated"

connVars == <<end, lost, peer_state>>
managerVars == <<leader, follower, wire, changed, streams>>
storeVars == <<peers, queue, panicked>>
vars == <<active, connVars, commands, managerVars, storeVars>>

NoConnection == <<>>
NoMessage == [kind |-> "None"]
Advertise(list) == [kind |-> "AdvertiseStores", stores |-> list]
HaveStores(bits) == [kind |-> "AdvertiseStoresResponse", have |-> bits]
CreateStoreStream(id, s) == [kind |-> "CreateStoreStream", id |-> id, store |-> s]
CreateStoreResponse(accept) == [kind |-> "CreateStoreResponse", accept |-> accept]

DeviceAt(c, p) == IF p = "Client" THEN c[1] ELSE c[2]
PeerAt(c, p) == DeviceAt(c, Dual(p))
Leads(c, m) == end[c][m] = "running"        \* manager m has its leading end
Follows(c, m) == end[c][Dual(m)] = "running"

\* Mutant: both ends count from the same id.
BothStartAtOne(m) == 1
FirstStreamId(m) == IF m = "Client" THEN 1 ELSE 2
is_valid_stream_id(m, id) == id % 2 = (IF m = "Client" THEN 1 ELSE 0)

Running(d) == {s \in Opens[d] : active[d][s] = "Running"}

(* The first running stores, and the lists of them in the order of their    *)
(* ids (there is one): active_stores is a BTreeMap.                         *)
Advertised(d) ==
    {s \in Running(d) : Cardinality({t \in Running(d) : t < s}) < MaxAdvertiseStores}
ListsOf(stores) ==
    {list \in UNION {[1 .. n -> stores] : n \in 0 .. MaxAdvertiseStores} :
        /\ stores = {list[i] : i \in DOMAIN list}
        /\ \A i, j \in DOMAIN list : i < j => list[i] < list[j]}

(* A bitmap is the set of its positions; StoresAt is what a list has there. *)
StoresAt(list, bits) == {list[i] : i \in bits \cap DOMAIN list}

(* The positions in their list of stores we run, but for repetitions.       *)
HavePositions(list, ours) ==
    {i \in DOMAIN list : list[i] \in ours /\ \A j \in 1 .. i - 1 : list[j] # list[i]}

Init ==
    /\ active = [d \in Device |-> [s \in Opens[d] |-> "Absent"]]
    /\ end = [c \in Dials |-> [p \in Party |-> "none"]]
    /\ lost = [c \in Dials |-> "nothing"]
    /\ peer_state = [d \in Device |-> [e \in Device |-> NoConnection]]
    /\ commands = [d \in Device |-> [e \in Device |-> <<>>]]
    /\ leader = [c \in Dials |-> [m \in Party |->
                    [at |-> "start", stores |-> <<>>, store |-> 0, latest |-> FirstStreamId(m)]]]
    /\ follower = [c \in Dials |-> [m \in Party |-> [at |-> "loop", store |-> 0, id |-> 0]]]
    /\ wire = [c \in Dials |-> [m \in Party |-> NoMessage]]
    /\ changed = [c \in Dials |-> [m \in Party |-> FALSE]]
    /\ streams = [c \in Dials |-> [p \in Party |-> {}]]
    /\ peers = [d \in Device |-> [s \in Opens[d] |->
                    [e \in Device |-> [incoming |-> "Unknown", outgoing |-> "Unknown"]]]]
    /\ queue = [d \in Device |-> [s \in Opens[d] |-> <<>>]]
    /\ panicked = {}

-----------------------------------------------------------------------------
(* Applications open stores.  The first step tells nobody, the second wakes *)
(* every manager the device leads.                                          *)

OpenStore(d, s) ==
    /\ active[d][s] = "Absent"
    /\ active' = [active EXCEPT ![d][s] = "Initializing"]
    /\ UNCHANGED <<connVars, commands, managerVars, storeVars>>

\* Mutant: the managers are not woken.
LaunchQuietly(d, s) ==
    /\ active[d][s] = "Initializing"
    /\ active' = [active EXCEPT ![d][s] = "Running"]
    /\ UNCHANGED <<connVars, commands, managerVars, storeVars>>
launch_store(d, s) ==
    /\ active[d][s] = "Initializing"
    /\ active' = [active EXCEPT ![d][s] = "Running"]
    /\ changed' = [c \in Dials |-> [m \in Party |-> changed[c][m] \/ DeviceAt(c, m) = d]]
    /\ UNCHANGED <<connVars, commands, leader, follower, wire, streams, storeVars>>

-----------------------------------------------------------------------------
(* Connections. *)

Dial(c) ==
    /\ end[c]["Client"] = "none"
    /\ end' = [end EXCEPT ![c] = [Client |-> "waiting", Server |-> "accepted"]]
    /\ UNCHANGED <<active, lost, peer_state, commands, managerVars, storeVars>>

run_handshake_server(c) ==
    /\ end[c]["Server"] = "accepted"
    /\ end' = [end EXCEPT ![c]["Server"] = IF c[1] = c[2] THEN "closed" ELSE "shaken"]
    /\ UNCHANGED <<active, lost, peer_state, commands, managerVars, storeVars>>

(* The handshake is read through a buffer that is dropped with whatever of  *)
(* the server's first message it holds: a part, or all of it.               *)
run_handshake_client(c) ==
    /\ end[c]["Client"] = "waiting" /\ end[c]["Server"] \notin {"none", "accepted"}
    /\ \/ /\ end' = [end EXCEPT ![c]["Client"] = IF c[1] = c[2] THEN "closed" ELSE "shaken"]
          /\ UNCHANGED <<lost, wire>>
       \/ /\ wire[c]["Server"] # NoMessage
          /\ wire' = [wire EXCEPT ![c]["Server"] = NoMessage]
          /\ end' = [end EXCEPT ![c]["Client"] = "shaken"]
          /\ \E what \in {"message", "part"} : lost' = [lost EXCEPT ![c] = what]
    /\ UNCHANGED <<active, peer_state, commands, leader, follower, changed, streams, storeVars>>

(* The peer is recorded before the connection is used.  If the client has   *)
(* lost a part of a message, the rest makes no sense to its multiplexer.    *)
initiate_peer(c, p) ==
    LET d == DeviceAt(c, p) peer == PeerAt(c, p) IN
    /\ end[c][p] = "shaken"
    /\ IF peer_state[d][peer] = NoConnection
       THEN /\ peer_state' = [peer_state EXCEPT ![d][peer] = c]
            /\ end' = [end EXCEPT ![c][p] =
                    IF p = "Client" /\ lost[c] = "part" THEN "failed" ELSE "running"]
       ELSE /\ end' = [end EXCEPT ![c][p] = "closed"]
            /\ UNCHANGED peer_state
    /\ UNCHANGED <<active, lost, commands, managerVars, storeVars>>

-----------------------------------------------------------------------------
(* Advertisement. *)

RegisterPeers(peer) == [kind |-> "RegisterPeers", peer |-> peer]
SyncWithPeer(peer, c, m) == [kind |-> "SyncWithPeer", peer |-> peer, reply |-> <<c, m>>]
RegisterOutgoing(peer) == [kind |-> "RegisterOutgoingPeerSyncing", peer |-> peer]
RegisterIncoming(peer) == [kind |-> "RegisterIncomingPeerSyncing", peer |-> peer]

(* The queues of device d after cmd has been sent to each of its stores. *)
SentTo(d, stores, cmd) ==
    [queue EXCEPT ![d] = [s \in Opens[d] |->
        IF s \in stores THEN Append(queue[d][s], cmd) ELSE queue[d][s]]]

handle_shared_stores(d, peer, stores) == queue' = SentTo(d, stores, RegisterPeers(peer))

(* At the start and whenever active_stores changes.  A client sleeps before *)
(* it starts, which only takes time.                                        *)
AdvertiseStores(c, m) ==
    /\ Leads(c, m)
    /\ \/ leader[c][m].at = "start"
       \/ leader[c][m].at = "loop" /\ changed[c][m]
    /\ \E list \in ListsOf(Advertised(DeviceAt(c, m))) :
       /\ leader' = [leader EXCEPT ![c][m].at = "advertising", ![c][m].stores = list]
       /\ wire' = [wire EXCEPT ![c][m] = Advertise(list)]
    /\ changed' = [changed EXCEPT ![c][m] = FALSE]
    /\ UNCHANGED <<active, connVars, commands, follower, streams, storeVars>>

(* The follower sets the bits of the stores that it runs as well.           *)
run_advertise_stores_client(c, m) ==
    LET d == PeerAt(c, m)
        list == wire[c][m].stores
        bits == HavePositions(list, Running(d)) IN
    /\ Follows(c, m) /\ follower[c][m].at = "loop"
    /\ wire[c][m].kind = "AdvertiseStores"
    /\ wire' = [wire EXCEPT ![c][m] = HaveStores(bits)]
    /\ handle_shared_stores(d, DeviceAt(c, m), StoresAt(list, bits))
    /\ UNCHANGED <<active, connVars, commands, leader, follower, changed, streams, peers, panicked>>

\* Mutant: the bits are matched with the stores that run by now.
MatchesNewList(c, m) ==
    /\ Leads(c, m) /\ leader[c][m].at = "advertising"
    /\ wire[c][m].kind = "AdvertiseStoresResponse"
    /\ wire' = [wire EXCEPT ![c][m] = NoMessage]
    /\ leader' = [leader EXCEPT ![c][m].at = "loop", ![c][m].stores = <<>>]
    /\ \E list \in ListsOf(Advertised(DeviceAt(c, m))) :
        handle_shared_stores(DeviceAt(c, m), PeerAt(c, m), StoresAt(list, wire[c][m].have))
    /\ UNCHANGED <<active, connVars, commands, follower, changed, streams, peers, panicked>>
(* The leader matches the bits with the list it has kept.                   *)
run_advertise_stores_server(c, m) ==
    /\ Leads(c, m) /\ leader[c][m].at = "advertising"
    /\ wire[c][m].kind = "AdvertiseStoresResponse"
    /\ wire' = [wire EXCEPT ![c][m] = NoMessage]
    /\ leader' = [leader EXCEPT ![c][m].at = "loop", ![c][m].stores = <<>>]
    /\ handle_shared_stores(DeviceAt(c, m), PeerAt(c, m), StoresAt(leader[c][m].stores, wire[c][m].have))
    /\ UNCHANGED <<active, connVars, commands, follower, changed, streams, peers, panicked>>

-----------------------------------------------------------------------------
(* Creation of a stream, asked by the leading end. *)

(* The multiplexer of end p of c starts task for stream id of store s.  The *)
(* task tells its store, even if the id turns out to be taken.              *)
StreamIds(c, p) == {st.id : st \in streams[c][p]}
CreateStream(c, p, id, s, task) ==
    /\ streams' = [streams EXCEPT ![c][p] =
            IF id \in StreamIds(c, p) THEN @
            ELSE @ \cup {[id |-> id, store |-> s, task |-> task]}]
    /\ queue' = SentTo(DeviceAt(c, p), {s},
            IF task = "server" THEN RegisterOutgoing(PeerAt(c, p)) ELSE RegisterIncoming(PeerAt(c, p)))

\* Mutant: the other manager's ids are used too.
NextIdOfEither(c, m) == leader[c][m].latest + 1
next_stream_id(c, m) == leader[c][m].latest + 2

\* Mutant: the leader creates its end before the answer.
RequestCreatesStream(c, m) ==
    LET d == DeviceAt(c, m) peer == PeerAt(c, m) IN
    /\ Leads(c, m) /\ leader[c][m].at = "loop"
    /\ commands[d][peer] # <<>>
    /\ leader' = [leader EXCEPT ![c][m].at = "requesting",
                                ![c][m].latest = next_stream_id(c, m),
                                ![c][m].store = Head(commands[d][peer])]
    /\ wire' = [wire EXCEPT ![c][m] =
            CreateStoreStream(next_stream_id(c, m), Head(commands[d][peer]))]
    /\ CreateStream(c, m, next_stream_id(c, m), Head(commands[d][peer]), "server")
    /\ commands' = [commands EXCEPT ![d][peer] = Tail(@)]
    /\ UNCHANGED <<active, connVars, follower, changed, peers, panicked>>
RequestStoreStream(c, m) ==
    LET d == DeviceAt(c, m) peer == PeerAt(c, m) IN
    /\ Leads(c, m) /\ leader[c][m].at = "loop"
    /\ commands[d][peer] # <<>>
    /\ leader' = [leader EXCEPT ![c][m].at = "requesting",
                                ![c][m].latest = next_stream_id(c, m),
                                ![c][m].store = Head(commands[d][peer])]
    /\ wire' = [wire EXCEPT ![c][m] =
            CreateStoreStream(next_stream_id(c, m), Head(commands[d][peer]))]
    /\ commands' = [commands EXCEPT ![d][peer] = Tail(@)]
    /\ UNCHANGED <<active, connVars, follower, changed, streams, storeVars>>

(* The follower asks the store, unless the id is not the leader's to give   *)
(* or the store does not run.                                               *)
run_request_new_stream_client(c, m) ==
    LET d == PeerAt(c, m) req == wire[c][m] IN
    /\ Follows(c, m) /\ follower[c][m].at = "loop"
    /\ req.kind = "CreateStoreStream"
    /\ IF is_valid_stream_id(m, req.id) /\ req.store \in Running(d)
       THEN /\ queue' = SentTo(d, {req.store}, SyncWithPeer(DeviceAt(c, m), c, m))
            /\ follower' = [follower EXCEPT ![c][m] =
                    [at |-> "asking", store |-> req.store, id |-> req.id]]
            /\ wire' = [wire EXCEPT ![c][m] = NoMessage]
       ELSE /\ wire' = [wire EXCEPT ![c][m] = CreateStoreResponse(FALSE)]
            /\ UNCHANGED <<queue, follower>>
    /\ UNCHANGED <<active, connVars, commands, leader, changed, streams, peers, panicked>>

(* The store has consented (a task was given) or not. *)
FollowerCreatesStream(c, m) ==
    LET f == follower[c][m] p == Dual(m) IN
    /\ Follows(c, m)
    /\ \/ /\ f.at = "creating"
          /\ CreateStream(c, p, f.id, f.store, "client")
          /\ wire' = [wire EXCEPT ![c][m] = CreateStoreResponse(f.id \notin StreamIds(c, p))]
       \/ /\ f.at = "rejected"
          /\ wire' = [wire EXCEPT ![c][m] = CreateStoreResponse(FALSE)]
          /\ UNCHANGED <<streams, queue>>
    /\ follower' = [follower EXCEPT ![c][m] = [at |-> "loop", store |-> 0, id |-> 0]]
    /\ UNCHANGED <<active, connVars, commands, leader, changed, peers, panicked>>

(* Refused, or unable to create its own end, the leader's task ends. *)
run_request_new_stream_server(c, m) ==
    LET l == leader[c][m] IN
    /\ Leads(c, m) /\ l.at = "requesting"
    /\ wire[c][m].kind = "CreateStoreResponse"
    /\ wire' = [wire EXCEPT ![c][m] = NoMessage]
    /\ IF wire[c][m].accept
       THEN /\ CreateStream(c, m, l.latest, l.store, "server")
            /\ leader' = [leader EXCEPT ![c][m].at =
                    IF l.latest \in StreamIds(c, m) THEN "ended" ELSE "loop"]
       ELSE /\ leader' = [leader EXCEPT ![c][m].at = "ended"]
            /\ UNCHANGED <<streams, queue>>
    /\ UNCHANGED <<active, connVars, commands, follower, changed, peers, panicked>>

-----------------------------------------------------------------------------
(* The commands of a store. *)

\* Mutant: what is known of the peer is overwritten.
InsertOverwrites(info) == [incoming |-> "Known", outgoing |-> "Known"]
insert_known_peer(info) ==
    IF info.incoming = "Unknown" THEN [incoming |-> "Known", outgoing |-> "Known"] ELSE info

(* Stream requests go to the manager of every known peer that is connected. *)
\* Mutant: peers that are asked already are asked again.
AskAllPeers(d, s, known) ==
    LET chosen == {e \in Device : /\ known[e].outgoing \notin {"Unknown", "Syncing"}
                                  /\ peer_state[d][e] # NoConnection} IN
    /\ peers' = [peers EXCEPT ![d][s] = [e \in Device |->
            IF e \in chosen THEN [known[e] EXCEPT !.outgoing = "Initializing"] ELSE known[e]]]
    /\ commands' = [commands EXCEPT ![d] = [e \in Device |->
            IF e \in chosen THEN Append(commands[d][e], s) ELSE commands[d][e]]]
manage_peers(d, s, known) ==
    LET chosen == {e \in Device : /\ known[e].outgoing = "Known"
                                  /\ peer_state[d][e] # NoConnection} IN
    /\ peers' = [peers EXCEPT ![d][s] = [e \in Device |->
            IF e \in chosen THEN [known[e] EXCEPT !.outgoing = "Initializing"] ELSE known[e]]]
    /\ commands' = [commands EXCEPT ![d] = [e \in Device |->
            IF e \in chosen THEN Append(commands[d][e], s) ELSE commands[d][e]]]

(* Commands reach a store in the order sent. *)
Takes(d, s, kind) ==
    /\ active[d][s] = "Running" /\ <<d, s>> \notin panicked
    /\ queue[d][s] # <<>> /\ Head(queue[d][s]).kind = kind
    /\ queue' = [queue EXCEPT ![d][s] = Tail(@)]

HandleRegisterPeers(d, s) ==
    /\ Takes(d, s, "RegisterPeers")
    /\ manage_peers(d, s,
            [peers[d][s] EXCEPT ![Head(queue[d][s]).peer] = insert_known_peer(@)])
    /\ UNCHANGED <<active, connVars, managerVars, panicked>>

HandleSyncWithPeer(d, s) ==
    LET cmd == Head(queue[d][s])
        info == insert_known_peer(peers[d][s][cmd.peer])
        c == cmd.reply[1] m == cmd.reply[2] IN
    /\ Takes(d, s, "SyncWithPeer")
    /\ IF info.incoming = "Known"
       THEN /\ peers' = [peers EXCEPT ![d][s][cmd.peer] =
                            [info EXCEPT !.incoming = "Initializing"]]
            /\ follower' = [follower EXCEPT ![c][m].at = "creating"]
       ELSE /\ peers' = [peers EXCEPT ![d][s][cmd.peer] = info]
            /\ follower' = [follower EXCEPT ![c][m].at = "rejected"]
    /\ UNCHANGED <<active, connVars, commands, leader, wire, changed, streams, panicked>>

(* "Invariant violated" unless the status is Initializing. *)
update_peer_to_syncing(d, s, before, after) ==
    IF before = "Initializing"
    THEN peers' = [peers EXCEPT ![d][s] = after] /\ UNCHANGED panicked
    ELSE panicked' = panicked \cup {<<d, s>>} /\ UNCHANGED peers

HandleRegisterOutgoing(d, s) ==
    LET e == Head(queue[d][s]).peer info == peers[d][s] IN
    /\ Takes(d, s, "RegisterOutgoingPeerSyncing")
    /\ update_peer_to_syncing(d, s, info[e].outgoing, [info EXCEPT ![e].outgoing = "Syncing"])
    /\ UNCHANGED <<active, connVars, commands, managerVars>>

HandleRegisterIncoming(d, s) ==
    LET e == Head(queue[d][s]).peer info == peers[d][s] IN
    /\ Takes(d, s, "RegisterIncomingPeerSyncing")
    /\ update_peer_to_syncing(d, s, info[e].incoming, [info EXCEPT ![e].incoming = "Syncing"])
    /\ UNCHANGED <<active, connVars, commands, managerVars>>

-----------------------------------------------------------------------------
Application == \E d \in Device, s \in Store : s \in Opens[d] /\ OpenStore(d, s)
Launch == \E d \in Device, s \in Store : s \in Opens[d] /\ launch_store(d, s)
Dialling == \E c \in Dials : Dial(c)
Connecting(c) ==
    \/ run_handshake_server(c)
    \/ run_handshake_client(c)
    \/ \E p \in Party : initiate_peer(c, p)
Leading(c, m) ==
    \/ AdvertiseStores(c, m)
    \/ run_advertise_stores_server(c, m)
    \/ RequestStoreStream(c, m)
    \/ run_request_new_stream_server(c, m)
Following(c, m) ==
    \/ run_advertise_stores_client(c, m)
    \/ run_request_new_stream_client(c, m)
    \/ FollowerCreatesStream(c, m)
Handling(d, s) ==
    /\ s \in Opens[d]
    /\ \/ HandleRegisterPeers(d, s)
       \/ HandleSyncWithPeer(d, s)
       \/ HandleRegisterOutgoing(d, s)
       \/ HandleRegisterIncoming(d, s)

Tasks ==
    \/ Launch
    \/ \E c \in Dials : Connecting(c)
    \/ \E c \in Dials, m \in Party : Leading(c, m) \/ Following(c, m)
    \/ \E d \in Device, s \in Store : Handling(d, s)

Next == Application \/ Dialling \/ Tasks

(* Some task runs while one can.  Nobody need dial or open a store. *)
Fairness == WF_vars(Tasks)

Spec == Init /\ [][Next]_vars /\ Fairness

-----------------------------------------------------------------------------
(* Types. *)
Status == {"Unknown", "Known", "Initializing", "Syncing"}
Message ==
    {NoMessage}
    \cup [kind : {"AdvertiseStores"}, stores : Seq(Store)]
    \cup [kind : {"AdvertiseStoresResponse"}, have : SUBSET (1 .. MaxAdvertiseStores)]
    \cup [kind : {"CreateStoreStream"}, id : Nat, store : Store]
    \cup [kind : {"CreateStoreResponse"}, accept : BOOLEAN]
TypeOK ==
    /\ \A d \in Device : active[d] \in [Opens[d] -> {"Absent", "Initializing", "Running"}]
    /\ end \in [Dials -> [Party ->
            {"none", "waiting", "accepted", "shaken", "running", "closed", "failed"}]]
    /\ lost \in [Dials -> {"nothing", "message", "part"}]
    /\ peer_state \in [Device -> [Device -> Dials \cup {NoConnection}]]
    /\ \A d, e \in Device : commands[d][e] \in Seq(Opens[d])
    /\ \A c \in Dials, m \in Party :
        /\ leader[c][m].at \in {"start", "advertising", "loop", "requesting", "ended"}
        /\ leader[c][m].latest % 2 = FirstStreamId(m) % 2
        /\ follower[c][m].at \in {"loop", "asking", "creating", "rejected"}
        /\ wire[c][m] \in Message
        /\ changed[c][m] \in BOOLEAN
        /\ streams[c][m] \subseteq [id : Nat, store : Store, task : {"server", "client"}]
    /\ \A d \in Device : \A s \in Opens[d] :
        /\ peers[d][s] \in [Device -> [incoming : Status, outgoing : Status]]
        /\ \A i \in DOMAIN queue[d][s] : queue[d][s][i].peer \in Device \ {d}

-----------------------------------------------------------------------------
(* Properties. *)

Places(seq, x) == Cardinality({i \in DOMAIN seq : seq[i] = x})
Asking(d, s, e) ==
    Cardinality({x \in Dials \X Party : /\ DeviceAt(x[1], x[2]) = d /\ PeerAt(x[1], x[2]) = e
                                        /\ leader[x[1]][x[2]].at = "requesting"
                                        /\ leader[x[1]][x[2]].store = s})
Creating(d, s, e) ==
    Cardinality({x \in Dials \X Party : /\ DeviceAt(x[1], x[2]) = e /\ PeerAt(x[1], x[2]) = d
                                        /\ follower[x[1]][x[2]].at = "creating"
                                        /\ follower[x[1]][x[2]].store = s})

(* A peer that a store has marked as initializing is the subject of exactly *)
(* one request on its way: a command to the manager, a request of the       *)
(* manager or a new task's registration; any other peer is of none.  A lost *)
(* request would leave the status initializing for ever, a second one would *)
(* end the store (update_peer_to_syncing, store/mod.rs:294).                *)
OneRequestPerStatus ==
    \A d \in Device : \A s \in Opens[d], e \in Device :
        LET out == Places(commands[d][e], s) + Asking(d, s, e)
                    + Places(queue[d][s], RegisterOutgoing(e))
            in == Creating(d, s, e) + Places(queue[d][s], RegisterIncoming(e)) IN
        /\ out = IF peers[d][s][e].outgoing = "Initializing" THEN 1 ELSE 0
        /\ in = IF peers[d][s][e].incoming = "Initializing" THEN 1 ELSE 0

(* No manager's task ends in "Restore status to Known" (manager/v0.rs:280)  *)
(* or for an id that is taken, and no store in "Invariant violated": what   *)
(* either side knew when it asked still holds when the other answers.       *)
NobodyGivesUp ==
    /\ panicked = {}
    /\ \A c \in Dials, m \in Party : leader[c][m].at # "ended"

(* The task that speaks first on a stream finds its counterpart running for *)
(* the same store: the multiplexer has an entry for every message it reads  *)
(* (multiplexer.rs:266), though both ends hand out ids at the same time.    *)
StreamsHaveTwoEnds ==
    \A c \in Dials, p \in Party : \A st \in streams[c][p] :
        /\ \A su \in streams[c][p] : su.id = st.id => su = st
        /\ st.task = "server" => [st EXCEPT !.task = "client"] \in streams[c][Dual(p)]

StreamIdsUsed == UNION {StreamIds(c, p) : c \in Dials, p \in Party}

(* A store is synchronised with a peer at most once in each direction, over *)
(* whatever connections there are (manage_peers: "Don't connect to peers    *)
(* we're already syncing with.").                                           *)
OneStreamPerDirection ==
    \A d, e \in Device, s \in Store, t \in {"server", "client"} :
        Cardinality({x \in Dials \X Party \X StreamIdsUsed :
            /\ DeviceAt(x[1], x[2]) = d /\ PeerAt(x[1], x[2]) = e
            /\ [id |-> x[3], store |-> s, task |-> t] \in streams[x[1]][x[2]]}) <= 1

(* A store regards as its peers only devices that run the same store.  The  *)
(* stores shared are told by bits for the positions of a list, matched with *)
(* the list after an await (manager/v0.rs:389-402): stores that are         *)
(* launched meanwhile shift what runs by then, not what the bits refer to.  *)
PeersRunTheStore ==
    \A d \in Device : \A s \in Opens[d], e \in Device :
        peers[d][s][e].outgoing # "Unknown" => s \in Opens[e] /\ active[e][s] = "Running"

(* manage_peers: "For now, sync with all (connected?) peers."  In the end,  *)
(* two devices that are connected synchronise a store they run in both      *)
(* directions, if both advertise it: whichever launches it last must, since *)
(* the other one does not repeat itself.                                    *)
AlwaysAdvertised(d, s) == Cardinality({t \in Opens[d] : t < s}) < MaxAdvertiseStores
SharedOver(c, s) ==
    /\ end[c]["Client"] = "running" /\ end[c]["Server"] = "running"
    /\ \A p \in Party : s \in Running(DeviceAt(c, p)) /\ AlwaysAdvertised(DeviceAt(c, p), s)
SyncedOver(c, s) ==
    \A p \in Party :
        /\ s \in Opens[DeviceAt(c, p)]
        /\ peers[DeviceAt(c, p)][s][PeerAt(c, p)] = [incoming |-> "Syncing", outgoing |-> "Syncing"]
SyncsWithConnectedPeers ==
    <>[](\A c \in Dials, s \in Store : SharedOver(c, s) => SyncedOver(c, s))

(* The same where the client's handshake has lost nothing. *)
SyncsUnlessHandshakeLoses ==
    <>[](\A c \in Dials, s \in Store :
            (SharedOver(c, s) /\ lost[c] = "nothing") => SyncedOver(c, s))
=============================================================================
