-------------------------- MODULE PeerManagerProofs --------------------------
(* Theorems about how streams come to be (module PeerManager), for every    *)
(* set of devices, stores and connections and every size of advertisement.  *)
EXTENDS PeerManager, FiniteSetTheorems, TLAPS

EndState == {"none", "waiting", "accepted", "shaken", "running", "closed", "failed"}
LeaderState ==
    [at : {"start", "advertising", "loop", "requesting", "ended"},
     stores : Seq(Nat), store : Nat, latest : Nat]
FollowerState == [at : {"loop", "asking", "creating", "rejected"}, store : Nat, id : Nat]
Stream == [id : Nat, store : Store, task : {"server", "client"}]
Command ==
    [kind : {"RegisterPeers", "RegisterOutgoingPeerSyncing", "RegisterIncomingPeerSyncing"},
     peer : Device]
    \cup [kind : {"SyncWithPeer"}, peer : Device, reply : Dials \X Party]
Anything ==
    {NoMessage}
    \cup [kind : {"AdvertiseStores"}, stores : Seq(Nat)]
    \cup [kind : {"AdvertiseStoresResponse"}, have : SUBSET (1 .. MaxAdvertiseStores)]
    \cup [kind : {"CreateStoreStream"}, id : Nat, store : Nat]
    \cup [kind : {"CreateStoreResponse"}, accept : BOOLEAN]

EndTypes ==
    /\ end \in [Dials -> [Party -> EndState]]
    /\ lost \in [Dials -> {"nothing", "message", "part"}]
    /\ peer_state \in [Device -> [Device -> Dials \cup {NoConnection}]]
ManagerTypes ==
    /\ leader \in [Dials -> [Party -> LeaderState]]
    /\ follower \in [Dials -> [Party -> FollowerState]]
    /\ wire \in [Dials -> [Party -> Anything]]
    /\ changed \in [Dials -> [Party -> BOOLEAN]]
    /\ streams \in [Dials -> [Party -> SUBSET Stream]]
    /\ commands \in [Device -> [Device -> Seq(Nat)]]
ActiveTypes ==
    /\ active = [d \in Device |-> active[d]]
    /\ \A d \in Device : active[d] \in [Opens[d] -> {"Absent", "Initializing", "Running"}]
StoreTypes ==
    /\ peers = [d \in Device |-> peers[d]]
    /\ \A d \in Device : peers[d] \in [Opens[d] -> [Device -> [incoming : Status, outgoing : Status]]]
    /\ queue = [d \in Device |-> queue[d]]
    /\ \A d \in Device : queue[d] \in [Opens[d] -> Seq(Command)]
    /\ panicked = {}
Types == EndTypes /\ ManagerTypes /\ ActiveTypes /\ StoreTypes

(* A connection at whose end managers run is the one the device has         *)
(* recorded for its peer, so there is one at most.                          *)
Connected ==
    \A c \in Dials, p \in Party :
        /\ end[c][p] \in {"shaken", "running"} => c[1] # c[2]
        /\ end[c][p] = "running" => peer_state[DeviceAt(c, p)][PeerAt(c, p)] = c
        /\ end[c]["Client"] = "none" => end[c]["Server"] = "none"

Runs(d, s) == s \in Opens[d] /\ active[d][s] = "Running"

(* The conversation of two managers, by what the leader is about.  Bits are *)
(* for positions of the list the leader has kept.                           *)
Advertising(c, m) ==
    LET l == leader[c][m] w == wire[c][m] IN
    /\ \A i \in DOMAIN l.stores : Runs(DeviceAt(c, m), l.stores[i])
    /\ \/ w.kind = "None"
       \/ /\ w.kind = "AdvertiseStores" /\ w.stores = l.stores
          /\ DOMAIN w.stores \subseteq 1 .. MaxAdvertiseStores
       \/ /\ w.kind = "AdvertiseStoresResponse" /\ Follows(c, m)
          /\ \A i \in w.have : i \in DOMAIN l.stores /\ Runs(PeerAt(c, m), l.stores[i])
Requesting(c, m) ==
    LET l == leader[c][m] f == follower[c][m] w == wire[c][m] IN
    /\ l.store \in Opens[DeviceAt(c, m)]
    /\ \/ /\ f.at = "loop" /\ w.kind = "CreateStoreStream"
          /\ w.id = l.latest /\ w.store = l.store
       \/ /\ f.at \in {"asking", "creating"} /\ w.kind = "None"
          /\ f.id = l.latest /\ f.store = l.store
       \/ f.at = "loop" /\ w.kind = "CreateStoreResponse" /\ w.accept
Talk(c, m) ==
    LET l == leader[c][m] IN
    /\ l.at # "ended" /\ follower[c][m].at # "rejected"
    /\ l.at # "start" => Leads(c, m)
    /\ l.at \in {"loop", "requesting"} => Follows(c, m)
    /\ l.at # "requesting" => follower[c][m].at = "loop"
    /\ l.at \in {"start", "loop"} => wire[c][m].kind = "None"
    /\ l.at = "advertising" => Advertising(c, m)
    /\ l.at = "requesting" => Requesting(c, m)
Conversations == \A c \in Dials, m \in Party : Talk(c, m)

(* A store knows only peers that run it, and so do those who send it        *)
(* commands.                                                                *)
KnownRuns ==
    \A d \in Device : \A s \in Opens[d] : \A e \in Device :
        /\ peers[d][s][e].incoming = "Unknown" <=> peers[d][s][e].outgoing = "Unknown"
        /\ peers[d][s][e].incoming # "Unknown" => d # e /\ Runs(d, s) /\ Runs(e, s)
CommandsRun ==
    \A d \in Device : \A s \in Opens[d] : \A i \in DOMAIN queue[d][s] :
        LET cmd == queue[d][s][i] IN
        /\ d # cmd.peer /\ Runs(d, s) /\ Runs(cmd.peer, s)
        /\ cmd.kind = "SyncWithPeer" =>
            cmd.peer = DeviceAt(cmd.reply[1], cmd.reply[2]) /\ d = PeerAt(cmd.reply[1], cmd.reply[2])

(* The requests of OneRequestPerStatus, with at most one leader and one     *)
(* follower for each pair of devices.                                       *)
One(P) == IF P THEN 1 ELSE 0
Asks(d, s, e) ==
    \E c \in Dials, m \in Party : /\ DeviceAt(c, m) = d /\ PeerAt(c, m) = e
                                  /\ leader[c][m].at = "requesting" /\ leader[c][m].store = s
Creates(d, s, e) ==
    \E c \in Dials, m \in Party : /\ DeviceAt(c, m) = e /\ PeerAt(c, m) = d
                                  /\ follower[c][m].at = "creating" /\ follower[c][m].store = s
OutgoingOnce ==
    \A d \in Device : \A s \in Opens[d] : \A e \in Device :
        Places(commands[d][e], s) + One(Asks(d, s, e)) + Places(queue[d][s], RegisterOutgoing(e))
            = One(peers[d][s][e].outgoing = "Initializing")
IncomingOnce ==
    \A d \in Device : \A s \in Opens[d] : \A e \in Device :
        One(Creates(d, s, e)) + Places(queue[d][s], RegisterIncoming(e))
            = One(peers[d][s][e].incoming = "Initializing")
AskingOnce ==
    \A c \in Dials, m \in Party : \A s \in Opens[PeerAt(c, m)] :
        Places(queue[PeerAt(c, m)][s], SyncWithPeer(DeviceAt(c, m), c, m))
            = One(follower[c][m].at = "asking" /\ follower[c][m].store = s)

(* Managers are asked only for stores of their device. *)
CommandsOpen ==
    \A d, e \in Device : \A i \in DOMAIN commands[d][e] : commands[d][e][i] \in Opens[d]

(* A store has consented only to what it has been asked. *)
NotAsked(d, s, e) ==
    \/ peers[d][s][e].outgoing \in {"Unknown", "Known"}
    \/ Places(commands[d][e], s) # 0
    \/ \E c \in Dials, m \in Party :
            /\ DeviceAt(c, m) = d /\ PeerAt(c, m) = e
            /\ leader[c][m].at = "requesting" /\ leader[c][m].store = s
            /\ follower[c][m].at # "creating" /\ wire[c][m].kind # "CreateStoreResponse"
ConsentIsAsked ==
    \A d, e \in Device : \A s \in Opens[d] \cap Opens[e] :
        NotAsked(d, s, e) => peers[e][s][d].incoming \in {"Unknown", "Known"}

(* Ids come from the leader, in its own parity, and each is new.            *)
Fresh(c, m) ==
    LET l == leader[c][m] IN
    /\ l.latest % 2 = FirstStreamId(m) % 2
    /\ \A st \in streams[c][m] : st.task = "server" =>
        /\ st.id % 2 = FirstStreamId(m) % 2
        /\ st.id <= l.latest /\ (l.at = "requesting" => st.id # l.latest)
        /\ [id |-> st.id, store |-> st.store, task |-> "client"] \in streams[c][Dual(m)]
    /\ \A st \in streams[c][Dual(m)] : st.task = "client" =>
        /\ st.id % 2 = FirstStreamId(m) % 2
        /\ st.id <= l.latest
        /\ l.at = "requesting" /\ wire[c][m].kind # "CreateStoreResponse" => st.id # l.latest
    /\ wire[c][m].kind = "CreateStoreResponse" =>
        [id |-> l.latest, store |-> l.store, task |-> "client"] \in streams[c][Dual(m)]
StreamsOK ==
    /\ \A c \in Dials, m \in Party : Fresh(c, m)
    /\ \A c \in Dials, p \in Party : \A st, su \in streams[c][p] : st.id = su.id => st = su

IInv ==
    /\ Types
    /\ Connected
    /\ Conversations
    /\ KnownRuns
    /\ CommandsRun
    /\ CommandsOpen
    /\ OutgoingOnce
    /\ IncomingOnce
    /\ AskingOnce
    /\ ConsentIsAsked
    /\ StreamsOK

(* A store is served, or fed, by the stream it has or is told of. *)
Served(d, s, e) == peers[d][s][e].outgoing = "Syncing" \/ Places(queue[d][s], RegisterOutgoing(e)) # 0
Fed(d, s, e) == peers[d][s][e].incoming = "Syncing" \/ Places(queue[d][s], RegisterIncoming(e)) # 0

(* So it has one stream at most: a second is asked for or consented to only *)
(* for a peer that is initializing.                                         *)
Sole(c, p, st) ==
    /\ end[c][p] = "running" /\ st.store \in Opens[DeviceAt(c, p)]
    /\ st.task = "server" => Served(DeviceAt(c, p), st.store, PeerAt(c, p))
    /\ st.task = "client" => Fed(DeviceAt(c, p), st.store, PeerAt(c, p))
    /\ \A su \in streams[c][p] : su.task = st.task /\ su.store = st.store => su = st
SoleStreams == \A c \in Dials, p \in Party : \A st \in streams[c][p] : Sole(c, p, st)
-----------------------------------------------------------------------------
(* How often something is in a queue. *)

LEMMA PlacesFinite ==
    ASSUME NEW S, NEW seq \in Seq(S), NEW x
    PROVE  /\ IsFiniteSet({i \in DOMAIN seq : seq[i] = x})
           /\ Places(seq, x) \in Nat
           /\ Places(seq, x) = 0 <=> \A i \in DOMAIN seq : seq[i] # x
<1> DEFINE P == {i \in DOMAIN seq : seq[i] = x}
<1>1. IsFiniteSet(1..Len(seq))
    BY FS_Interval
<1>2. IsFiniteSet(P)
    <2>1. P \in SUBSET (1..Len(seq))
        OBVIOUS
    <2> QED
        BY <1>1, <2>1, FS_Subset
<1>3. Cardinality(P) \in Nat
    BY <1>2, FS_CardinalityType
<1>4. Cardinality(P) = 0 <=> P = {}
    BY <1>2, FS_EmptySet
<1> QED
    BY <1>2, <1>3, <1>4 DEF Places

(* A command sent adds a place of its own and no other.                     *)
LEMMA PlacesAppend ==
    ASSUME NEW S, NEW seq \in Seq(S), NEW y \in S, NEW x
    PROVE  Places(Append(seq, y), x) = IF x = y THEN Places(seq, x) + 1 ELSE Places(seq, x)
<1> DEFINE P == {i \in DOMAIN seq : seq[i] = x}
           Q == {i \in DOMAIN Append(seq, y) : Append(seq, y)[i] = x}
           n == Len(seq) + 1
<1>1. IsFiniteSet(P) /\ Cardinality(P) \in Nat
    BY PlacesFinite, FS_CardinalityType
<1>0. Places(seq, x) = Cardinality(P) /\ Places(Append(seq, y), x) = Cardinality(Q)
    BY DEF Places
<1>2. n \notin P
    OBVIOUS
<1>3. CASE x = y
    <2>1. Q = P \cup {n}
        BY <1>3
    <2>2. Cardinality(Q) = Cardinality(P) + 1
        BY <1>1, <1>2, <2>1, FS_AddElement
    <2> HIDE DEF P, Q
    <2> QED
        BY <1>0, <1>3, <2>2
<1>4. CASE x # y
    <2>1. Q = P
        BY <1>4
    <2> HIDE DEF P, Q
    <2> QED
        BY <1>0, <1>1, <1>4, <2>1
<1> QED
    BY <1>3, <1>4

(* A command taken gives up its place, the first.                           *)
LEMMA PlacesTail ==
    ASSUME NEW S, NEW seq \in Seq(S), seq # <<>>, NEW x
    PROVE  Places(seq, x) = IF Head(seq) = x THEN Places(Tail(seq), x) + 1 ELSE Places(Tail(seq), x)
<1> DEFINE P == {i \in DOMAIN seq : seq[i] = x}
           Q == {i \in DOMAIN Tail(seq) : Tail(seq)[i] = x}
           f == [i \in Q |-> i + 1]
<1>1. IsFiniteSet(P) /\ IsFiniteSet(Q) /\ Cardinality(P) \in Nat /\ Cardinality(Q) \in Nat
    <2>1. Tail(seq) \in Seq(S)
        OBVIOUS
    <2> QED
        BY <2>1, PlacesFinite, FS_CardinalityType
<1>2. Len(seq) \in Nat /\ Len(seq) > 0 /\ DOMAIN seq = 1..Len(seq) /\ DOMAIN Tail(seq) = 1..(Len(seq) - 1)
      /\ \A i \in 1..(Len(seq) - 1) : Tail(seq)[i] = seq[i + 1]
      /\ Head(seq) = seq[1]
    OBVIOUS
<1>3. f \in Bijection(Q, P \ {1})
    <2>1. f \in [Q -> P \ {1}]
        BY <1>2
    <2>2. \A i, j \in Q : f[i] = f[j] => i = j
        BY <1>2
    <2>3. \A k \in P \ {1} : \E i \in Q : f[i] = k
        <3> TAKE k \in P \ {1}
        <3>1. k - 1 \in Q /\ f[k - 1] = k
            BY <1>2
        <3> QED
            BY <3>1
    <2> HIDE DEF f, P, Q
    <2>4. f \in Injection(Q, P \ {1})
        BY <2>1, <2>2 DEF Injection, IsInjective
    <2>5. f \in Surjection(Q, P \ {1})
        BY <2>1, <2>3 DEF Surjection
    <2> QED
        BY <2>4, <2>5 DEF Bijection
<1>4. Cardinality(P \ {1}) = Cardinality(Q)
    <2> HIDE DEF f, P, Q
    <2>1. ExistsBijection(Q, P \ {1})
        BY <1>3 DEF ExistsBijection
    <2>2. IsFiniteSet(P \ {1})
        BY <1>1, FS_Subset
    <2> QED
        BY <1>1, <2>1, <2>2, FS_Bijection
<1>5. Cardinality(P \ {1}) = IF 1 \in P THEN Cardinality(P) - 1 ELSE Cardinality(P)
    BY <1>1, FS_RemoveElement
<1>6. 1 \in P <=> Head(seq) = x
    BY <1>2
<1>7. Places(seq, x) = Cardinality(P) /\ Places(Tail(seq), x) = Cardinality(Q)
    BY DEF Places
<1> HIDE DEF P, Q
<1> QED
    BY <1>1, <1>4, <1>5, <1>6, <1>7

(* Where the elements of a longer queue are.                                *)
LEMMA AppendAt ==
    ASSUME NEW S, NEW seq \in Seq(S), NEW y \in S, NEW i \in DOMAIN Append(seq, y)
    PROVE  \/ i \in DOMAIN seq /\ Append(seq, y)[i] = seq[i]
           \/ Append(seq, y)[i] = y
OBVIOUS

(* Where the elements of what is left of a queue are.                       *)
LEMMA TailAt ==
    ASSUME NEW S, NEW seq \in Seq(S), seq # <<>>, NEW i \in DOMAIN Tail(seq)
    PROVE  i + 1 \in DOMAIN seq /\ Tail(seq)[i] = seq[i + 1]
OBVIOUS

-----------------------------------------------------------------------------
(* With no connection and no command there is nothing to relate.            *)
LEMMA InitIInv == Init => IInv
<1> SUFFICES ASSUME Init PROVE IInv
    OBVIOUS
<1> USE PeerManagerAssumption
<1>1. Types
    <2>1. ActiveTypes
        BY DEF Init, ActiveTypes
    <2>2. EndTypes
        BY DEF Init, EndTypes, EndState
    <2>3. ManagerTypes
        <3>1. NoMessage \in Anything
            BY DEF Anything
        <3>2. \A m \in Party : [at |-> "start", stores |-> <<>>, store |-> 0, latest |-> FirstStreamId(m)] \in LeaderState
            BY DEF LeaderState, FirstStreamId
        <3>3. [at |-> "loop", store |-> 0, id |-> 0] \in FollowerState
            BY DEF FollowerState
        <3> QED
            BY <3>1, <3>2, <3>3 DEF Init, ManagerTypes
    <2>4. StoreTypes
        BY DEF Init, StoreTypes, Status
    <2> QED
        BY <2>1, <2>2, <2>3, <2>4 DEF Types
<1>2. Connected
    BY DEF Init, Connected, Party
<1>3. Conversations
    BY DEF Init, Conversations, Talk, NoMessage
<1>4. KnownRuns
    BY DEF Init, KnownRuns
<1>5. CommandsRun /\ CommandsOpen
    BY DEF Init, CommandsRun, CommandsOpen
<1>6. \A x : Places(<<>>, x) = 0
    <2> TAKE x
    <2>1. <<>> \in Seq(Nat) /\ DOMAIN <<>> = {}
        OBVIOUS
    <2> QED
        BY <2>1, PlacesFinite
<1>7. OutgoingOnce
    <2> SUFFICES ASSUME NEW d \in Device, NEW s \in Opens[d], NEW e \in Device
                 PROVE  Places(commands[d][e], s) + One(Asks(d, s, e)) + Places(queue[d][s], RegisterOutgoing(e))
                            = One(peers[d][s][e].outgoing = "Initializing")
        BY DEF OutgoingOnce
    <2>1. commands[d][e] = <<>> /\ queue[d][s] = <<>> /\ peers[d][s][e].outgoing = "Unknown"
        BY DEF Init
    <2>2. ~Asks(d, s, e)
        BY DEF Init, Asks
    <2> QED
        BY <1>6, <2>1, <2>2 DEF One
<1>8. IncomingOnce
    <2> SUFFICES ASSUME NEW d \in Device, NEW s \in Opens[d], NEW e \in Device
                 PROVE  One(Creates(d, s, e)) + Places(queue[d][s], RegisterIncoming(e))
                            = One(peers[d][s][e].incoming = "Initializing")
        BY DEF IncomingOnce
    <2>1. queue[d][s] = <<>> /\ peers[d][s][e].incoming = "Unknown"
        BY DEF Init
    <2>2. ~Creates(d, s, e)
        BY DEF Init, Creates
    <2> QED
        BY <1>6, <2>1, <2>2 DEF One
<1>9. AskingOnce
    <2> SUFFICES ASSUME NEW c \in Dials, NEW m \in Party, NEW s \in Opens[PeerAt(c, m)]
                 PROVE  Places(queue[PeerAt(c, m)][s], SyncWithPeer(DeviceAt(c, m), c, m))
                            = One(follower[c][m].at = "asking" /\ follower[c][m].store = s)
        BY DEF AskingOnce
    <2>1. PeerAt(c, m) \in Device
        BY DEF PeerAt, DeviceAt
    <2>2. queue[PeerAt(c, m)][s] = <<>> /\ follower[c][m].at = "loop"
        BY <2>1 DEF Init
    <2> QED
        BY <1>6, <2>2 DEF One
<1>10. ConsentIsAsked
    BY DEF Init, ConsentIsAsked
<1>11. StreamsOK
    BY DEF Init, StreamsOK, Fresh, Party, Dual, NoMessage
<1> QED
    BY <1>1, <1>2, <1>3, <1>4, <1>5, <1>7, <1>8, <1>9, <1>10, <1>11 DEF IInv

-----------------------------------------------------------------------------
(* Where a connection's ends are. *)
LEMMA EndsAreDevices ==
    ASSUME NEW c \in Dials, NEW m \in Party
    PROVE  /\ DeviceAt(c, m) \in Device /\ PeerAt(c, m) \in Device
           /\ Dual(m) \in Party /\ Dual(Dual(m)) = m /\ Dual(m) # m
           /\ DeviceAt(c, Dual(m)) = PeerAt(c, m) /\ PeerAt(c, Dual(m)) = DeviceAt(c, m)
BY PeerManagerAssumption DEF DeviceAt, PeerAt, Dual, Party

(* For each pair of devices, one leader at most has begun. *)
LEMMA OneLeader ==
    ASSUME Types, Connected, NEW c \in Dials, NEW m \in Party, NEW c1 \in Dials, NEW m1 \in Party,
           Leads(c, m), Leads(c1, m1), DeviceAt(c, m) = DeviceAt(c1, m1), PeerAt(c, m) = PeerAt(c1, m1)
    PROVE  c = c1 /\ m = m1
<1>1. c = c1
    BY DEF Connected, Leads
<1>2. c[1] # c[2]
    BY DEF Connected, Leads
<1> QED
    BY <1>1, <1>2 DEF DeviceAt, PeerAt, Dual, Party

(* Steps that change what runs, or the ends of connections, only. *)
LEMMA RunningStep ==
    ASSUME IInv, Types', UNCHANGED <<end, peer_state, commands, leader, follower, wire, streams, peers, queue>>,
           \A d \in Device : \A s : Runs(d, s) => Runs(d, s)'
    PROVE  IInv'
<1>1. /\ Connected' /\ CommandsOpen' /\ OutgoingOnce' /\ IncomingOnce' /\ AskingOnce'
      /\ ConsentIsAsked' /\ StreamsOK'
    <2>1. Connected' /\ CommandsOpen'
        BY DEF IInv, Connected, CommandsOpen
    <2>2. OutgoingOnce'
        BY DEF IInv, OutgoingOnce, Asks, One
    <2>3. IncomingOnce' /\ AskingOnce'
        BY DEF IInv, IncomingOnce, AskingOnce, Creates, One
    <2>4. ConsentIsAsked'
        BY DEF IInv, ConsentIsAsked, NotAsked
    <2>5. StreamsOK'
        BY DEF IInv, StreamsOK, Fresh
    <2> QED
        BY <2>1, <2>2, <2>3, <2>4, <2>5
<1>2. Conversations'
    <2> SUFFICES ASSUME NEW c \in Dials, NEW m \in Party PROVE Talk(c, m)'
        BY DEF Conversations
    <2>1. Talk(c, m)
        BY DEF IInv, Conversations
    <2>2. DeviceAt(c, m) \in Device /\ PeerAt(c, m) \in Device
        BY EndsAreDevices
    <2>3. Advertising(c, m) => Advertising(c, m)'
        BY <2>2 DEF Advertising, Follows
    <2>4. Requesting(c, m) => Requesting(c, m)'
        BY DEF Requesting
    <2> QED
        BY <2>1, <2>3, <2>4 DEF Talk, Leads, Follows
<1>3. KnownRuns'
    BY DEF IInv, KnownRuns
<1>4. CommandsRun'
    <2> SUFFICES ASSUME NEW d \in Device, NEW s \in Opens[d], NEW i \in DOMAIN queue[d][s]
                 PROVE  /\ Runs(d, s)' /\ Runs(queue[d][s][i].peer, s)'
        BY DEF IInv, CommandsRun
    <2>1. queue[d][s][i].peer \in Device
        BY DEF IInv, Types, StoreTypes, Command
    <2> QED
        BY <2>1 DEF IInv, CommandsRun
<1> QED
    BY <1>1, <1>2, <1>3, <1>4 DEF IInv

(* open_store: the store is initializing, as before its launch.             *)
LEMMA OpenStoreStep ==
    ASSUME IInv, NEW d \in Device, NEW s \in Opens[d], OpenStore(d, s)
    PROVE  IInv'
<1>1. Types'
    BY DEF IInv, Types, ActiveTypes, EndTypes, ManagerTypes, StoreTypes, OpenStore, connVars, managerVars, storeVars
<1>2. \A x \in Device : \A t : Runs(x, t) => Runs(x, t)'
    BY DEF IInv, Types, ActiveTypes, OpenStore, Runs
<1> QED
    BY <1>1, <1>2, RunningStep DEF OpenStore, connVars, managerVars, storeVars

(* launch_store: a store that runs goes on running.                         *)
LEMMA LaunchStep ==
    ASSUME IInv, NEW d \in Device, NEW s \in Opens[d], launch_store(d, s)
    PROVE  IInv'
<1>1. Types'
    <2>1. ActiveTypes' /\ changed' \in [Dials -> [Party -> BOOLEAN]]
        BY DEF IInv, Types, ActiveTypes, ManagerTypes, launch_store
    <2> QED
        BY <2>1 DEF IInv, Types, EndTypes, ManagerTypes, StoreTypes, launch_store, connVars, storeVars
<1>2. \A x \in Device : \A t : Runs(x, t) => Runs(x, t)'
    BY DEF IInv, Types, ActiveTypes, launch_store, Runs
<1> QED
    BY <1>1, <1>2, RunningStep DEF launch_store, connVars, storeVars

(* Ends that are not running may change: no manager is there yet.           *)
LEMMA ConnectionStep ==
    ASSUME IInv, Types', Connected', Conversations',
           UNCHANGED <<active, commands, leader, follower, streams, peers, queue>>,
           \A c \in Dials, m \in Party :
                wire'[c][m] = wire[c][m] \/ (wire'[c][m].kind = "None" /\ leader[c][m].at # "requesting")
    PROVE  IInv'
<1>1. CommandsOpen' /\ OutgoingOnce' /\ IncomingOnce' /\ AskingOnce' /\ KnownRuns' /\ CommandsRun'
    <2>1. CommandsOpen' /\ KnownRuns' /\ CommandsRun'
        BY DEF IInv, CommandsOpen, KnownRuns, CommandsRun, Runs
    <2>2. OutgoingOnce'
        BY DEF IInv, OutgoingOnce, Asks, One
    <2>3. IncomingOnce' /\ AskingOnce'
        BY DEF IInv, IncomingOnce, AskingOnce, Creates, One
    <2> QED
        BY <2>1, <2>2, <2>3
<1>2. ConsentIsAsked'
    BY DEF IInv, ConsentIsAsked, NotAsked
<1>3. StreamsOK'
    <2>1. ASSUME NEW c \in Dials, NEW m \in Party PROVE Fresh(c, m)'
        BY DEF IInv, StreamsOK, Fresh
    <2> QED
        BY <2>1 DEF IInv, StreamsOK
<1> QED
    BY <1>1, <1>2, <1>3 DEF IInv

(* The same for ends of one connection with the messages on its way.        *)
LEMMA EndsStep ==
    ASSUME IInv, Types', Connected', UNCHANGED <<active, commands, leader, follower, streams, peers, queue>>,
           \A c \in Dials, p \in Party : end[c][p] = "running" => end'[c][p] = "running",
           \A c \in Dials, m \in Party :
                wire'[c][m] = wire[c][m]
                    \/ (wire'[c][m].kind = "None" /\ leader[c][m].at \in {"start", "advertising"})
    PROVE  IInv'
<1>1. Conversations'
    <2> SUFFICES ASSUME NEW c \in Dials, NEW m \in Party PROVE Talk(c, m)'
        BY DEF Conversations
    <2>1. Talk(c, m)
        BY DEF IInv, Conversations
    <2>2. (Leads(c, m) => Leads(c, m)') /\ (Follows(c, m) => Follows(c, m)')
        BY EndsAreDevices DEF Leads, Follows
    <2>3. leader[c][m].at = "advertising" => Advertising(c, m)'
        BY <2>1, <2>2 DEF Talk, Advertising, Runs
    <2>4. leader[c][m].at = "requesting" => Requesting(c, m)'
        BY <2>1 DEF Talk, Requesting
    <2> QED
        BY <2>1, <2>2, <2>3, <2>4 DEF Talk
<1> QED
    BY <1>1, ConnectionStep

(* Types when a step changes the ends of connections and messages. *)
LEMMA EndTypesSuffice ==
    ASSUME IInv, UNCHANGED <<active, commands, leader, follower, changed, streams, peers, queue, panicked>>,
           EndTypes', wire' \in [Dials -> [Party -> Anything]]
    PROVE  Types'
BY DEF IInv, Types, EndTypes, ManagerTypes, ActiveTypes, StoreTypes

(* A device dials another: the accepting end waits.                         *)
LEMMA DialStep ==
    ASSUME IInv, NEW c \in Dials, Dial(c)
    PROVE  IInv'
<1>1. /\ UNCHANGED <<active, commands, leader, follower, changed, streams, peers, queue, panicked>>
      /\ UNCHANGED <<wire, lost, peer_state>>
    BY DEF Dial, managerVars, storeVars
<1>2. \A x \in Dials, p \in Party :
        end'[x][p] = IF x = c THEN IF p = "Client" THEN "waiting" ELSE "accepted" ELSE end[x][p]
    BY DEF Dial, IInv, Types, EndTypes, Party
<1>3. Types'
    <2>1. EndTypes'
        BY <1>1 DEF Dial, IInv, Types, EndTypes, EndState, Party
    <2> QED
        BY <1>1, <2>1, EndTypesSuffice DEF IInv, Types, ManagerTypes
<1>4. end[c]["Client"] = "none" /\ end[c]["Server"] = "none"
    BY DEF Dial, IInv, Connected, Party
<1>5. Connected'
    BY <1>1, <1>2 DEF IInv, Connected, Party
<1>6. \A x \in Dials, p \in Party : end[x][p] = "running" => end'[x][p] = "running"
    BY <1>2, <1>4 DEF Party
<1>7. \A x \in Dials, m \in Party :
        wire'[x][m] = wire[x][m]
            \/ (wire'[x][m].kind = "None" /\ leader[x][m].at \in {"start", "advertising"})
    BY <1>1
<1>8. UNCHANGED <<active, commands, leader, follower, streams, peers, queue>>
    BY <1>1
<1> QED
    BY <1>8, <1>3, <1>5, <1>6, <1>7, EndsStep

(* run_handshake_server records the connection only if none is recorded.    *)
LEMMA HandshakeServerStep ==
    ASSUME IInv, NEW c \in Dials, run_handshake_server(c)
    PROVE  IInv'
<1>1. /\ UNCHANGED <<active, commands, leader, follower, changed, streams, peers, queue, panicked>>
      /\ UNCHANGED <<wire, lost, peer_state>>
    BY DEF run_handshake_server, managerVars, storeVars
<1>2. /\ end[c]["Server"] = "accepted"
      /\ \A x \in Dials, p \in Party :
        end'[x][p] = IF x = c /\ p = "Server" THEN IF c[1] = c[2] THEN "closed" ELSE "shaken" ELSE end[x][p]
    BY DEF run_handshake_server, IInv, Types, EndTypes, Party
<1>3. Types'
    <2>1. EndTypes'
        BY <1>1 DEF run_handshake_server, IInv, Types, EndTypes, EndState, Party
    <2> QED
        BY <1>1, <2>1, EndTypesSuffice DEF IInv, Types, ManagerTypes
<1>5. Connected'
    BY <1>1, <1>2 DEF IInv, Connected, Party
<1>6. \A x \in Dials, p \in Party : end[x][p] = "running" => end'[x][p] = "running"
    BY <1>2
<1>7. \A x \in Dials, m \in Party :
        wire'[x][m] = wire[x][m]
            \/ (wire'[x][m].kind = "None" /\ leader[x][m].at \in {"start", "advertising"})
    BY <1>1
<1>8. UNCHANGED <<active, commands, leader, follower, streams, peers, queue>>
    BY <1>1
<1> QED
    BY <1>8, <1>3, <1>5, <1>6, <1>7, EndsStep

(* run_handshake_client records it, or closes its end.                      *)
LEMMA HandshakeClientStep ==
    ASSUME IInv, NEW c \in Dials, run_handshake_client(c)
    PROVE  IInv'
<1>1. /\ UNCHANGED <<active, commands, leader, follower, changed, streams, peers, queue, panicked>>
      /\ UNCHANGED peer_state
    BY DEF run_handshake_client, storeVars
<1> DEFINE to == end'[c]["Client"]
<1>2. end[c]["Client"] = "waiting" /\ end' = [end EXCEPT ![c]["Client"] = to]
    BY DEF run_handshake_client, IInv, Types, EndTypes, Party
<1>3. /\ to \in {"closed", "shaken"}
      /\ to = "shaken" => c[1] # c[2] \/ wire[c]["Server"] # NoMessage
    BY DEF run_handshake_client, IInv, Types, EndTypes, Party
<1>4. wire' = wire \/ wire' = [wire EXCEPT ![c]["Server"] = NoMessage]
    BY DEF run_handshake_client
<1>5. lost' \in [Dials -> {"nothing", "message", "part"}]
    BY DEF run_handshake_client, IInv, Types, EndTypes
<1> HIDE DEF to
<1>6. \A x \in Dials, p \in Party : end'[x][p] = IF x = c /\ p = "Client" THEN to ELSE end[x][p]
    BY <1>2 DEF IInv, Types, EndTypes, Party
<1>7. Types'
    <2>1. EndTypes'
        BY <1>1, <1>2, <1>3, <1>5 DEF IInv, Types, EndTypes, EndState, Party
    <2>2. wire' \in [Dials -> [Party -> Anything]]
        <3>1. NoMessage \in Anything
            BY DEF Anything
        <3>2. wire \in [Dials -> [Party -> Anything]]
            BY DEF IInv, Types, ManagerTypes
        <3> QED
            BY <1>4, <3>1, <3>2
    <2> QED
        BY <1>1, <2>1, <2>2, EndTypesSuffice
<1>8. Talk(c, "Server") /\ "Server" \in Party
    BY DEF IInv, Conversations, Party
<1>9. wire[c]["Server"] # NoMessage => c[1] # c[2]
    <2> SUFFICES ASSUME wire[c]["Server"] # NoMessage PROVE c[1] # c[2]
        OBVIOUS
    <2>1. wire[c]["Server"] \in Anything
        BY <1>8 DEF IInv, Types, ManagerTypes
    <2>2. wire[c]["Server"].kind # "None"
        BY <2>1 DEF Anything, NoMessage
    <2>3. Leads(c, "Server")
        BY <1>8, <2>2 DEF Talk
    <2> QED
        BY <1>8, <2>3 DEF Leads, IInv, Connected
<1>10. Connected'
    BY <1>1, <1>3, <1>6, <1>9 DEF IInv, Connected, Party
<1>11. \A x \in Dials, p \in Party : end[x][p] = "running" => end'[x][p] = "running"
    BY <1>2, <1>6
<1>12. ASSUME NEW x \in Dials, NEW m \in Party
       PROVE  wire'[x][m] = wire[x][m]
                \/ (wire'[x][m].kind = "None" /\ leader[x][m].at \in {"start", "advertising"})
    <2>1. ~Follows(c, "Server")
        BY <1>2 DEF Follows, Dual
    <2>2. leader[c]["Server"].at \in {"start", "advertising"}
        BY <1>8, <2>1 DEF Talk, IInv, Types, ManagerTypes, LeaderState
    <2>3. wire[x] \in [Party -> Anything]
        BY DEF IInv, Types, ManagerTypes
    <2>4. wire'[x][m] = wire[x][m] \/ (x = c /\ m = "Server" /\ wire'[x][m] = NoMessage)
        BY <1>4, <2>3 DEF IInv, Types, ManagerTypes
    <2>5. NoMessage.kind = "None"
        BY DEF NoMessage
    <2> QED
        BY <2>2, <2>4, <2>5
<1>13. UNCHANGED <<active, commands, leader, follower, streams, peers, queue>>
    BY <1>1
<1> QED
    BY <1>13, <1>7, <1>10, <1>11, <1>12, EndsStep

(* initiate_peer: the managers of a recorded connection begin at their      *)
(* start.                                                                   *)
LEMMA InitiatePeerStep ==
    ASSUME IInv, NEW c \in Dials, NEW p \in Party, initiate_peer(c, p)
    PROVE  IInv'
<1>0. DeviceAt(c, p) \in Device /\ PeerAt(c, p) \in Device
    BY EndsAreDevices
<1>1. /\ UNCHANGED <<active, commands, leader, follower, changed, streams, peers, queue, panicked>>
      /\ UNCHANGED <<wire, lost>>
    BY DEF initiate_peer, managerVars, storeVars
<1> DEFINE to == end'[c][p]
           peer_of(x, q) == peer_state[DeviceAt(x, q)][PeerAt(x, q)]
<1>2. /\ end[c][p] = "shaken"
      /\ end' = [end EXCEPT ![c][p] = to]
      /\ \/ to = "closed" /\ UNCHANGED peer_state
         \/ /\ to \in {"running", "failed"}
            /\ peer_state[DeviceAt(c, p)][PeerAt(c, p)] = NoConnection
            /\ peer_state' = [peer_state EXCEPT ![DeviceAt(c, p)][PeerAt(c, p)] = c]
    BY DEF initiate_peer, IInv, Types, EndTypes
<1> HIDE DEF to
<1>3. \A x \in Dials, q \in Party : end'[x][q] = IF x = c /\ q = p THEN to ELSE end[x][q]
    BY <1>2 DEF IInv, Types, EndTypes
<1>4. Types'
    <2>1. end' \in [Dials -> [Party -> EndState]]
        BY <1>2 DEF IInv, Types, EndTypes, EndState
    <2>2. peer_state \in [Device -> [Device -> Dials \cup {NoConnection}]]
        BY DEF IInv, Types, EndTypes
    <2>3. peer_state' \in [Device -> [Device -> Dials \cup {NoConnection}]]
        BY <1>0, <1>2, <2>2
    <2>4. EndTypes'
        BY <1>1, <2>1, <2>3 DEF IInv, Types, EndTypes
    <2> QED
        BY <1>1, <2>4, EndTypesSuffice DEF IInv, Types, ManagerTypes
<1>5. Connected'
    <2> SUFFICES ASSUME NEW x \in Dials, NEW q \in Party
                 PROVE  /\ end'[x][q] \in {"shaken", "running"} => x[1] # x[2]
                        /\ end'[x][q] = "running" => peer_state'[DeviceAt(x, q)][PeerAt(x, q)] = x
                        /\ end'[x]["Client"] = "none" => end'[x]["Server"] = "none"
        BY DEF Connected
    <2>1. /\ end'[x][q] \in {"shaken", "running"} => x[1] # x[2]
          /\ end'[x]["Client"] = "none" => end'[x]["Server"] = "none"
        BY <1>2, <1>3 DEF IInv, Connected, Party
    <2>2. ASSUME end'[x][q] = "running" PROVE peer_state'[DeviceAt(x, q)][PeerAt(x, q)] = x
        <3>1. DeviceAt(x, q) \in Device /\ PeerAt(x, q) \in Device
            BY EndsAreDevices
        <3>2. x # NoConnection
            BY PeerManagerAssumption DEF NoConnection
        <3>3. CASE x = c /\ q = p
            <4>1. to = "running"
                BY <1>3, <2>2, <3>3
            <4> QED
                BY <1>0, <1>2, <3>3, <4>1 DEF IInv, Types, EndTypes
        <3>4. CASE ~(x = c /\ q = p)
            <4>1. end[x][q] = "running"
                BY <1>3, <2>2, <3>4
            <4>2. peer_state[DeviceAt(x, q)][PeerAt(x, q)] = x
                BY <4>1 DEF IInv, Connected
            <4> HIDE DEF peer_of
            <4>3. peer_state \in [Device -> [Device -> Dials \cup {NoConnection}]]
                BY DEF IInv, Types, EndTypes
            <4> QED
                BY <1>0, <1>2, <3>1, <3>2, <4>2, <4>3
        <3> QED
            BY <3>3, <3>4
    <2> QED
        BY <2>1, <2>2
<1>6. \A x \in Dials, q \in Party : end[x][q] = "running" => end'[x][q] = "running"
    BY <1>2, <1>3
<1>7. \A x \in Dials, m \in Party :
        wire'[x][m] = wire[x][m]
            \/ (wire'[x][m].kind = "None" /\ leader[x][m].at \in {"start", "advertising"})
    BY <1>1
<1>8. UNCHANGED <<active, commands, leader, follower, streams, peers, queue>>
    BY <1>1
<1> QED
    BY <1>8, <1>4, <1>5, <1>6, <1>7, EndsStep

-----------------------------------------------------------------------------
(* What a step does to the queues of the stores. *)

Sends(d, stores, cmd) ==
    /\ queue' = [x \in Device |-> queue'[x]]
    /\ \A x \in Device : queue'[x] \in [Opens[x] -> Seq(Command)]
    /\ \A x \in Device : \A s \in Opens[x] : \A y :
        /\ Places(queue[x][s], y) \in Nat
        /\ ~(x = d /\ s \in stores /\ y = cmd) => Places(queue'[x][s], y) = Places(queue[x][s], y)
    /\ \A s \in stores \cap Opens[d] : Places(queue'[d][s], cmd) = Places(queue[d][s], cmd) + 1
    /\ \A x \in Device : \A s \in Opens[x] : \A i \in DOMAIN queue'[x][s] :
        \/ i \in DOMAIN queue[x][s] /\ queue'[x][s][i] = queue[x][s][i]
        \/ x = d /\ s \in stores /\ queue'[x][s][i] = cmd

(* Commands are appended to the queues of a device's stores.                *)
LEMMA SentToFacts ==
    ASSUME StoreTypes, NEW d \in Device, NEW stores, NEW cmd \in Command,
           queue' = SentTo(d, stores, cmd)
    PROVE  Sends(d, stores, cmd)
<1>1. /\ queue = [x \in Device |-> queue[x]]
      /\ \A x \in Device : queue[x] \in [Opens[x] -> Seq(Command)]
    BY DEF StoreTypes
<1>2. queue' = [x \in Device |-> IF x = d
                    THEN [s \in Opens[d] |-> IF s \in stores THEN Append(queue[d][s], cmd) ELSE queue[d][s]]
                    ELSE queue[x]]
    BY <1>1 DEF SentTo
<1>3. ASSUME NEW x \in Device, NEW s \in Opens[x]
      PROVE  /\ queue[x][s] \in Seq(Command)
             /\ queue'[x][s] = IF x = d /\ s \in stores THEN Append(queue[x][s], cmd) ELSE queue[x][s]
    BY <1>1, <1>2
<1>4. \A x \in Device : queue'[x] \in [Opens[x] -> Seq(Command)]
    BY <1>1, <1>2
<1>5. ASSUME NEW x \in Device, NEW s \in Opens[x], NEW y
      PROVE  /\ Places(queue[x][s], y) \in Nat
             /\ ~(x = d /\ s \in stores /\ y = cmd) => Places(queue'[x][s], y) = Places(queue[x][s], y)
    <2>1. Places(queue[x][s], y) \in Nat
        BY <1>3, PlacesFinite
    <2>2. CASE x = d /\ s \in stores /\ y # cmd
        <3>1. queue[x][s] \in Seq(Command) /\ queue'[x][s] = Append(queue[x][s], cmd)
            BY <1>3, <2>2
        <3>2. Places(Append(queue[x][s], cmd), y) = Places(queue[x][s], y)
            BY <2>2, <3>1, PlacesAppend
        <3> QED
            BY <2>1, <3>1, <3>2
    <2>3. CASE ~(x = d /\ s \in stores)
        BY <1>3, <2>1, <2>3
    <2> QED
        BY <2>1, <2>2, <2>3
<1>7. ASSUME NEW s \in stores \cap Opens[d]
      PROVE  Places(queue'[d][s], cmd) = Places(queue[d][s], cmd) + 1
    <2>1. queue[d][s] \in Seq(Command) /\ queue'[d][s] = Append(queue[d][s], cmd)
        BY <1>3
    <2> QED
        BY <2>1, PlacesAppend
<1>6. ASSUME NEW x \in Device, NEW s \in Opens[x], NEW i \in DOMAIN queue'[x][s]
      PROVE  \/ i \in DOMAIN queue[x][s] /\ queue'[x][s][i] = queue[x][s][i]
             \/ x = d /\ s \in stores /\ queue'[x][s][i] = cmd
    <2>1. CASE x = d /\ s \in stores
        <3>1. queue'[x][s] = Append(queue[x][s], cmd) /\ queue[x][s] \in Seq(Command)
            BY <1>3, <2>1
        <3>2. i \in DOMAIN Append(queue[x][s], cmd)
            BY <3>1
        <3>3. \/ i \in DOMAIN queue[x][s] /\ Append(queue[x][s], cmd)[i] = queue[x][s][i]
              \/ Append(queue[x][s], cmd)[i] = cmd
            BY <3>1, <3>2, AppendAt
        <3> QED
            BY <2>1, <3>1, <3>3
    <2>2. CASE ~(x = d /\ s \in stores)
        BY <1>3, <2>2
    <2> QED
        BY <2>1, <2>2
<1> QED
    BY <1>2, <1>4, <1>5, <1>6, <1>7 DEF Sends

OthersKeepPlaces(d, s, cmd) ==
    \A x \in Device : \A t \in Opens[x] : \A y :
        /\ Places(queue'[x][t], y) \in Nat
        /\ ~(x = d /\ t = s /\ y = cmd) => Places(queue'[x][t], y) = Places(queue[x][t], y)
Taken(d, s, cmd) ==
    /\ cmd \in Command /\ 1 \in DOMAIN queue[d][s] /\ cmd = queue[d][s][1]
    /\ queue' = [x \in Device |-> queue'[x]]
    /\ \A x \in Device : queue'[x] \in [Opens[x] -> Seq(Command)]
    /\ OthersKeepPlaces(d, s, cmd)
    /\ Places(queue[d][s], cmd) = Places(queue'[d][s], cmd) + 1
    /\ \A x \in Device : \A t \in Opens[x] : \A i \in DOMAIN queue'[x][t] :
        \E j \in DOMAIN queue[x][t] : queue'[x][t][i] = queue[x][t][j]

(* A store takes the first command of its queue.                            *)
LEMMA TakesFacts ==
    ASSUME StoreTypes, NEW d \in Device, NEW s \in Opens[d], NEW kind, Takes(d, s, kind)
    PROVE  Taken(d, s, Head(queue[d][s])) /\ Head(queue[d][s]).kind = kind
<1>1. /\ queue = [x \in Device |-> queue[x]]
      /\ \A x \in Device : queue[x] \in [Opens[x] -> Seq(Command)]
    BY DEF StoreTypes
<1>2. queue[d][s] \in Seq(Command) /\ queue[d][s] # <<>>
    BY <1>1 DEF Takes
<1>3. Head(queue[d][s]) \in Command /\ 1 \in DOMAIN queue[d][s] /\ Head(queue[d][s]) = queue[d][s][1]
    BY <1>2
<1>4. ASSUME NEW x \in Device, NEW t \in Opens[x]
      PROVE  /\ queue[x][t] \in Seq(Command)
             /\ queue'[x][t] = IF x = d /\ t = s THEN Tail(queue[x][t]) ELSE queue[x][t]
    BY <1>1 DEF Takes
<1>5. queue' = [x \in Device |-> queue'[x]] /\ \A x \in Device : queue'[x] \in [Opens[x] -> Seq(Command)]
    <2>1. queue' = [queue EXCEPT ![d][s] = Tail(queue[d][s])] /\ Tail(queue[d][s]) \in Seq(Command)
        BY <1>2 DEF Takes
    <2> QED
        BY <1>1, <2>1
<1>6. ASSUME NEW x \in Device, NEW t \in Opens[x], NEW y
      PROVE  /\ Places(queue'[x][t], y) \in Nat
             /\ ~(x = d /\ t = s /\ y = Head(queue[d][s])) => Places(queue'[x][t], y) = Places(queue[x][t], y)
    <2>1. Places(queue'[x][t], y) \in Nat
        <3>1. queue'[x][t] \in Seq(Command)
            BY <1>5
        <3> QED
            BY <3>1, PlacesFinite
    <2>2. CASE x = d /\ t = s /\ y # Head(queue[d][s])
        <3>1. queue[x][t] \in Seq(Command) /\ queue[x][t] # <<>> /\ queue'[x][t] = Tail(queue[x][t])
            BY <1>2, <1>4, <2>2
        <3> QED
            BY <2>1, <2>2, <3>1, PlacesTail
    <2>3. CASE ~(x = d /\ t = s)
        BY <1>4, <2>1, <2>3
    <2> QED
        BY <2>1, <2>2, <2>3
<1>8. Places(queue[d][s], Head(queue[d][s])) = Places(queue'[d][s], Head(queue[d][s])) + 1
    <2>1. queue'[d][s] = Tail(queue[d][s])
        BY <1>4
    <2> QED
        BY <1>2, <2>1, PlacesTail
<1>7. ASSUME NEW x \in Device, NEW t \in Opens[x], NEW i \in DOMAIN queue'[x][t]
      PROVE  \E j \in DOMAIN queue[x][t] : queue'[x][t][i] = queue[x][t][j]
    <2>1. CASE x = d /\ t = s
        <3>1. queue'[x][t] = Tail(queue[x][t]) /\ queue[x][t] \in Seq(Command) /\ queue[x][t] # <<>>
            BY <1>2, <1>4, <2>1
        <3>2. i \in DOMAIN Tail(queue[x][t])
            BY <3>1
        <3>3. i + 1 \in DOMAIN queue[x][t] /\ Tail(queue[x][t])[i] = queue[x][t][i + 1]
            BY <3>1, <3>2, TailAt
        <3> QED
            BY <3>1, <3>3
    <2>2. CASE ~(x = d /\ t = s)
        BY <1>4, <2>2
    <2> QED
        BY <2>1, <2>2
<1>9. OthersKeepPlaces(d, s, Head(queue[d][s]))
    BY <1>6 DEF OthersKeepPlaces
<1> QED
    BY <1>3, <1>5, <1>7, <1>8, <1>9 DEF Takes, Taken

(* A command that is not the one taken keeps its places.                    *)
LEMMA TakenPlaces ==
    ASSUME NEW d, NEW s, NEW cmd, Taken(d, s, cmd), NEW x \in Device, NEW t \in Opens[x], NEW y
    PROVE  /\ Places(queue'[x][t], y) \in Nat
           /\ ~(x = d /\ t = s /\ y = cmd) => Places(queue'[x][t], y) = Places(queue[x][t], y)
<1>1. OthersKeepPlaces(d, s, cmd)
    BY DEF Taken
<1> QED
    BY <1>1 DEF OthersKeepPlaces

(* Commands sent for a peer that runs the store keep CommandsRun.           *)
LEMMA SentToRuns ==
    ASSUME IInv, UNCHANGED active, NEW d \in Device, NEW stores, NEW cmd \in Command,
           queue' = SentTo(d, stores, cmd), d # cmd.peer,
           \A s \in stores : Runs(d, s) /\ Runs(cmd.peer, s),
           cmd.kind = "SyncWithPeer" =>
                cmd.peer = DeviceAt(cmd.reply[1], cmd.reply[2]) /\ d = PeerAt(cmd.reply[1], cmd.reply[2])
    PROVE  CommandsRun'
<1>1. \A x \in Device : \A s \in Opens[x] : \A i \in DOMAIN queue'[x][s] :
            \/ i \in DOMAIN queue[x][s] /\ queue'[x][s][i] = queue[x][s][i]
            \/ x = d /\ s \in stores /\ queue'[x][s][i] = cmd
    BY SentToFacts DEF IInv, Types, Sends
<1>2. SUFFICES ASSUME NEW x \in Device, NEW s \in Opens[x], NEW i \in DOMAIN queue'[x][s],
                      NEW new, new = queue'[x][s][i]
               PROVE  /\ x # new.peer /\ Runs(x, s)' /\ Runs(new.peer, s)'
                      /\ new.kind = "SyncWithPeer" =>
                            new.peer = DeviceAt(new.reply[1], new.reply[2]) /\ x = PeerAt(new.reply[1], new.reply[2])
    BY DEF CommandsRun
<1>3. CASE i \in DOMAIN queue[x][s] /\ new = queue[x][s][i]
    BY <1>3 DEF IInv, CommandsRun, Runs
<1>4. CASE x = d /\ s \in stores /\ new = cmd
    BY <1>4 DEF Runs
<1> QED
    BY <1>1, <1>2, <1>3, <1>4

-----------------------------------------------------------------------------
(* A change of the state of one manager. *)
LEMMA UpdateAt ==
    ASSUME NEW S, NEW f \in [Dials -> [Party -> S]], NEW c \in Dials, NEW m \in Party, NEW v \in S,
           NEW g, g = [f EXCEPT ![c][m] = v]
    PROVE  /\ g \in [Dials -> [Party -> S]]
           /\ g[c][m] = v
           /\ \A x \in Dials, p \in Party : ~(x = c /\ p = m) => g[x][p] = f[x][p]
OBVIOUS

-----------------------------------------------------------------------------
(* Advertisement. *)

(* Types when a step changes the managers and the queues.                   *)
LEMMA TaskTypesSuffice ==
    ASSUME IInv, UNCHANGED <<active, end, lost, peer_state>>, ManagerTypes', StoreTypes'
    PROVE  Types'
BY DEF IInv, Types, EndTypes, ActiveTypes

(* Both ends of a leading manager's connection are running.                 *)
LEMMA LiveEnds ==
    ASSUME IInv, NEW c \in Dials, NEW m \in Party, Leads(c, m)
    PROVE  DeviceAt(c, m) # PeerAt(c, m)
BY DEF IInv, Connected, Leads, DeviceAt, PeerAt, Dual, Party

(* Steps of a leader that is not requesting a stream, and of its follower.  *)
LEMMA AdvertisingStep ==
    ASSUME IInv, Types', CommandsRun', NEW c \in Dials, NEW m \in Party, Talk(c, m)',
           UNCHANGED <<active, end, peer_state, commands, follower, streams, peers>>,
           leader[c][m].at # "requesting", leader'[c][m].at # "requesting",
           leader'[c][m].latest = leader[c][m].latest,
           wire'[c][m].kind # "CreateStoreResponse",
           \A x \in Dials, p \in Party :
                ~(x = c /\ p = m) => leader'[x][p] = leader[x][p] /\ wire'[x][p] = wire[x][p],
           \A x \in Device : \A s \in Opens[x] : \A y :
                y.kind # "RegisterPeers" => Places(queue'[x][s], y) = Places(queue[x][s], y)
    PROVE  IInv'
<1>1. Connected' /\ KnownRuns' /\ CommandsOpen'
    BY DEF IInv, Connected, KnownRuns, CommandsOpen, Runs
<1>2. Conversations'
    <2> SUFFICES ASSUME NEW x \in Dials, NEW p \in Party, ~(x = c /\ p = m) PROVE Talk(x, p)'
        BY DEF Conversations
    <2>1. Talk(x, p)
        BY DEF IInv, Conversations
    <2>2. leader'[x][p] = leader[x][p] /\ wire'[x][p] = wire[x][p] /\ follower'[x][p] = follower[x][p]
        OBVIOUS
    <2>3. (Advertising(x, p) => Advertising(x, p)') /\ (Requesting(x, p) => Requesting(x, p)')
        BY <2>2 DEF Advertising, Requesting, Follows, Runs
    <2> QED
        BY <2>1, <2>2, <2>3 DEF Talk, Leads, Follows
<1>3. \A d, s, e : Asks(d, s, e)' <=> Asks(d, s, e)
    BY DEF Asks
<1>4. OutgoingOnce'
    <2> SUFFICES ASSUME NEW d \in Device, NEW s \in Opens[d], NEW e \in Device
                 PROVE  Places(commands'[d][e], s) + One(Asks(d, s, e)') + Places(queue'[d][s], RegisterOutgoing(e))
                            = One(peers'[d][s][e].outgoing = "Initializing")
        BY DEF OutgoingOnce
    <2>1. Places(queue'[d][s], RegisterOutgoing(e)) = Places(queue[d][s], RegisterOutgoing(e))
        BY DEF RegisterOutgoing
    <2> QED
        BY <1>3, <2>1 DEF IInv, OutgoingOnce, One
<1>5. IncomingOnce'
    <2> SUFFICES ASSUME NEW d \in Device, NEW s \in Opens[d], NEW e \in Device
                 PROVE  One(Creates(d, s, e)') + Places(queue'[d][s], RegisterIncoming(e))
                            = One(peers'[d][s][e].incoming = "Initializing")
        BY DEF IncomingOnce
    <2>1. Places(queue'[d][s], RegisterIncoming(e)) = Places(queue[d][s], RegisterIncoming(e))
        BY DEF RegisterIncoming
    <2>2. Creates(d, s, e)' <=> Creates(d, s, e)
        BY DEF Creates
    <2> QED
        BY <2>1, <2>2 DEF IInv, IncomingOnce, One
<1>6. AskingOnce'
    <2> SUFFICES ASSUME NEW x \in Dials, NEW p \in Party, NEW s \in Opens[PeerAt(x, p)]
                 PROVE  Places(queue'[PeerAt(x, p)][s], SyncWithPeer(DeviceAt(x, p), x, p))
                            = One(follower'[x][p].at = "asking" /\ follower'[x][p].store = s)
        BY DEF AskingOnce
    <2>1. Places(queue'[PeerAt(x, p)][s], SyncWithPeer(DeviceAt(x, p), x, p))
            = Places(queue[PeerAt(x, p)][s], SyncWithPeer(DeviceAt(x, p), x, p))
        BY EndsAreDevices DEF SyncWithPeer
    <2> QED
        BY <2>1 DEF IInv, AskingOnce, One
<1>7. ConsentIsAsked'
    BY DEF IInv, ConsentIsAsked, NotAsked
<1>8. StreamsOK'
    <2>1. ASSUME NEW x \in Dials, NEW p \in Party PROVE Fresh(x, p)'
        <3>1. Fresh(x, p)
            BY DEF IInv, StreamsOK
        <3> QED
            BY <3>1 DEF Fresh
    <2> QED
        BY <2>1 DEF IInv, StreamsOK
<1> QED
    BY <1>1, <1>2, <1>4, <1>5, <1>6, <1>7, <1>8 DEF IInv

(* A list of stores is within the limit and names nothing else.             *)
LEMMA ListFacts ==
    ASSUME NEW stores \in SUBSET Nat, NEW list \in ListsOf(stores)
    PROVE  /\ list \in Seq(Nat) /\ DOMAIN list \subseteq 1 .. MaxAdvertiseStores
           /\ \A i \in DOMAIN list : list[i] \in stores
<1>1. PICK n \in 0 .. MaxAdvertiseStores : list \in [1 .. n -> stores]
    BY DEF ListsOf
<1>2. /\ n \in Nat /\ 1 .. n \subseteq 1 .. MaxAdvertiseStores
      /\ DOMAIN list = 1 .. n /\ \A i \in 1 .. n : list[i] \in stores
    BY <1>1, PeerManagerAssumption
<1>3. list \in [1 .. n -> Nat]
    BY <1>1, <1>2
<1>4. list \in Seq(Nat)
    BY <1>2, <1>3
<1> QED
    BY <1>2, <1>4

(* AdvertiseStores: the leader sends the stores its device runs.            *)
LEMMA AdvertiseStoresStep ==
    ASSUME IInv, NEW c \in Dials, NEW m \in Party, AdvertiseStores(c, m)
    PROVE  IInv'
<1>1. /\ UNCHANGED <<active, end, lost, peer_state>>
      /\ UNCHANGED <<commands, follower, streams, peers, queue, panicked>>
    BY DEF AdvertiseStores, connVars, storeVars
<1>a. PICK stores \in ListsOf(Advertised(DeviceAt(c, m))) :
        /\ leader' = [leader EXCEPT ![c][m].at = "advertising", ![c][m].stores = stores]
        /\ wire' = [wire EXCEPT ![c][m] = Advertise(stores)]
    BY DEF AdvertiseStores
<1>2. /\ Leads(c, m) /\ leader[c][m].at \in {"start", "loop"}
      /\ leader' = [leader EXCEPT ![c][m].at = "advertising", ![c][m].stores = stores]
      /\ wire' = [wire EXCEPT ![c][m] = Advertise(stores)]
      /\ changed' = [changed EXCEPT ![c][m] = FALSE]
    BY <1>a DEF AdvertiseStores
<1>3. DeviceAt(c, m) \in Device /\ PeerAt(c, m) \in Device
    BY EndsAreDevices
<1>4. /\ stores \in Seq(Nat) /\ DOMAIN stores \subseteq 1 .. MaxAdvertiseStores
      /\ \A i \in DOMAIN stores : Runs(DeviceAt(c, m), stores[i])
    <2>1. Advertised(DeviceAt(c, m)) \in SUBSET Nat
        BY <1>3, PeerManagerAssumption DEF Advertised, Running
    <2>2. \A s \in Advertised(DeviceAt(c, m)) : Runs(DeviceAt(c, m), s)
        BY DEF Advertised, Running, Runs
    <2> QED
        BY <2>1, <2>2, ListFacts
<1> DEFINE l == [leader[c][m] EXCEPT !.at = "advertising", !.stores = stores]
<1>t. /\ leader \in [Dials -> [Party -> LeaderState]] /\ wire \in [Dials -> [Party -> Anything]]
      /\ leader[c][m] \in LeaderState
    BY DEF IInv, Types, ManagerTypes
<1>l. /\ l \in LeaderState /\ l.at = "advertising" /\ l.stores = stores
      /\ l.latest = leader[c][m].latest
    BY <1>4, <1>t DEF LeaderState
<1>u. leader' = [leader EXCEPT ![c][m] = l]
    BY <1>2, <1>t
<1> HIDE DEF l
<1>w. Advertise(stores) \in Anything
    BY <1>4 DEF Advertise, Anything
<1>5. /\ leader'[c][m] = l /\ leader' \in [Dials -> [Party -> LeaderState]]
      /\ \A x \in Dials, p \in Party : ~(x = c /\ p = m) => leader'[x][p] = leader[x][p]
    BY <1>t, <1>l, <1>u, UpdateAt
<1>6. /\ wire'[c][m] = Advertise(stores) /\ wire' \in [Dials -> [Party -> Anything]]
      /\ \A x \in Dials, p \in Party : ~(x = c /\ p = m) => wire'[x][p] = wire[x][p]
    BY <1>2, <1>t, <1>w, UpdateAt
<1>k. wire'[c][m].kind = "AdvertiseStores" /\ wire'[c][m].stores = stores
    BY <1>6 DEF Advertise
<1>7. Types'
    <2>1. changed' \in [Dials -> [Party -> BOOLEAN]]
        BY <1>2 DEF IInv, Types, ManagerTypes
    <2>2. ManagerTypes'
        BY <1>1, <1>5, <1>6, <2>1 DEF IInv, Types, ManagerTypes
    <2> QED
        BY <1>1, <2>2, TaskTypesSuffice DEF IInv, Types, StoreTypes
<1>8. Talk(c, m)'
    <2>1. Talk(c, m)
        BY DEF IInv, Conversations
    <2>2. Advertising(c, m)'
        BY <1>1, <1>4, <1>5, <1>k, <1>l DEF Advertising, Runs
    <2> QED
        BY <1>1, <1>2, <1>5, <1>l, <2>1, <2>2 DEF Talk, Leads
<1>9. CommandsRun'
    BY <1>1 DEF IInv, CommandsRun, Runs
<1>10. UNCHANGED <<active, end, peer_state, commands, follower, streams, peers>>
    BY <1>1
<1>11. /\ leader[c][m].at # "requesting" /\ leader'[c][m].at # "requesting"
       /\ leader'[c][m].latest = leader[c][m].latest
       /\ wire'[c][m].kind # "CreateStoreResponse"
    BY <1>2, <1>5, <1>l, <1>k
<1>12. \A x \in Dials, p \in Party :
            ~(x = c /\ p = m) => leader'[x][p] = leader[x][p] /\ wire'[x][p] = wire[x][p]
    BY <1>5, <1>6
<1>13. \A x \in Device : \A s \in Opens[x] : \A y :
            y.kind # "RegisterPeers" => Places(queue'[x][s], y) = Places(queue[x][s], y)
    BY <1>1
<1> QED
    BY <1>7, <1>8, <1>9, <1>10, <1>11, <1>12, <1>13, AdvertisingStep

(* run_advertise_stores_client: the follower answers with what both run,    *)
(* and tells its stores of the peer.                                        *)
LEMMA AdvertiseClientStep ==
    ASSUME IInv, NEW c \in Dials, NEW m \in Party, run_advertise_stores_client(c, m)
    PROVE  IInv'
<1> DEFINE d == PeerAt(c, m)
           e == DeviceAt(c, m)
           list == wire[c][m].stores
           bits == HavePositions(list, Running(d))
           shared == StoresAt(list, bits)
<1>1. /\ UNCHANGED <<active, end, lost, peer_state>>
      /\ UNCHANGED <<commands, leader, follower, changed, streams, peers, panicked>>
    BY DEF run_advertise_stores_client, connVars
<1>2. /\ Follows(c, m) /\ follower[c][m].at = "loop" /\ wire[c][m].kind = "AdvertiseStores"
      /\ wire' = [wire EXCEPT ![c][m] = HaveStores(bits)]
      /\ queue' = SentTo(d, shared, RegisterPeers(e))
    BY DEF run_advertise_stores_client, handle_shared_stores
<1>3. d \in Device /\ e \in Device
    BY EndsAreDevices
<1>4. Talk(c, m) /\ leader[c][m].at = "advertising" /\ Leads(c, m)
    <2>1. Talk(c, m) /\ leader[c][m] \in LeaderState
        BY DEF IInv, Conversations, Types, ManagerTypes
    <2> QED
        BY <1>2, <2>1 DEF Talk, Requesting, LeaderState
<1>5. /\ leader[c][m].stores = list /\ \A i \in DOMAIN list : Runs(e, list[i])
      /\ bits \subseteq DOMAIN list /\ bits \subseteq 1 .. MaxAdvertiseStores
      /\ \A i \in bits : Runs(d, list[i])
    <2>1. /\ leader[c][m].stores = list /\ \A i \in DOMAIN list : Runs(e, list[i])
          /\ DOMAIN list \subseteq 1 .. MaxAdvertiseStores
        BY <1>2, <1>4 DEF Talk, Advertising
    <2> QED
        BY <2>1 DEF HavePositions, Running, Runs
<1>b. \A s \in shared : Runs(d, s) /\ Runs(e, s)
    BY <1>5 DEF StoresAt
<1>6. d # e
    BY <1>4, LiveEnds
<1> HIDE DEF d, e, list, bits, shared
<1>7. HaveStores(bits) \in Anything /\ RegisterPeers(e) \in Command /\ RegisterPeers(e).peer = e
      /\ RegisterPeers(e).kind = "RegisterPeers"
    BY <1>3, <1>5 DEF HaveStores, Anything, RegisterPeers, Command
<1>8. /\ wire'[c][m] = HaveStores(bits) /\ wire' \in [Dials -> [Party -> Anything]]
      /\ \A x \in Dials, p \in Party : ~(x = c /\ p = m) => wire'[x][p] = wire[x][p]
    <2>1. wire \in [Dials -> [Party -> Anything]]
        BY DEF IInv, Types, ManagerTypes
    <2> QED
        BY <1>2, <1>7, <2>1, UpdateAt
<1>9. wire'[c][m].kind = "AdvertiseStoresResponse" /\ wire'[c][m].have = bits
    BY <1>8 DEF HaveStores
<1>10. StoreTypes
    BY DEF IInv, Types
<1>s. Sends(d, shared, RegisterPeers(e))
    BY <1>2, <1>3, <1>7, <1>10, SentToFacts
<1>11. Types'
    <2>1. StoreTypes'
        BY <1>1, <1>10, <1>s DEF StoreTypes, Sends
    <2>2. ManagerTypes'
        BY <1>1, <1>8 DEF IInv, Types, ManagerTypes
    <2> QED
        BY <1>1, <2>1, <2>2, TaskTypesSuffice
<1>12. Talk(c, m)'
    <2>1. Advertising(c, m)'
        BY <1>1, <1>2, <1>4, <1>5, <1>9 DEF Talk, Advertising, Runs, Follows, d, e
    <2> QED
        BY <1>1, <1>4, <2>1 DEF Talk, Leads
<1>13. CommandsRun'
    BY <1>1, <1>2, <1>3, <1>b, <1>6, <1>7, SentToRuns
<1>14. ASSUME NEW x \in Device, NEW s \in Opens[x], NEW y, y.kind # "RegisterPeers"
       PROVE  Places(queue'[x][s], y) = Places(queue[x][s], y)
    <2>1. y # RegisterPeers(e)
        BY <1>7, <1>14
    <2> QED
        BY <1>s, <2>1 DEF Sends
<1>15. UNCHANGED <<active, end, peer_state, commands, follower, streams, peers>>
    BY <1>1
<1>16. /\ leader[c][m].at # "requesting" /\ leader'[c][m].at # "requesting"
       /\ leader'[c][m].latest = leader[c][m].latest
       /\ wire'[c][m].kind # "CreateStoreResponse"
    BY <1>1, <1>4, <1>9
<1>17. \A x \in Dials, p \in Party :
            ~(x = c /\ p = m) => leader'[x][p] = leader[x][p] /\ wire'[x][p] = wire[x][p]
    BY <1>1, <1>8
<1> QED
    BY <1>11, <1>12, <1>13, <1>14, <1>15, <1>16, <1>17, AdvertisingStep

(* run_advertise_stores_server: the leader tells its own stores, of the     *)
(* same.                                                                    *)
LEMMA AdvertiseServerStep ==
    ASSUME IInv, NEW c \in Dials, NEW m \in Party, run_advertise_stores_server(c, m)
    PROVE  IInv'
<1> DEFINE d == DeviceAt(c, m)
           e == PeerAt(c, m)
           shared == StoresAt(leader[c][m].stores, wire[c][m].have)
           l == [leader[c][m] EXCEPT !.at = "loop", !.stores = <<>>]
<1>1. /\ UNCHANGED <<active, end, lost, peer_state>>
      /\ UNCHANGED <<commands, follower, changed, streams, peers, panicked>>
    BY DEF run_advertise_stores_server, connVars
<1>t. /\ leader \in [Dials -> [Party -> LeaderState]] /\ wire \in [Dials -> [Party -> Anything]]
      /\ leader[c][m] \in LeaderState /\ NoMessage \in Anything
    BY DEF IInv, Types, ManagerTypes, Anything
<1>2. /\ Leads(c, m) /\ leader[c][m].at = "advertising" /\ wire[c][m].kind = "AdvertiseStoresResponse"
      /\ wire' = [wire EXCEPT ![c][m] = NoMessage]
      /\ leader' = [leader EXCEPT ![c][m].at = "loop", ![c][m].stores = <<>>]
      /\ queue' = SentTo(d, shared, RegisterPeers(e))
    BY DEF run_advertise_stores_server, handle_shared_stores
<1>3. d \in Device /\ e \in Device
    BY EndsAreDevices
<1>4. Talk(c, m) /\ Advertising(c, m)
    <2>1. Talk(c, m)
        BY DEF IInv, Conversations
    <2> QED
        BY <1>2, <2>1 DEF Talk
<1>5. /\ Follows(c, m)
      /\ \A i \in DOMAIN leader[c][m].stores : Runs(d, leader[c][m].stores[i])
      /\ \A i \in wire[c][m].have : i \in DOMAIN leader[c][m].stores /\ Runs(e, leader[c][m].stores[i])
    BY <1>2, <1>4 DEF Advertising
<1>b. \A s \in shared : Runs(d, s) /\ Runs(e, s)
    BY <1>5 DEF StoresAt
<1>6. d # e
    BY <1>2, LiveEnds
<1>l. /\ l \in LeaderState /\ l.at = "loop" /\ l.latest = leader[c][m].latest
    <2>1. <<>> \in Seq(Nat)
        OBVIOUS
    <2> QED
        BY <1>t, <2>1 DEF LeaderState
<1>u. leader' = [leader EXCEPT ![c][m] = l]
    BY <1>2, <1>t
<1> HIDE DEF d, e, shared, l
<1>7. RegisterPeers(e) \in Command /\ RegisterPeers(e).peer = e /\ RegisterPeers(e).kind = "RegisterPeers"
    BY <1>3 DEF RegisterPeers, Command
<1>8. /\ wire'[c][m] = NoMessage /\ wire' \in [Dials -> [Party -> Anything]]
      /\ \A x \in Dials, p \in Party : ~(x = c /\ p = m) => wire'[x][p] = wire[x][p]
    BY <1>2, <1>t, UpdateAt
<1>9. /\ leader'[c][m] = l /\ leader' \in [Dials -> [Party -> LeaderState]]
      /\ \A x \in Dials, p \in Party : ~(x = c /\ p = m) => leader'[x][p] = leader[x][p]
    BY <1>t, <1>l, <1>u, UpdateAt
<1>10. StoreTypes
    BY DEF IInv, Types
<1>s. Sends(d, shared, RegisterPeers(e))
    BY <1>2, <1>3, <1>7, <1>10, SentToFacts
<1>11. Types'
    <2>1. StoreTypes'
        BY <1>1, <1>10, <1>s DEF StoreTypes, Sends
    <2>2. ManagerTypes'
        BY <1>1, <1>8, <1>9 DEF IInv, Types, ManagerTypes
    <2> QED
        BY <1>1, <2>1, <2>2, TaskTypesSuffice
<1>12. Talk(c, m)'
    BY <1>1, <1>2, <1>4, <1>5, <1>8, <1>9, <1>l DEF Talk, Leads, Follows, NoMessage
<1>13. CommandsRun'
    BY <1>1, <1>2, <1>3, <1>b, <1>6, <1>7, SentToRuns
<1>14. ASSUME NEW x \in Device, NEW s \in Opens[x], NEW y, y.kind # "RegisterPeers"
       PROVE  Places(queue'[x][s], y) = Places(queue[x][s], y)
    <2>1. y # RegisterPeers(e)
        BY <1>7, <1>14
    <2> QED
        BY <1>s, <2>1 DEF Sends
<1>15. UNCHANGED <<active, end, peer_state, commands, follower, streams, peers>>
    BY <1>1
<1>16. /\ leader[c][m].at # "requesting" /\ leader'[c][m].at # "requesting"
       /\ leader'[c][m].latest = leader[c][m].latest
       /\ wire'[c][m].kind # "CreateStoreResponse"
    BY <1>2, <1>8, <1>9, <1>l DEF NoMessage
<1>17. \A x \in Dials, p \in Party :
            ~(x = c /\ p = m) => leader'[x][p] = leader[x][p] /\ wire'[x][p] = wire[x][p]
    BY <1>8, <1>9
<1> QED
    BY <1>11, <1>12, <1>13, <1>14, <1>15, <1>16, <1>17, AdvertisingStep

-----------------------------------------------------------------------------
(* Streams. *)

(* The other conversations do not see a step of this one.                   *)
LEMMA OthersTalk ==
    ASSUME IInv, NEW c \in Dials, NEW m \in Party, UNCHANGED <<active, end>>, Talk(c, m)',
           \A x \in Dials, p \in Party : ~(x = c /\ p = m) =>
                leader'[x][p] = leader[x][p] /\ follower'[x][p] = follower[x][p] /\ wire'[x][p] = wire[x][p]
    PROVE  Conversations'
<1> SUFFICES ASSUME NEW x \in Dials, NEW p \in Party, ~(x = c /\ p = m) PROVE Talk(x, p)'
    BY DEF Conversations
<1>1. Talk(x, p)
    BY DEF IInv, Conversations
<1>2. leader'[x][p] = leader[x][p] /\ wire'[x][p] = wire[x][p] /\ follower'[x][p] = follower[x][p]
    OBVIOUS
<1>3. (Advertising(x, p) => Advertising(x, p)') /\ (Requesting(x, p) => Requesting(x, p)')
    BY <1>2 DEF Advertising, Requesting, Follows, Runs
<1> QED
    BY <1>1, <1>2, <1>3 DEF Talk, Leads, Follows

(* For the devices of a leading manager its own state says what they ask.   *)
AsksChange(c, m) ==
    \A d, s, e :
        IF d = DeviceAt(c, m) /\ e = PeerAt(c, m)
        THEN /\ Asks(d, s, e) <=> (leader[c][m].at = "requesting" /\ leader[c][m].store = s)
             /\ Asks(d, s, e)' <=> (leader'[c][m].at = "requesting" /\ leader'[c][m].store = s)
        ELSE Asks(d, s, e)' <=> Asks(d, s, e)

(* What the step of one leader does to who asks for a stream.               *)
LEMMA AsksAt ==
    ASSUME IInv, NEW c \in Dials, NEW m \in Party, Leads(c, m),
           \A x \in Dials, p \in Party : ~(x = c /\ p = m) => leader'[x][p] = leader[x][p]
    PROVE  AsksChange(c, m)
<1>1. ASSUME NEW x \in Dials, NEW p \in Party, DeviceAt(x, p) = DeviceAt(c, m), PeerAt(x, p) = PeerAt(c, m),
             leader[x][p].at = "requesting"
      PROVE  x = c /\ p = m
    <2>1. Leads(x, p)
        BY <1>1 DEF IInv, Conversations, Talk
    <2> QED
        BY <1>1, <2>1, OneLeader DEF IInv
<1> SUFFICES ASSUME NEW d, NEW s, NEW e
             PROVE  IF d = DeviceAt(c, m) /\ e = PeerAt(c, m)
                    THEN /\ Asks(d, s, e) <=> (leader[c][m].at = "requesting" /\ leader[c][m].store = s)
                         /\ Asks(d, s, e)' <=> (leader'[c][m].at = "requesting" /\ leader'[c][m].store = s)
                    ELSE Asks(d, s, e)' <=> Asks(d, s, e)
    BY DEF AsksChange
<1>2. CASE d = DeviceAt(c, m) /\ e = PeerAt(c, m)
    <2>1. Asks(d, s, e) <=> (leader[c][m].at = "requesting" /\ leader[c][m].store = s)
        BY <1>1, <1>2 DEF Asks
    <2>2. Asks(d, s, e)' <=> (leader'[c][m].at = "requesting" /\ leader'[c][m].store = s)
        BY <1>1, <1>2 DEF Asks
    <2> QED
        BY <1>2, <2>1, <2>2
<1>3. CASE ~(d = DeviceAt(c, m) /\ e = PeerAt(c, m))
    <2>1. Asks(d, s, e)' <=> Asks(d, s, e)
        BY <1>3 DEF Asks
    <2> QED
        BY <1>3, <2>1
<1> QED
    BY <1>2, <1>3

CreatesChange(c, m) ==
    \A d, s, e :
        IF d = PeerAt(c, m) /\ e = DeviceAt(c, m)
        THEN /\ Creates(d, s, e) <=> (follower[c][m].at = "creating" /\ follower[c][m].store = s)
             /\ Creates(d, s, e)' <=> (follower'[c][m].at = "creating" /\ follower'[c][m].store = s)
        ELSE Creates(d, s, e)' <=> Creates(d, s, e)

(* What the step of one follower does to who is creating a stream.          *)
LEMMA CreatesAt ==
    ASSUME IInv, NEW c \in Dials, NEW m \in Party, Leads(c, m),
           \A x \in Dials, p \in Party : ~(x = c /\ p = m) => follower'[x][p] = follower[x][p]
    PROVE  CreatesChange(c, m)
<1>1. ASSUME NEW x \in Dials, NEW p \in Party, DeviceAt(x, p) = DeviceAt(c, m), PeerAt(x, p) = PeerAt(c, m),
             follower[x][p].at = "creating"
      PROVE  x = c /\ p = m
    <2>1. Leads(x, p)
        BY <1>1 DEF IInv, Conversations, Talk
    <2> QED
        BY <1>1, <2>1, OneLeader DEF IInv
<1> SUFFICES ASSUME NEW d, NEW s, NEW e
             PROVE  IF d = PeerAt(c, m) /\ e = DeviceAt(c, m)
                    THEN /\ Creates(d, s, e) <=> (follower[c][m].at = "creating" /\ follower[c][m].store = s)
                         /\ Creates(d, s, e)' <=> (follower'[c][m].at = "creating" /\ follower'[c][m].store = s)
                    ELSE Creates(d, s, e)' <=> Creates(d, s, e)
    BY DEF CreatesChange
<1>2. CASE d = PeerAt(c, m) /\ e = DeviceAt(c, m)
    <2>1. Creates(d, s, e) <=> (follower[c][m].at = "creating" /\ follower[c][m].store = s)
        BY <1>1, <1>2 DEF Creates
    <2>2. Creates(d, s, e)' <=> (follower'[c][m].at = "creating" /\ follower'[c][m].store = s)
        BY <1>1, <1>2 DEF Creates
    <2> QED
        BY <1>2, <2>1, <2>2
<1>3. CASE ~(d = PeerAt(c, m) /\ e = DeviceAt(c, m))
    <2>1. Creates(d, s, e)' <=> Creates(d, s, e)
        BY <1>3 DEF Creates
    <2> QED
        BY <1>3, <2>1
<1> QED
    BY <1>2, <1>3

(* RequestStoreStream: a command of a store becomes a request on the wire,  *)
(* under the next id.                                                       *)
LEMMA RequestStep ==
    ASSUME IInv, NEW c \in Dials, NEW m \in Party, RequestStoreStream(c, m)
    PROVE  IInv'
<1> DEFINE d == DeviceAt(c, m)
           e == PeerAt(c, m)
           cmds == commands[d][e]
           id == leader[c][m].latest + 2
           l == [leader[c][m] EXCEPT !.at = "requesting", !.latest = id, !.store = Head(cmds)]
           req == CreateStoreStream(id, Head(cmds))
<1>1. /\ UNCHANGED <<active, end, lost, peer_state>>
      /\ UNCHANGED <<follower, changed, streams, peers, queue, panicked>>
    BY DEF RequestStoreStream, connVars, storeVars
<1>t. /\ leader \in [Dials -> [Party -> LeaderState]] /\ wire \in [Dials -> [Party -> Anything]]
      /\ leader[c][m] \in LeaderState /\ commands \in [Device -> [Device -> Seq(Nat)]]
    BY DEF IInv, Types, ManagerTypes
<1>2. /\ Leads(c, m) /\ leader[c][m].at = "loop" /\ cmds # <<>>
      /\ leader' = [leader EXCEPT ![c][m].at = "requesting", ![c][m].latest = id, ![c][m].store = Head(cmds)]
      /\ wire' = [wire EXCEPT ![c][m] = req]
      /\ commands' = [commands EXCEPT ![d][e] = Tail(cmds)]
    BY DEF RequestStoreStream, next_stream_id
<1>3. d \in Device /\ e \in Device
    BY EndsAreDevices
<1>4. Talk(c, m) /\ Follows(c, m) /\ follower[c][m].at = "loop"
    <2>1. Talk(c, m)
        BY DEF IInv, Conversations
    <2> QED
        BY <1>2, <2>1 DEF Talk
<1>5. cmds \in Seq(Nat) /\ Tail(cmds) \in Seq(Nat) /\ Head(cmds) \in Nat /\ Head(cmds) \in Opens[d]
    <2>1. cmds \in Seq(Nat)
        BY <1>3, <1>t
    <2>2. 1 \in DOMAIN cmds /\ Head(cmds) = cmds[1] /\ Head(cmds) \in Nat /\ Tail(cmds) \in Seq(Nat)
        BY <1>2, <2>1
    <2> QED
        BY <1>3, <2>1, <2>2 DEF IInv, CommandsOpen
<1>n. leader[c][m].latest \in Nat /\ id \in Nat
    <2>1. leader[c][m].latest \in Nat
        BY <1>t DEF LeaderState
    <2> QED
        BY <2>1
<1>l. l \in LeaderState /\ l.at = "requesting" /\ l.latest = id /\ l.store = Head(cmds)
    <2> HIDE DEF id, cmds
    <2> QED
        BY <1>t, <1>n, <1>5 DEF LeaderState
<1>u. leader' = [leader EXCEPT ![c][m] = l]
    BY <1>2, <1>t
<1>w. /\ req \in Anything /\ req.kind = "CreateStoreStream" /\ req.id = id /\ req.store = Head(cmds)
    BY <1>5, <1>n DEF CreateStoreStream, Anything
<1> HIDE DEF l, req
<1>8. /\ wire'[c][m] = req /\ wire' \in [Dials -> [Party -> Anything]]
      /\ \A x \in Dials, p \in Party : ~(x = c /\ p = m) => wire'[x][p] = wire[x][p]
    BY <1>2, <1>t, <1>w, UpdateAt
<1>9. /\ leader'[c][m] = l /\ leader' \in [Dials -> [Party -> LeaderState]]
      /\ \A x \in Dials, p \in Party : ~(x = c /\ p = m) => leader'[x][p] = leader[x][p]
    BY <1>t, <1>l, <1>u, UpdateAt
<1>c. ASSUME NEW x \in Device, NEW y \in Device
      PROVE commands'[x][y] = IF x = d /\ y = e THEN Tail(cmds) ELSE commands[x][y]
    BY <1>2, <1>3, <1>t
<1>10. Types'
    <2>1. commands' \in [Device -> [Device -> Seq(Nat)]]
        BY <1>2, <1>3, <1>5, <1>t
    <2>2. ManagerTypes'
        BY <1>1, <1>8, <1>9, <2>1 DEF IInv, Types, ManagerTypes
    <2> QED
        BY <1>1, <2>2, TaskTypesSuffice DEF IInv, Types, StoreTypes
<1> HIDE DEF d, e, cmds, id
<1>11. Connected' /\ KnownRuns' /\ CommandsRun' /\ IncomingOnce' /\ AskingOnce'
    <2>1. Connected' /\ KnownRuns' /\ CommandsRun'
        BY <1>1 DEF IInv, Connected, KnownRuns, CommandsRun, Runs
    <2>2. IncomingOnce' /\ AskingOnce'
        BY <1>1 DEF IInv, IncomingOnce, AskingOnce, Creates, One
    <2> QED
        BY <2>1, <2>2
<1>12. Conversations'
    <2>1. Requesting(c, m)'
        BY <1>1, <1>4, <1>5, <1>8, <1>9, <1>l, <1>w DEF Requesting, d
    <2>2. Talk(c, m)'
        BY <1>1, <1>2, <1>4, <1>9, <1>l, <2>1 DEF Talk, Leads, Follows
    <2>3. UNCHANGED <<active, end>>
        BY <1>1
    <2>4. \A x \in Dials, p \in Party : ~(x = c /\ p = m) =>
            leader'[x][p] = leader[x][p] /\ follower'[x][p] = follower[x][p] /\ wire'[x][p] = wire[x][p]
        BY <1>1, <1>8, <1>9
    <2> QED
        BY <2>2, <2>3, <2>4, OthersTalk
<1>13. CommandsOpen'
    <2> SUFFICES ASSUME NEW x \in Device, NEW y \in Device, NEW i \in DOMAIN commands'[x][y]
                 PROVE  commands'[x][y][i] \in Opens[x]
        BY DEF CommandsOpen
    <2>1. CASE x = d /\ y = e
        <3>1. i \in DOMAIN Tail(cmds) /\ commands'[x][y] = Tail(cmds)
            BY <1>c, <2>1
        <3>2. i + 1 \in DOMAIN cmds /\ Tail(cmds)[i] = cmds[i + 1]
            BY <1>2, <1>5, <3>1, TailAt
        <3> QED
            BY <2>1, <3>1, <3>2 DEF IInv, CommandsOpen, cmds
    <2>2. CASE ~(x = d /\ y = e)
        BY <1>c, <2>2 DEF IInv, CommandsOpen
    <2> QED
        BY <2>1, <2>2
<1>a. AsksChange(c, m)
    BY <1>2, <1>9, AsksAt
<1>p. ASSUME NEW s
      PROVE  /\ Places(cmds, s) = IF Head(cmds) = s THEN Places(Tail(cmds), s) + 1 ELSE Places(Tail(cmds), s)
             /\ Places(Tail(cmds), s) \in Nat
    BY <1>2, <1>5, PlacesTail, PlacesFinite
<1>14. OutgoingOnce'
    <2> SUFFICES ASSUME NEW x \in Device, NEW s \in Opens[x], NEW y \in Device
                 PROVE  Places(commands'[x][y], s) + One(Asks(x, s, y)') + Places(queue'[x][s], RegisterOutgoing(y))
                            = One(peers'[x][s][y].outgoing = "Initializing")
        BY DEF OutgoingOnce
    <2>1. Places(commands[x][y], s) + One(Asks(x, s, y)) + Places(queue[x][s], RegisterOutgoing(y))
                = One(peers[x][s][y].outgoing = "Initializing")
        BY DEF IInv, OutgoingOnce
    <2>2. CASE x = d /\ y = e
        <3>1. commands[x][y] = cmds /\ commands'[x][y] = Tail(cmds)
            BY <1>c, <2>2 DEF cmds
        <3>2. ~Asks(x, s, y) /\ (Asks(x, s, y)' <=> Head(cmds) = s)
            BY <1>2, <1>9, <1>a, <1>l, <2>2 DEF AsksChange, d, e
        <3>3. Places(commands[x][y], s) + One(Asks(x, s, y)) = Places(commands'[x][y], s) + One(Asks(x, s, y)')
            BY <1>p, <3>1, <3>2 DEF One
        <3> QED
            BY <1>1, <2>1, <3>3
    <2>3. CASE ~(x = d /\ y = e)
        <3>1. commands'[x][y] = commands[x][y]
            BY <1>c, <2>3
        <3>2. Asks(x, s, y)' <=> Asks(x, s, y)
            BY <1>a, <2>3 DEF AsksChange, d, e
        <3>3. One(Asks(x, s, y)') = One(Asks(x, s, y))
            BY <3>2 DEF One
        <3> QED
            BY <1>1, <2>1, <3>1, <3>3
    <2> QED
        BY <2>2, <2>3
<1>15. ConsentIsAsked'
    <2> SUFFICES ASSUME NEW x \in Device, NEW y \in Device, NEW s \in Opens[x] \cap Opens[y], NotAsked(x, s, y)'
                 PROVE  NotAsked(x, s, y)
        BY <1>1 DEF IInv, ConsentIsAsked
    <2>1. CASE Places(commands'[x][y], s) # 0
        <3>1. Places(commands[x][y], s) # 0
            BY <1>c, <1>p, <2>1 DEF cmds
        <3> QED
            BY <3>1 DEF NotAsked
    <2>2. ASSUME NEW z \in Dials, NEW p \in Party, DeviceAt(z, p) = x, PeerAt(z, p) = y,
                 leader'[z][p].at = "requesting", leader'[z][p].store = s,
                 follower'[z][p].at # "creating", wire'[z][p].kind # "CreateStoreResponse"
          PROVE  NotAsked(x, s, y)
        <3>1. CASE z = c /\ p = m
            <4>1. Head(cmds) = s /\ commands[x][y] = cmds
                BY <1>9, <1>l, <2>2, <3>1 DEF cmds, d, e
            <4>2. Places(commands[x][y], s) # 0
                BY <1>p, <4>1
            <4> QED
                BY <4>2 DEF NotAsked
        <3>2. CASE ~(z = c /\ p = m)
            BY <1>1, <1>8, <1>9, <2>2, <3>2 DEF NotAsked
        <3> QED
            BY <3>1, <3>2
    <2> QED
        BY <1>1, <2>1, <2>2 DEF NotAsked
<1>16. StreamsOK'
    <2>1. ASSUME NEW x \in Dials, NEW p \in Party, ~(x = c /\ p = m) PROVE Fresh(x, p)'
        <3>1. Fresh(x, p)
            BY DEF IInv, StreamsOK
        <3> QED
            BY <1>1, <1>8, <1>9, <2>1, <3>1 DEF Fresh
    <2>2. Fresh(c, m)'
        <3>1. Fresh(c, m) /\ streams[c][m] \subseteq Stream /\ streams[c][Dual(m)] \subseteq Stream
            BY EndsAreDevices DEF IInv, StreamsOK, Types, ManagerTypes
        <3>2. /\ \A n \in Nat : n <= leader[c][m].latest => n <= id /\ n # id
              /\ id % 2 = leader[c][m].latest % 2
            BY <1>n DEF id
        <3>3. \A st \in streams[c][m] \cup streams[c][Dual(m)] : st.id \in Nat
            BY <3>1 DEF Stream
        <3> QED
            BY <1>1, <1>8, <1>9, <1>l, <1>w, <3>1, <3>2, <3>3 DEF Fresh
    <2> QED
        BY <1>1, <2>1, <2>2 DEF IInv, StreamsOK
<1> QED
    BY <1>10, <1>11, <1>12, <1>13, <1>14, <1>15, <1>16 DEF IInv

(* What a manager asks for, both devices run, and nothing else asks for it. *)
LEMMA AskedOnce ==
    ASSUME IInv, NEW c \in Dials, NEW m \in Party, leader[c][m].at = "requesting"
    PROVE  LET d == DeviceAt(c, m) e == PeerAt(c, m) s == leader[c][m].store IN
           /\ s \in Opens[d] /\ Runs(d, s) /\ Runs(e, s) /\ d # e
           /\ peers[d][s][e].outgoing = "Initializing"
           /\ Places(commands[d][e], s) = 0 /\ Places(queue[d][s], RegisterOutgoing(e)) = 0
<1> DEFINE d == DeviceAt(c, m)
           e == PeerAt(c, m)
           s == leader[c][m].store
<1>1. d \in Device /\ e \in Device
    BY EndsAreDevices
<1>2. s \in Opens[d]
    BY DEF IInv, Conversations, Talk, Requesting
<1>3. Asks(d, s, e)
    BY DEF Asks
<1> HIDE DEF d, e, s
<1>4. Places(commands[d][e], s) + 1 + Places(queue[d][s], RegisterOutgoing(e))
        = IF peers[d][s][e].outgoing = "Initializing" THEN 1 ELSE 0
    BY <1>1, <1>2, <1>3 DEF IInv, OutgoingOnce, One
<1>5. Places(commands[d][e], s) \in Nat /\ Places(queue[d][s], RegisterOutgoing(e)) \in Nat
    <2>1. commands[d][e] \in Seq(Nat) /\ queue[d][s] \in Seq(Command)
        BY <1>1, <1>2 DEF IInv, Types, ManagerTypes, StoreTypes
    <2> QED
        BY <2>1, PlacesFinite
<1>6. /\ peers[d][s][e].outgoing = "Initializing"
      /\ Places(commands[d][e], s) = 0 /\ Places(queue[d][s], RegisterOutgoing(e)) = 0
    BY <1>4, <1>5
<1>7. d # e /\ Runs(d, s) /\ Runs(e, s)
    BY <1>1, <1>2, <1>6 DEF IInv, KnownRuns
<1> QED
    BY <1>2, <1>6, <1>7 DEF d, e, s

(* run_request_new_stream_client: the follower's store is asked, through    *)
(* its queue.                                                               *)
LEMMA RequestArrivesStep ==
    ASSUME IInv, NEW c \in Dials, NEW m \in Party, run_request_new_stream_client(c, m)
    PROVE  IInv'
<1> DEFINE d == DeviceAt(c, m)
           e == PeerAt(c, m)
           s == leader[c][m].store
           cmd == SyncWithPeer(d, c, m)
           f == [at |-> "asking", store |-> s, id |-> leader[c][m].latest]
<1>1. /\ UNCHANGED <<active, end, lost, peer_state>>
      /\ UNCHANGED <<commands, leader, changed, streams, peers, panicked>>
    BY DEF run_request_new_stream_client, connVars
<1>t. /\ leader[c][m] \in LeaderState /\ follower \in [Dials -> [Party -> FollowerState]]
      /\ wire \in [Dials -> [Party -> Anything]] /\ NoMessage \in Anything /\ StoreTypes
    BY DEF IInv, Types, ManagerTypes, Anything
<1>2. Follows(c, m) /\ follower[c][m].at = "loop" /\ wire[c][m].kind = "CreateStoreStream"
    BY DEF run_request_new_stream_client
<1>3. d \in Device /\ e \in Device
    BY EndsAreDevices
<1>4. /\ Talk(c, m) /\ Leads(c, m) /\ leader[c][m].at = "requesting"
      /\ Requesting(c, m) /\ wire[c][m].id = leader[c][m].latest /\ wire[c][m].store = s
    <2>1. Talk(c, m)
        BY DEF IInv, Conversations
    <2>2. leader[c][m].at = "requesting"
        BY <1>2, <1>t, <2>1 DEF Talk, Advertising, LeaderState
    <2> QED
        BY <1>2, <2>1, <2>2 DEF Talk, Requesting
<1>5. Runs(d, s) /\ Runs(e, s) /\ d # e
    BY <1>4, AskedOnce
<1>6. is_valid_stream_id(m, leader[c][m].latest)
    <2>1. leader[c][m].latest % 2 = FirstStreamId(m) % 2
        BY DEF IInv, StreamsOK, Fresh
    <2> QED
        BY <2>1 DEF FirstStreamId, is_valid_stream_id, Party
<1>7. /\ queue' = SentTo(e, {s}, cmd)
      /\ follower' = [follower EXCEPT ![c][m] = f]
      /\ wire' = [wire EXCEPT ![c][m] = NoMessage]
    BY <1>3, <1>4, <1>5, <1>6 DEF run_request_new_stream_client, Running, Runs
<1>f. f \in FollowerState /\ f.at = "asking" /\ f.store = s /\ f.id = leader[c][m].latest
    BY <1>t DEF FollowerState, LeaderState
<1>k. /\ cmd \in Command /\ cmd.kind = "SyncWithPeer" /\ cmd.peer = d
      /\ cmd.reply[1] = c /\ cmd.reply[2] = m
    BY <1>3 DEF SyncWithPeer, Command
<1> HIDE DEF f
<1>8. /\ wire'[c][m] = NoMessage /\ wire' \in [Dials -> [Party -> Anything]]
      /\ \A x \in Dials, p \in Party : ~(x = c /\ p = m) => wire'[x][p] = wire[x][p]
    BY <1>7, <1>t, UpdateAt
<1>9. /\ follower'[c][m] = f /\ follower' \in [Dials -> [Party -> FollowerState]]
      /\ \A x \in Dials, p \in Party : ~(x = c /\ p = m) => follower'[x][p] = follower[x][p]
    BY <1>7, <1>t, <1>f, UpdateAt
<1>y. \A x, p : SyncWithPeer(DeviceAt(x, p), x, p) = cmd <=> (x = c /\ p = m)
    BY DEF SyncWithPeer
<1>z. /\ \A y : RegisterOutgoing(y) # cmd
      /\ \A y : RegisterIncoming(y) # cmd
    BY DEF SyncWithPeer, RegisterOutgoing, RegisterIncoming
<1>0. d = DeviceAt(c, m) /\ e = PeerAt(c, m) /\ s = leader[c][m].store
    OBVIOUS
<1> HIDE DEF d, e, s, cmd
<1>s. Sends(e, {s}, cmd)
    BY <1>3, <1>7, <1>t, <1>k, SentToFacts
<1>10. Types'
    <2>1. StoreTypes'
        BY <1>1, <1>t, <1>s DEF StoreTypes, Sends
    <2>2. ManagerTypes'
        BY <1>1, <1>8, <1>9 DEF IInv, Types, ManagerTypes
    <2> QED
        BY <1>1, <2>1, <2>2, TaskTypesSuffice
<1>11. Connected' /\ KnownRuns' /\ CommandsOpen'
    BY <1>1 DEF IInv, Connected, KnownRuns, CommandsOpen, Runs
<1>12. Conversations'
    <2>1. wire'[c][m].kind = "None"
        BY <1>8 DEF NoMessage
    <2>2. Talk(c, m)'
        BY <1>1, <1>4, <1>9, <1>f, <2>1 DEF Talk, Requesting, Leads, Follows, s
    <2>3. UNCHANGED <<active, end>>
        BY <1>1
    <2>4. \A x \in Dials, p \in Party : ~(x = c /\ p = m) =>
            leader'[x][p] = leader[x][p] /\ follower'[x][p] = follower[x][p] /\ wire'[x][p] = wire[x][p]
        BY <1>1, <1>8, <1>9
    <2> QED
        BY <2>2, <2>3, <2>4, OthersTalk
<1>13. CommandsRun'
    <2>1. e # cmd.peer /\ \A t \in {s} : Runs(e, t) /\ Runs(cmd.peer, t)
        BY <1>5, <1>k
    <2>2. cmd.kind = "SyncWithPeer" =>
            cmd.peer = DeviceAt(cmd.reply[1], cmd.reply[2]) /\ e = PeerAt(cmd.reply[1], cmd.reply[2])
        BY <1>k, <1>0
    <2>3. UNCHANGED active
        BY <1>1
    <2> QED
        BY <1>3, <1>7, <1>k, <2>1, <2>2, <2>3, SentToRuns
<1>14. OutgoingOnce'
    <2> SUFFICES ASSUME NEW x \in Device, NEW t \in Opens[x], NEW y \in Device
                 PROVE  Places(commands'[x][y], t) + One(Asks(x, t, y)') + Places(queue'[x][t], RegisterOutgoing(y))
                            = One(peers'[x][t][y].outgoing = "Initializing")
        BY DEF OutgoingOnce
    <2>1. Places(queue'[x][t], RegisterOutgoing(y)) = Places(queue[x][t], RegisterOutgoing(y))
        <3>1. RegisterOutgoing(y) # cmd
            BY <1>z
        <3> QED
            BY <1>s, <3>1 DEF Sends
    <2>2. Asks(x, t, y)' <=> Asks(x, t, y)
        BY <1>1 DEF Asks
    <2> QED
        BY <1>1, <2>1, <2>2 DEF IInv, OutgoingOnce, One
<1>a. CreatesChange(c, m)
    BY <1>4, <1>9, CreatesAt
<1>15. IncomingOnce'
    <2> SUFFICES ASSUME NEW x \in Device, NEW t \in Opens[x], NEW y \in Device
                 PROVE  One(Creates(x, t, y)') + Places(queue'[x][t], RegisterIncoming(y))
                            = One(peers'[x][t][y].incoming = "Initializing")
        BY DEF IncomingOnce
    <2>1. Places(queue'[x][t], RegisterIncoming(y)) = Places(queue[x][t], RegisterIncoming(y))
        <3>1. RegisterIncoming(y) # cmd
            BY <1>z
        <3> QED
            BY <1>s, <3>1 DEF Sends
    <2>2. Creates(x, t, y)' <=> Creates(x, t, y)
        BY <1>2, <1>9, <1>a, <1>f DEF CreatesChange
    <2> QED
        BY <1>1, <2>1, <2>2 DEF IInv, IncomingOnce, One
<1>16. AskingOnce'
    <2> SUFFICES ASSUME NEW x \in Dials, NEW p \in Party, NEW t \in Opens[PeerAt(x, p)]
                 PROVE  Places(queue'[PeerAt(x, p)][t], SyncWithPeer(DeviceAt(x, p), x, p))
                            = One(follower'[x][p].at = "asking" /\ follower'[x][p].store = t)
        BY DEF AskingOnce
    <2>1. Places(queue[PeerAt(x, p)][t], SyncWithPeer(DeviceAt(x, p), x, p))
            = One(follower[x][p].at = "asking" /\ follower[x][p].store = t)
        BY DEF IInv, AskingOnce
    <2>2. CASE x = c /\ p = m /\ t = s
        <3>1. Places(queue'[e][s], cmd) = Places(queue[e][s], cmd) + 1
            BY <1>0, <1>s, <2>2 DEF Sends
        <3>2. Places(queue[e][s], cmd) = 0
            BY <1>0, <1>2, <1>y, <2>1, <2>2 DEF One
        <3>3. follower'[x][p].at = "asking" /\ follower'[x][p].store = t
            BY <1>9, <1>f, <2>2
        <3>4. SyncWithPeer(DeviceAt(x, p), x, p) = cmd /\ PeerAt(x, p) = e
            BY <1>0, <1>y, <2>2
        <3>5. Places(queue'[e][s], cmd) = 1
            BY <3>1, <3>2
        <3>6. Places(queue'[PeerAt(x, p)][t], SyncWithPeer(DeviceAt(x, p), x, p)) = 1
            BY <2>2, <3>4, <3>5
        <3> QED
            BY <3>3, <3>6 DEF One
    <2>3. CASE ~(x = c /\ p = m /\ t = s)
        <3>1. Places(queue'[PeerAt(x, p)][t], SyncWithPeer(DeviceAt(x, p), x, p))
                = Places(queue[PeerAt(x, p)][t], SyncWithPeer(DeviceAt(x, p), x, p))
            <4>1. PeerAt(x, p) \in Device
                BY EndsAreDevices
            <4>2. ~(PeerAt(x, p) = e /\ t \in {s} /\ SyncWithPeer(DeviceAt(x, p), x, p) = cmd)
                BY <1>y, <2>3
            <4> QED
                BY <1>s, <4>1, <4>2 DEF Sends
        <3>2. (follower'[x][p].at = "asking" /\ follower'[x][p].store = t)
                <=> (follower[x][p].at = "asking" /\ follower[x][p].store = t)
            BY <1>2, <1>9, <1>f, <2>3
        <3> QED
            BY <2>1, <3>1, <3>2 DEF One
    <2> QED
        BY <2>2, <2>3
<1>17. ConsentIsAsked'
    <2> SUFFICES ASSUME NEW x \in Device, NEW y \in Device, NEW t \in Opens[x] \cap Opens[y], NotAsked(x, t, y)'
                 PROVE  NotAsked(x, t, y)
        BY <1>1 DEF IInv, ConsentIsAsked
    <2>1. ASSUME NEW z \in Dials, NEW p \in Party,
                 follower'[z][p].at # "creating", wire'[z][p].kind # "CreateStoreResponse"
          PROVE  follower[z][p].at # "creating" /\ wire[z][p].kind # "CreateStoreResponse"
        BY <1>2, <1>8, <1>9, <2>1
    <2> QED
        BY <1>1, <2>1 DEF NotAsked
<1>18. StreamsOK'
    <2>1. ASSUME NEW x \in Dials, NEW p \in Party PROVE Fresh(x, p)'
        <3>1. Fresh(x, p)
            BY DEF IInv, StreamsOK
        <3>2. wire'[x][p] = wire[x][p] \/ (x = c /\ p = m /\ wire'[x][p].kind = "None")
            BY <1>8 DEF NoMessage
        <3> QED
            BY <1>1, <1>2, <3>1, <3>2 DEF Fresh
    <2> QED
        BY <1>1, <2>1 DEF IInv, StreamsOK
<1> QED
    BY <1>10, <1>11, <1>12, <1>13, <1>14, <1>15, <1>16, <1>17, <1>18 DEF IInv

(* The id that a manager asks for is free at both ends. *)
LEMMA IdIsFree ==
    ASSUME IInv, NEW c \in Dials, NEW m \in Party, leader[c][m].at = "requesting"
    PROVE  /\ leader[c][m].latest \in Nat
           /\ leader[c][m].latest \notin StreamIds(c, m)
           /\ wire[c][m].kind # "CreateStoreResponse" => leader[c][m].latest \notin StreamIds(c, Dual(m))
<1> DEFINE id == leader[c][m].latest
<1>1. leader[c][m] \in LeaderState
    BY DEF IInv, Types, ManagerTypes
<1>2. Dual(m) \in Party /\ Dual(Dual(m)) = m
    BY EndsAreDevices
<1>3. streams[c][m] \subseteq Stream /\ streams[c][Dual(m)] \subseteq Stream
    BY <1>2 DEF IInv, Types, ManagerTypes
<1>4. Fresh(c, m) /\ Fresh(c, Dual(m))
    BY <1>2 DEF IInv, StreamsOK
<1>5. FirstStreamId(m) % 2 # FirstStreamId(Dual(m)) % 2
    BY DEF FirstStreamId, Dual, Party
<1>6. id \in Nat /\ id % 2 = FirstStreamId(m) % 2
    BY <1>1, <1>4 DEF LeaderState, Fresh
<1>7. \A st \in streams[c][m] : st.id # id
    <2> SUFFICES ASSUME NEW st \in streams[c][m] PROVE st.id # id
        OBVIOUS
    <2>1. CASE st.task = "server"
        BY <1>4, <2>1 DEF Fresh
    <2>2. CASE st.task = "client"
        <3>1. st.id % 2 = FirstStreamId(Dual(m)) % 2
            BY <1>2, <1>4, <2>2 DEF Fresh
        <3> QED
            BY <1>5, <1>6, <3>1
    <2> QED
        BY <1>3, <2>1, <2>2 DEF Stream
<1>8. ASSUME wire[c][m].kind # "CreateStoreResponse", NEW st \in streams[c][Dual(m)] PROVE st.id # id
    <2>1. CASE st.task = "client"
        BY <1>4, <1>8, <2>1 DEF Fresh
    <2>2. CASE st.task = "server"
        <3>1. st.id % 2 = FirstStreamId(Dual(m)) % 2
            BY <1>4, <2>2 DEF Fresh
        <3> QED
            BY <1>5, <1>6, <3>1
    <2> QED
        BY <1>3, <2>1, <2>2 DEF Stream
<1> QED
    BY <1>6, <1>7, <1>8 DEF StreamIds

(* A new stream at one end, and no other set of streams that differs.       *)
StreamAdded(c, p, new) ==
    /\ streams' \in [Dials -> [Party -> SUBSET Stream]]
    /\ streams'[c][p] = streams[c][p] \cup {new}
    /\ \A x \in Dials, q \in Party : ~(x = c /\ q = p) => streams'[x][q] = streams[x][q]
    /\ new \in Stream

(* CreateStream under an id that is free adds one stream.                   *)
LEMMA AddsStream ==
    ASSUME ManagerTypes, NEW c \in Dials, NEW p \in Party, NEW id \in Nat, NEW s \in Store, NEW task \in {"server", "client"},
           id \notin StreamIds(c, p), CreateStream(c, p, id, s, task)
    PROVE  StreamAdded(c, p, [id |-> id, store |-> s, task |-> task])
<1> DEFINE new == [id |-> id, store |-> s, task |-> task]
           all == streams[c][p] \cup {new}
<1>1. streams \in [Dials -> [Party -> SUBSET Stream]]
    BY DEF ManagerTypes
<1>2. new \in Stream
    BY DEF Stream
<1>3. streams' = [streams EXCEPT ![c][p] = all]
    BY <1>1 DEF CreateStream
<1>4. all \in SUBSET Stream
    BY <1>1, <1>2
<1> HIDE DEF all
<1>5. /\ streams' \in [Dials -> [Party -> SUBSET Stream]]
      /\ streams'[c][p] = all
      /\ \A x \in Dials, q \in Party : ~(x = c /\ q = p) => streams'[x][q] = streams[x][q]
    BY <1>1, <1>3, <1>4, UpdateAt
<1> QED
    BY <1>2, <1>5 DEF all, StreamAdded

(* What a following end finds when it creates its stream, and what it does. *)
FollowerCreated(c, m) ==
    LET l == leader[c][m] f == follower[c][m] IN
    /\ Talk(c, m) /\ Leads(c, m) /\ Follows(c, m) /\ Requesting(c, m)
    /\ l.at = "requesting" /\ f.at = "creating" /\ f.id = l.latest /\ f.store = l.store
    /\ wire[c][m].kind = "None" /\ l.latest \notin StreamIds(c, Dual(m))
    /\ CreateStream(c, Dual(m), l.latest, l.store, "client")
    /\ wire' = [wire EXCEPT ![c][m] = CreateStoreResponse(TRUE)]
    /\ follower' = [follower EXCEPT ![c][m] = [at |-> "loop", store |-> 0, id |-> 0]]

(* The end that creates its stream first has been asked to. *)
LEMMA FollowerCreates ==
    ASSUME IInv, NEW c \in Dials, NEW m \in Party, FollowerCreatesStream(c, m)
    PROVE  FollowerCreated(c, m)
<1>1. Talk(c, m) /\ Follows(c, m) /\ follower[c][m].at = "creating"
    <2>1. Talk(c, m)
        BY DEF IInv, Conversations
    <2> QED
        BY <2>1 DEF FollowerCreatesStream, Talk
<1>2. /\ Leads(c, m) /\ leader[c][m].at = "requesting" /\ Requesting(c, m)
      /\ follower[c][m].id = leader[c][m].latest /\ follower[c][m].store = leader[c][m].store
      /\ wire[c][m].kind = "None"
    BY <1>1 DEF Talk, Requesting
<1>3. leader[c][m].latest \notin StreamIds(c, Dual(m))
    BY <1>2, IdIsFree
<1> QED
    BY <1>1, <1>2, <1>3 DEF FollowerCreatesStream, FollowerCreated

(* The same of the end that leads.                                          *)
LeaderCreated(c, m) ==
    LET l == leader[c][m] IN
    /\ Talk(c, m) /\ Leads(c, m) /\ Follows(c, m) /\ Requesting(c, m)
    /\ l.at = "requesting" /\ follower[c][m].at = "loop"
    /\ wire[c][m].kind = "CreateStoreResponse" /\ wire[c][m].accept /\ l.latest \notin StreamIds(c, m)
    /\ CreateStream(c, m, l.latest, l.store, "server")
    /\ wire' = [wire EXCEPT ![c][m] = NoMessage]
    /\ leader' = [leader EXCEPT ![c][m].at = "loop"]

(* The leading end creates its own with the consent it has asked for. *)
LEMMA LeaderCreates ==
    ASSUME IInv, NEW c \in Dials, NEW m \in Party, run_request_new_stream_server(c, m)
    PROVE  LeaderCreated(c, m)
<1>1. /\ Talk(c, m) /\ Leads(c, m) /\ leader[c][m].at = "requesting"
      /\ wire[c][m].kind = "CreateStoreResponse"
    BY DEF run_request_new_stream_server, IInv, Conversations
<1>2. Requesting(c, m) /\ Follows(c, m) /\ follower[c][m].at = "loop" /\ wire[c][m].accept
    BY <1>1 DEF Talk, Requesting
<1>3. leader[c][m].latest \notin StreamIds(c, m)
    BY <1>1, IdIsFree
<1> QED
    BY <1>1, <1>2, <1>3 DEF run_request_new_stream_server, LeaderCreated

(* The follower creates its stream, tells its store and accepts.            *)
LEMMA FollowerCreatesStep ==
    ASSUME IInv, NEW c \in Dials, NEW m \in Party, FollowerCreatesStream(c, m)
    PROVE  IInv'
<1> DEFINE d == DeviceAt(c, m)
           e == PeerAt(c, m)
           p == Dual(m)
           s == leader[c][m].store
           id == leader[c][m].latest
           cmd == RegisterIncoming(d)
           new == [id |-> id, store |-> s, task |-> "client"]
           f == [at |-> "loop", store |-> 0, id |-> 0]
           w == CreateStoreResponse(TRUE)
<1>1. /\ UNCHANGED <<active, end, lost, peer_state>>
      /\ UNCHANGED <<commands, leader, changed, peers, panicked>>
    BY DEF FollowerCreatesStream, connVars
<1>t. /\ leader[c][m] \in LeaderState /\ follower \in [Dials -> [Party -> FollowerState]]
      /\ wire \in [Dials -> [Party -> Anything]] /\ StoreTypes /\ ManagerTypes
      /\ id \in Nat /\ s \in Nat
    BY DEF IInv, Types, ManagerTypes, LeaderState
<1>3. /\ d \in Device /\ e \in Device /\ p \in Party /\ p # m /\ Dual(p) = m
      /\ DeviceAt(c, p) = e /\ PeerAt(c, p) = d
    BY EndsAreDevices
<1>c. FollowerCreated(c, m)
    BY FollowerCreates
<1>2. /\ Talk(c, m) /\ Follows(c, m) /\ follower[c][m].at = "creating"
      /\ wire' = [wire EXCEPT ![c][m] = w] /\ follower' = [follower EXCEPT ![c][m] = f]
    BY <1>c DEF FollowerCreated
<1>4. /\ Leads(c, m) /\ leader[c][m].at = "requesting"
      /\ Requesting(c, m) /\ follower[c][m].id = id /\ follower[c][m].store = s /\ wire[c][m].kind = "None"
    BY <1>c DEF FollowerCreated
<1>5. Runs(d, s) /\ Runs(e, s) /\ d # e /\ s \in Opens[d] /\ s \in Opens[e]
    BY <1>4, AskedOnce DEF Runs
<1>6. id \notin StreamIds(c, p) /\ CreateStream(c, p, id, s, "client")
    BY <1>c DEF FollowerCreated
<1>q. queue' = SentTo(e, {s}, cmd)
    BY <1>3, <1>6 DEF CreateStream
<1>r. /\ streams' \in [Dials -> [Party -> SUBSET Stream]]
      /\ streams'[c][p] = streams[c][p] \cup {new}
      /\ \A x \in Dials, q \in Party : ~(x = c /\ q = p) => streams'[x][q] = streams[x][q]
      /\ new \in Stream
    <2>1. s \in Store
        BY <1>3, <1>5 DEF Store
    <2>2. ManagerTypes /\ id \notin StreamIds(c, p)
        BY <1>6, <1>t
    <2>3. CreateStream(c, p, id, s, "client")
        BY <1>6
    <2>4. StreamAdded(c, p, [id |-> id, store |-> s, task |-> "client"])
        BY <1>3, <1>t, <2>1, <2>2, <2>3, AddsStream
    <2> QED
        BY <2>4 DEF StreamAdded
<1>f. f \in FollowerState /\ f.at = "loop"
    BY DEF FollowerState
<1>k. cmd \in Command /\ cmd.kind = "RegisterIncomingPeerSyncing" /\ cmd.peer = d
    BY <1>3 DEF RegisterIncoming, Command
<1>w. w \in Anything /\ w.kind = "CreateStoreResponse" /\ w.accept
    BY DEF CreateStoreResponse, Anything
<1> HIDE DEF f, w
<1>8. /\ wire'[c][m] = w /\ wire' \in [Dials -> [Party -> Anything]]
      /\ \A x \in Dials, q \in Party : ~(x = c /\ q = m) => wire'[x][q] = wire[x][q]
    BY <1>2, <1>t, <1>w, UpdateAt
<1>9. /\ follower'[c][m] = f /\ follower' \in [Dials -> [Party -> FollowerState]]
      /\ \A x \in Dials, q \in Party : ~(x = c /\ q = m) => follower'[x][q] = follower[x][q]
    BY <1>2, <1>t, <1>f, UpdateAt
<1>z. /\ \A y : RegisterOutgoing(y) # cmd
      /\ \A x, q : SyncWithPeer(DeviceAt(x, q), x, q) # cmd
      /\ \A y : RegisterIncoming(y) = cmd <=> y = d
    BY DEF SyncWithPeer, RegisterOutgoing, RegisterIncoming
<1>n. new.id = id /\ new.store = s /\ new.task = "client"
    OBVIOUS
<1>0. d = DeviceAt(c, m) /\ e = PeerAt(c, m) /\ s = leader[c][m].store /\ id = leader[c][m].latest
      /\ new = [id |-> leader[c][m].latest, store |-> leader[c][m].store, task |-> "client"]
      /\ p = Dual(m)
    OBVIOUS
<1> HIDE DEF d, e, s, cmd, p, id, new
<1>s. Sends(e, {s}, cmd)
    BY <1>3, <1>q, <1>t, <1>k, SentToFacts
<1>10. Types'
    <2>1. StoreTypes'
        BY <1>1, <1>t, <1>s DEF StoreTypes, Sends
    <2>2. ManagerTypes'
        BY <1>1, <1>8, <1>9, <1>r DEF IInv, Types, ManagerTypes
    <2> QED
        BY <1>1, <2>1, <2>2, TaskTypesSuffice
<1>11. Connected' /\ KnownRuns' /\ CommandsOpen'
    BY <1>1 DEF IInv, Connected, KnownRuns, CommandsOpen, Runs
<1>12. Conversations'
    <2>1. Talk(c, m)'
        BY <1>1, <1>2, <1>4, <1>8, <1>9, <1>f, <1>w DEF Talk, Requesting, Leads, Follows
    <2>2. UNCHANGED <<active, end>>
        BY <1>1
    <2>3. \A x \in Dials, q \in Party : ~(x = c /\ q = m) =>
            leader'[x][q] = leader[x][q] /\ follower'[x][q] = follower[x][q] /\ wire'[x][q] = wire[x][q]
        BY <1>1, <1>8, <1>9
    <2> QED
        BY <2>1, <2>2, <2>3, OthersTalk
<1>13. CommandsRun'
    <2>1. e # cmd.peer /\ \A t \in {s} : Runs(e, t) /\ Runs(cmd.peer, t)
        BY <1>5, <1>k
    <2>2. cmd.kind = "SyncWithPeer" =>
            cmd.peer = DeviceAt(cmd.reply[1], cmd.reply[2]) /\ e = PeerAt(cmd.reply[1], cmd.reply[2])
        BY <1>k
    <2>3. UNCHANGED active
        BY <1>1
    <2> QED
        BY <1>3, <1>q, <1>k, <2>1, <2>2, <2>3, SentToRuns
<1>14. OutgoingOnce'
    <2> SUFFICES ASSUME NEW x \in Device, NEW t \in Opens[x], NEW y \in Device
                 PROVE  Places(commands'[x][y], t) + One(Asks(x, t, y)') + Places(queue'[x][t], RegisterOutgoing(y))
                            = One(peers'[x][t][y].outgoing = "Initializing")
        BY DEF OutgoingOnce
    <2>1. Places(queue'[x][t], RegisterOutgoing(y)) = Places(queue[x][t], RegisterOutgoing(y))
        <3>1. RegisterOutgoing(y) # cmd
            BY <1>z
        <3> QED
            BY <1>s, <3>1 DEF Sends
    <2>2. Asks(x, t, y)' <=> Asks(x, t, y)
        BY <1>1 DEF Asks
    <2> QED
        BY <1>1, <2>1, <2>2 DEF IInv, OutgoingOnce, One
<1>a. CreatesChange(c, m)
    BY <1>4, <1>9, CreatesAt
<1>15. IncomingOnce'
    <2> SUFFICES ASSUME NEW x \in Device, NEW t \in Opens[x], NEW y \in Device
                 PROVE  One(Creates(x, t, y)') + Places(queue'[x][t], RegisterIncoming(y))
                            = One(peers'[x][t][y].incoming = "Initializing")
        BY DEF IncomingOnce
    <2>0. One(Creates(x, t, y)) + Places(queue[x][t], RegisterIncoming(y))
                            = One(peers[x][t][y].incoming = "Initializing")
        BY DEF IInv, IncomingOnce
    <2>1. CASE x = e /\ t = s /\ y = d
        <3>1. Places(queue'[x][t], RegisterIncoming(y)) = Places(queue[x][t], RegisterIncoming(y)) + 1
            BY <1>5, <1>s, <1>z, <2>1 DEF Sends
        <3>2. Creates(x, t, y) /\ ~Creates(x, t, y)'
            BY <1>2, <1>4, <1>9, <1>a, <1>f, <1>0, <2>1 DEF CreatesChange
        <3>3. Places(queue[x][t], RegisterIncoming(y)) \in Nat
            BY <1>s DEF Sends
        <3>4. One(Creates(x, t, y)') + Places(queue'[x][t], RegisterIncoming(y))
                = One(Creates(x, t, y)) + Places(queue[x][t], RegisterIncoming(y))
            BY <3>1, <3>2, <3>3 DEF One
        <3> QED
            BY <1>1, <2>0, <3>4
    <2>2. CASE ~(x = e /\ t = s /\ y = d)
        <3>1. Places(queue'[x][t], RegisterIncoming(y)) = Places(queue[x][t], RegisterIncoming(y))
            <4>1. ~(x = e /\ t \in {s} /\ RegisterIncoming(y) = cmd)
                BY <1>z, <2>2
            <4> QED
                BY <1>s, <4>1 DEF Sends
        <3>2. Creates(x, t, y)' <=> Creates(x, t, y)
            BY <1>2, <1>4, <1>9, <1>a, <1>f, <1>0, <2>2 DEF CreatesChange
        <3>3. One(Creates(x, t, y)') = One(Creates(x, t, y))
            BY <3>2 DEF One
        <3> QED
            BY <1>1, <2>0, <3>1, <3>3
    <2> QED
        BY <2>1, <2>2
<1>16. AskingOnce'
    <2> SUFFICES ASSUME NEW x \in Dials, NEW q \in Party, NEW t \in Opens[PeerAt(x, q)]
                 PROVE  Places(queue'[PeerAt(x, q)][t], SyncWithPeer(DeviceAt(x, q), x, q))
                            = One(follower'[x][q].at = "asking" /\ follower'[x][q].store = t)
        BY DEF AskingOnce
    <2>1. Places(queue[PeerAt(x, q)][t], SyncWithPeer(DeviceAt(x, q), x, q))
            = One(follower[x][q].at = "asking" /\ follower[x][q].store = t)
        BY DEF IInv, AskingOnce
    <2>2. Places(queue'[PeerAt(x, q)][t], SyncWithPeer(DeviceAt(x, q), x, q))
            = Places(queue[PeerAt(x, q)][t], SyncWithPeer(DeviceAt(x, q), x, q))
        <3>1. PeerAt(x, q) \in Device
            BY EndsAreDevices
        <3>2. SyncWithPeer(DeviceAt(x, q), x, q) # cmd
            BY <1>z
        <3> QED
            BY <1>s, <3>1, <3>2 DEF Sends
    <2>3. (follower'[x][q].at = "asking" /\ follower'[x][q].store = t)
            <=> (follower[x][q].at = "asking" /\ follower[x][q].store = t)
        BY <1>2, <1>9, <1>f
    <2> QED
        BY <2>1, <2>2, <2>3 DEF One
<1>17. ConsentIsAsked'
    <2> SUFFICES ASSUME NEW x \in Device, NEW y \in Device, NEW t \in Opens[x] \cap Opens[y], NotAsked(x, t, y)'
                 PROVE  NotAsked(x, t, y)
        BY <1>1 DEF IInv, ConsentIsAsked
    <2>1. ASSUME NEW z \in Dials, NEW q \in Party,
                 follower'[z][q].at # "creating", wire'[z][q].kind # "CreateStoreResponse"
          PROVE  follower[z][q].at # "creating" /\ wire[z][q].kind # "CreateStoreResponse"
        BY <1>8, <1>9, <1>w, <2>1
    <2> QED
        BY <1>1, <2>1 DEF NotAsked
<1>18. StreamsOK'
    <2>1. ASSUME NEW x \in Dials, NEW q \in Party, x # c PROVE Fresh(x, q)'
        <3>1. Fresh(x, q)
            BY DEF IInv, StreamsOK
        <3>2. wire'[x][q] = wire[x][q] /\ streams'[x][q] = streams[x][q] /\ streams'[x][Dual(q)] = streams[x][Dual(q)]
            BY <1>8, <1>r, <2>1, EndsAreDevices
        <3> QED
            BY <1>1, <3>1, <3>2 DEF Fresh
    <2>2. streams'[c][m] = streams[c][m]
        BY <1>3, <1>r
    <2>3. Fresh(c, m)'
        <3>1. Fresh(c, m)
            BY DEF IInv, StreamsOK
        <3>2. \A st \in streams'[c][p] : st \in streams[c][p] \/ st = new
            BY <1>r
        <3> QED
            BY <1>0, <1>1, <1>4, <1>8, <1>n, <1>r, <1>t, <1>w, <2>2, <3>1, <3>2 DEF Fresh
    <2>4. Fresh(c, p)'
        <3>1. Fresh(c, p)
            BY <1>3 DEF IInv, StreamsOK
        <3>2. \A st \in streams'[c][p] : st.task = "server" => st \in streams[c][p]
            BY <1>r, <1>n
        <3>3. wire'[c][p] = wire[c][p]
            BY <1>3, <1>8
        <3> QED
            BY <1>1, <1>3, <2>2, <3>1, <3>2, <3>3 DEF Fresh
    <2>5. \A x \in Dials, q \in Party : Fresh(x, q)'
        BY <1>0, <1>3, <2>1, <2>3, <2>4 DEF Dual, Party
    <2>6. ASSUME NEW x \in Dials, NEW q \in Party, NEW st \in streams'[x][q], NEW su \in streams'[x][q], st.id = su.id
          PROVE  st = su
        <3>1. CASE x = c /\ q = p
            BY <1>6, <1>r, <1>n, <2>6, <3>1 DEF IInv, StreamsOK, StreamIds
        <3>2. CASE ~(x = c /\ q = p)
            BY <1>r, <2>6, <3>2 DEF IInv, StreamsOK
        <3> QED
            BY <3>1, <3>2
    <2> QED
        BY <2>5, <2>6 DEF StreamsOK
<1> QED
    BY <1>10, <1>11, <1>12, <1>13, <1>14, <1>15, <1>16, <1>17, <1>18 DEF IInv

(* run_request_new_stream_server: accepted, the leader creates its stream   *)
(* and tells its store.                                                     *)
LEMMA LeaderCreatesStep ==
    ASSUME IInv, NEW c \in Dials, NEW m \in Party, run_request_new_stream_server(c, m)
    PROVE  IInv'
<1> DEFINE d == DeviceAt(c, m)
           e == PeerAt(c, m)
           s == leader[c][m].store
           id == leader[c][m].latest
           cmd == RegisterOutgoing(e)
           new == [id |-> id, store |-> s, task |-> "server"]
           l == [leader[c][m] EXCEPT !.at = "loop"]
<1>1. /\ UNCHANGED <<active, end, lost, peer_state>>
      /\ UNCHANGED <<commands, follower, changed, peers, panicked>>
    BY DEF run_request_new_stream_server, connVars
<1>t. /\ leader[c][m] \in LeaderState /\ leader \in [Dials -> [Party -> LeaderState]]
      /\ wire \in [Dials -> [Party -> Anything]] /\ StoreTypes /\ ManagerTypes
      /\ id \in Nat /\ s \in Nat /\ NoMessage \in Anything
    BY DEF IInv, Types, ManagerTypes, LeaderState, Anything
<1>3. d \in Device /\ e \in Device /\ Dual(m) \in Party /\ Dual(m) # m /\ Dual(Dual(m)) = m
    BY EndsAreDevices
<1>c. LeaderCreated(c, m)
    BY LeaderCreates
<1>2. /\ Talk(c, m) /\ Leads(c, m) /\ leader[c][m].at = "requesting"
      /\ wire[c][m].kind = "CreateStoreResponse"
    BY <1>c DEF LeaderCreated
<1>4. Requesting(c, m) /\ Follows(c, m) /\ follower[c][m].at = "loop" /\ wire[c][m].accept
    BY <1>c DEF LeaderCreated
<1>5. Runs(d, s) /\ Runs(e, s) /\ d # e /\ s \in Opens[d]
    BY <1>2, AskedOnce
<1>6. id \notin StreamIds(c, m) /\ CreateStream(c, m, id, s, "server")
    BY <1>c DEF LeaderCreated
<1>7. /\ wire' = [wire EXCEPT ![c][m] = NoMessage]
      /\ leader' = [leader EXCEPT ![c][m] = l]
    <2>1. wire' = [wire EXCEPT ![c][m] = NoMessage] /\ leader' = [leader EXCEPT ![c][m].at = "loop"]
        BY <1>c DEF LeaderCreated
    <2> QED
        BY <1>t, <2>1
<1>q. queue' = SentTo(d, {s}, cmd)
    BY <1>6 DEF CreateStream
<1>r. /\ streams' \in [Dials -> [Party -> SUBSET Stream]]
      /\ streams'[c][m] = streams[c][m] \cup {new}
      /\ \A x \in Dials, q \in Party : ~(x = c /\ q = m) => streams'[x][q] = streams[x][q]
      /\ new \in Stream
    <2>1. s \in Store
        BY <1>3, <1>5 DEF Store
    <2>2. ManagerTypes /\ id \notin StreamIds(c, m)
        BY <1>6, <1>t
    <2>3. CreateStream(c, m, id, s, "server")
        BY <1>6
    <2>4. StreamAdded(c, m, [id |-> id, store |-> s, task |-> "server"])
        BY <1>t, <2>1, <2>2, <2>3, AddsStream
    <2> QED
        BY <2>4 DEF StreamAdded
<1>l. /\ l \in LeaderState /\ l.at = "loop" /\ l.latest = id /\ l.store = s
    BY <1>t DEF LeaderState
<1>k. cmd \in Command /\ cmd.kind = "RegisterOutgoingPeerSyncing" /\ cmd.peer = e
    BY <1>3 DEF RegisterOutgoing, Command
<1> HIDE DEF l
<1>8. /\ wire'[c][m] = NoMessage /\ wire' \in [Dials -> [Party -> Anything]]
      /\ \A x \in Dials, q \in Party : ~(x = c /\ q = m) => wire'[x][q] = wire[x][q]
    BY <1>7, <1>t, UpdateAt
<1>w. wire'[c][m].kind = "None"
    BY <1>8 DEF NoMessage
<1>9. /\ leader'[c][m] = l /\ leader' \in [Dials -> [Party -> LeaderState]]
      /\ \A x \in Dials, q \in Party : ~(x = c /\ q = m) => leader'[x][q] = leader[x][q]
    BY <1>7, <1>t, <1>l, UpdateAt
<1>z. /\ \A y : RegisterIncoming(y) # cmd
      /\ \A x, q : SyncWithPeer(DeviceAt(x, q), x, q) # cmd
      /\ \A y : RegisterOutgoing(y) = cmd <=> y = e
    BY DEF SyncWithPeer, RegisterOutgoing, RegisterIncoming
<1>n. new.id = id /\ new.store = s /\ new.task = "server"
    OBVIOUS
<1>0. d = DeviceAt(c, m) /\ e = PeerAt(c, m) /\ s = leader[c][m].store /\ id = leader[c][m].latest
      /\ [new EXCEPT !.task = "client"] = [id |-> id, store |-> s, task |-> "client"]
    OBVIOUS
<1> HIDE DEF d, e, s, cmd, id, new
<1>s. Sends(d, {s}, cmd)
    BY <1>3, <1>q, <1>t, <1>k, SentToFacts
<1>10. Types'
    <2>1. StoreTypes'
        BY <1>1, <1>t, <1>s DEF StoreTypes, Sends
    <2>2. ManagerTypes'
        BY <1>1, <1>8, <1>9, <1>r DEF IInv, Types, ManagerTypes
    <2> QED
        BY <1>1, <2>1, <2>2, TaskTypesSuffice
<1>11. Connected' /\ KnownRuns' /\ CommandsOpen'
    BY <1>1 DEF IInv, Connected, KnownRuns, CommandsOpen, Runs
<1>12. Conversations'
    <2>1. Talk(c, m)'
        BY <1>1, <1>2, <1>4, <1>8, <1>9, <1>l, <1>w DEF Talk, Leads, Follows
    <2>2. UNCHANGED <<active, end>>
        BY <1>1
    <2>3. \A x \in Dials, q \in Party : ~(x = c /\ q = m) =>
            leader'[x][q] = leader[x][q] /\ follower'[x][q] = follower[x][q] /\ wire'[x][q] = wire[x][q]
        BY <1>1, <1>8, <1>9
    <2> QED
        BY <2>1, <2>2, <2>3, OthersTalk
<1>13. CommandsRun'
    <2>1. d # cmd.peer /\ \A t \in {s} : Runs(d, t) /\ Runs(cmd.peer, t)
        BY <1>5, <1>k
    <2>2. cmd.kind = "SyncWithPeer" =>
            cmd.peer = DeviceAt(cmd.reply[1], cmd.reply[2]) /\ d = PeerAt(cmd.reply[1], cmd.reply[2])
        BY <1>k
    <2>3. UNCHANGED active
        BY <1>1
    <2> QED
        BY <1>3, <1>q, <1>k, <2>1, <2>2, <2>3, SentToRuns
<1>14. IncomingOnce'
    <2> SUFFICES ASSUME NEW x \in Device, NEW t \in Opens[x], NEW y \in Device
                 PROVE  One(Creates(x, t, y)') + Places(queue'[x][t], RegisterIncoming(y))
                            = One(peers'[x][t][y].incoming = "Initializing")
        BY DEF IncomingOnce
    <2>1. Places(queue'[x][t], RegisterIncoming(y)) = Places(queue[x][t], RegisterIncoming(y))
        <3>1. RegisterIncoming(y) # cmd
            BY <1>z
        <3> QED
            BY <1>s, <3>1 DEF Sends
    <2>2. Creates(x, t, y)' <=> Creates(x, t, y)
        BY <1>1 DEF Creates
    <2> QED
        BY <1>1, <2>1, <2>2 DEF IInv, IncomingOnce, One
<1>a. AsksChange(c, m)
    BY <1>2, <1>9, AsksAt
<1>15. OutgoingOnce'
    <2> SUFFICES ASSUME NEW x \in Device, NEW t \in Opens[x], NEW y \in Device
                 PROVE  Places(commands'[x][y], t) + One(Asks(x, t, y)') + Places(queue'[x][t], RegisterOutgoing(y))
                            = One(peers'[x][t][y].outgoing = "Initializing")
        BY DEF OutgoingOnce
    <2>0. Places(commands[x][y], t) + One(Asks(x, t, y)) + Places(queue[x][t], RegisterOutgoing(y))
                            = One(peers[x][t][y].outgoing = "Initializing")
        BY DEF IInv, OutgoingOnce
    <2>3. Places(queue[x][t], RegisterOutgoing(y)) \in Nat
        BY <1>s DEF Sends
    <2>4. Places(commands[x][y], t) \in Nat
        <3>1. commands[x][y] \in Seq(Nat)
            BY <1>t DEF ManagerTypes
        <3> QED
            BY <3>1, PlacesFinite
    <2>1. CASE x = d /\ t = s /\ y = e
        <3>1. Places(queue'[x][t], RegisterOutgoing(y)) = Places(queue[x][t], RegisterOutgoing(y)) + 1
            BY <1>5, <1>s, <1>z, <2>1 DEF Sends
        <3>2. Asks(x, t, y) /\ ~Asks(x, t, y)'
            BY <1>2, <1>9, <1>a, <1>l, <1>0, <2>1 DEF AsksChange
        <3>4. Places(commands[x][y], t) + One(Asks(x, t, y)') + Places(queue'[x][t], RegisterOutgoing(y))
                = Places(commands[x][y], t) + One(Asks(x, t, y)) + Places(queue[x][t], RegisterOutgoing(y))
            BY <2>3, <2>4, <3>1, <3>2 DEF One
        <3> QED
            BY <1>1, <2>0, <3>4
    <2>2. CASE ~(x = d /\ t = s /\ y = e)
        <3>1. Places(queue'[x][t], RegisterOutgoing(y)) = Places(queue[x][t], RegisterOutgoing(y))
            <4>1. ~(x = d /\ t \in {s} /\ RegisterOutgoing(y) = cmd)
                BY <1>z, <2>2
            <4> QED
                BY <1>s, <4>1 DEF Sends
        <3>2. Asks(x, t, y)' <=> Asks(x, t, y)
            BY <1>2, <1>9, <1>a, <1>l, <1>0, <2>2 DEF AsksChange
        <3>3. One(Asks(x, t, y)') = One(Asks(x, t, y))
            BY <3>2 DEF One
        <3> QED
            BY <1>1, <2>0, <3>1, <3>3
    <2> QED
        BY <2>1, <2>2
<1>16. AskingOnce'
    <2> SUFFICES ASSUME NEW x \in Dials, NEW q \in Party, NEW t \in Opens[PeerAt(x, q)]
                 PROVE  Places(queue'[PeerAt(x, q)][t], SyncWithPeer(DeviceAt(x, q), x, q))
                            = One(follower'[x][q].at = "asking" /\ follower'[x][q].store = t)
        BY DEF AskingOnce
    <2>2. Places(queue'[PeerAt(x, q)][t], SyncWithPeer(DeviceAt(x, q), x, q))
            = Places(queue[PeerAt(x, q)][t], SyncWithPeer(DeviceAt(x, q), x, q))
        <3>1. PeerAt(x, q) \in Device
            BY EndsAreDevices
        <3>2. SyncWithPeer(DeviceAt(x, q), x, q) # cmd
            BY <1>z
        <3> QED
            BY <1>s, <3>1, <3>2 DEF Sends
    <2> QED
        BY <1>1, <2>2 DEF IInv, AskingOnce, One
<1>17. ConsentIsAsked'
    <2> SUFFICES ASSUME NEW x \in Device, NEW y \in Device, NEW t \in Opens[x] \cap Opens[y], NotAsked(x, t, y)'
                 PROVE  NotAsked(x, t, y)
        BY <1>1 DEF IInv, ConsentIsAsked
    <2>1. ASSUME NEW z \in Dials, NEW q \in Party, leader'[z][q].at = "requesting"
          PROVE  leader'[z][q] = leader[z][q] /\ wire'[z][q] = wire[z][q]
        BY <1>8, <1>9, <1>l, <2>1
    <2> QED
        BY <1>1, <2>1 DEF NotAsked
<1>18. StreamsOK'
    <2>1. ASSUME NEW x \in Dials, NEW q \in Party, x # c PROVE Fresh(x, q)'
        <3>1. Fresh(x, q)
            BY DEF IInv, StreamsOK
        <3>2. /\ wire'[x][q] = wire[x][q] /\ leader'[x][q] = leader[x][q]
              /\ streams'[x][q] = streams[x][q] /\ streams'[x][Dual(q)] = streams[x][Dual(q)]
            BY <1>8, <1>9, <1>r, <2>1, EndsAreDevices
        <3> QED
            BY <1>1, <3>1, <3>2 DEF Fresh
    <2>2. streams'[c][Dual(m)] = streams[c][Dual(m)]
        BY <1>3, <1>r
    <2>3. Fresh(c, m)'
        <3>1. Fresh(c, m)
            BY DEF IInv, StreamsOK
        <3>2. \A st \in streams'[c][m] : st \in streams[c][m] \/ st = new
            BY <1>r
        <3>3. [id |-> id, store |-> s, task |-> "client"] \in streams[c][Dual(m)]
            BY <1>0, <1>2, <3>1 DEF Fresh
        <3>4. id % 2 = FirstStreamId(m) % 2 /\ id <= id
            BY <1>0, <1>t, <3>1 DEF Fresh
        <3>5. /\ leader'[c][m].latest = id /\ leader'[c][m].at = "loop"
              /\ wire'[c][m].kind # "CreateStoreResponse"
            BY <1>0, <1>9, <1>l, <1>n, <1>w
        <3>6. \A st \in streams'[c][m] : st.task = "server" =>
                /\ st.id % 2 = FirstStreamId(m) % 2 /\ st.id <= id
                /\ [id |-> st.id, store |-> st.store, task |-> "client"] \in streams'[c][Dual(m)]
            <4> SUFFICES ASSUME NEW st \in streams'[c][m], st.task = "server"
                         PROVE  /\ st.id % 2 = FirstStreamId(m) % 2 /\ st.id <= id
                                /\ [id |-> st.id, store |-> st.store, task |-> "client"] \in streams[c][Dual(m)]
                BY <2>2
            <4>1. CASE st = new
                BY <3>3, <3>4, <4>1 DEF new
            <4>2. CASE st \in streams[c][m]
                BY <3>1, <4>2 DEF Fresh, id
            <4> QED
                BY <3>2, <4>1, <4>2
        <3>7. \A st \in streams'[c][Dual(m)] : st.task = "client" =>
                st.id % 2 = FirstStreamId(m) % 2 /\ st.id <= id
            BY <2>2, <3>1 DEF Fresh, id
        <3> QED
            BY <3>4, <3>5, <3>6, <3>7 DEF Fresh
    <2>4. Fresh(c, Dual(m))'
        <3>1. Fresh(c, Dual(m))
            BY <1>3 DEF IInv, StreamsOK
        <3>2. \A st \in streams'[c][m] : st.task = "client" => st \in streams[c][m]
            BY <1>r, <1>n
        <3>3. wire'[c][Dual(m)] = wire[c][Dual(m)] /\ leader'[c][Dual(m)] = leader[c][Dual(m)]
            BY <1>3, <1>8, <1>9
        <3>4. streams[c][m] \subseteq streams'[c][m]
            BY <1>r
        <3> QED
            BY <1>1, <1>3, <2>2, <3>1, <3>2, <3>3, <3>4 DEF Fresh
    <2>5. \A x \in Dials, q \in Party : Fresh(x, q)'
        BY <2>1, <2>3, <2>4 DEF Dual, Party
    <2>6. ASSUME NEW x \in Dials, NEW q \in Party, NEW st \in streams'[x][q], NEW su \in streams'[x][q], st.id = su.id
          PROVE  st = su
        <3>1. CASE x = c /\ q = m
            BY <1>6, <1>r, <1>n, <2>6, <3>1 DEF IInv, StreamsOK, StreamIds
        <3>2. CASE ~(x = c /\ q = m)
            BY <1>r, <2>6, <3>2 DEF IInv, StreamsOK
        <3> QED
            BY <3>1, <3>2
    <2> QED
        BY <2>5, <2>6 DEF StreamsOK
<1> QED
    BY <1>10, <1>11, <1>12, <1>13, <1>14, <1>15, <1>16, <1>17, <1>18 DEF IInv

-----------------------------------------------------------------------------
(* The commands of a store. *)

Info == [incoming : Status, outgoing : Status]
Updates(d, s, info) ==
    /\ peers' = [x \in Device |-> peers'[x]]
    /\ \A x \in Device : peers'[x] \in [Opens[x] -> [Device -> Info]]
    /\ peers'[d][s] = info
    /\ \A x \in Device : \A t \in Opens[x] : ~(x = d /\ t = s) => peers'[x][t] = peers[x][t]

(* A store changes what it knows of some peers.                             *)
LEMMA UpdatesFacts ==
    ASSUME StoreTypes, NEW d \in Device, NEW s \in Opens[d], NEW info \in [Device -> Info],
           peers' = [peers EXCEPT ![d][s] = info]
    PROVE  Updates(d, s, info)
<1>1. peers = [x \in Device |-> peers[x]] /\ \A x \in Device : peers[x] \in [Opens[x] -> [Device -> Info]]
    BY DEF StoreTypes, Info
<1>2. /\ peers' = [x \in Device |-> peers'[x]]
      /\ \A x \in Device : peers'[x] = IF x = d THEN [peers[d] EXCEPT ![s] = info] ELSE peers[x]
    BY <1>1
<1>3. \A x \in Device : peers'[x] \in [Opens[x] -> [Device -> Info]]
    BY <1>1, <1>2
<1>4. peers'[d][s] = info /\ \A x \in Device : \A t \in Opens[x] : ~(x = d /\ t = s) => peers'[x][t] = peers[x][t]
    BY <1>1, <1>2
<1> QED
    BY <1>2, <1>3, <1>4 DEF Updates

(* What a store has taken was true when it was sent and is still. *)
LEMMA TakenRuns ==
    ASSUME IInv, NEW d \in Device, NEW s \in Opens[d], NEW cmd, Taken(d, s, cmd)
    PROVE  /\ cmd.peer \in Device /\ d # cmd.peer /\ Runs(d, s) /\ Runs(cmd.peer, s)
           /\ cmd.kind = "SyncWithPeer" =>
                cmd.peer = DeviceAt(cmd.reply[1], cmd.reply[2]) /\ d = PeerAt(cmd.reply[1], cmd.reply[2])
BY DEF IInv, CommandsRun, Taken, Command

(* What a step of a store leaves alone in the queues.                       *)
LEMMA TakenFrame ==
    ASSUME IInv, NEW d \in Device, NEW s \in Opens[d], NEW cmd, Taken(d, s, cmd),
           UNCHANGED <<active, end, peer_state, leader, wire, streams>>
    PROVE  Connected' /\ CommandsRun' /\ StreamsOK'
<1>1. Connected'
    BY DEF IInv, Connected
<1>2. CommandsRun'
    <2> SUFFICES ASSUME NEW x \in Device, NEW t \in Opens[x], NEW i \in DOMAIN queue'[x][t],
                        NEW new, new = queue'[x][t][i]
                 PROVE  /\ x # new.peer /\ Runs(x, t)' /\ Runs(new.peer, t)'
                        /\ new.kind = "SyncWithPeer" =>
                            new.peer = DeviceAt(new.reply[1], new.reply[2]) /\ x = PeerAt(new.reply[1], new.reply[2])
        BY DEF CommandsRun
    <2>1. PICK j \in DOMAIN queue[x][t] : new = queue[x][t][j]
        BY DEF Taken
    <2> QED
        BY <2>1 DEF IInv, CommandsRun, Runs
<1>3. StreamsOK'
    <2>1. ASSUME NEW x \in Dials, NEW p \in Party PROVE Fresh(x, p)'
        <3>1. Fresh(x, p)
            BY DEF IInv, StreamsOK
        <3> QED
            BY <3>1 DEF Fresh
    <2> QED
        BY <2>1 DEF IInv, StreamsOK
<1> QED
    BY <1>1, <1>2, <1>3

(* Steps that leave the managers alone. *)
LEMMA SameConversations ==
    ASSUME IInv, UNCHANGED <<active, end, leader, follower, wire>>
    PROVE  Conversations'
<1> SUFFICES ASSUME NEW c \in Dials, NEW m \in Party PROVE Talk(c, m)'
    BY DEF Conversations
<1>1. Talk(c, m)
    BY DEF IInv, Conversations
<1>2. (Advertising(c, m) => Advertising(c, m)') /\ (Requesting(c, m) => Requesting(c, m)')
    BY DEF Advertising, Requesting, Follows, Runs
<1> QED
    BY <1>1, <1>2 DEF Talk, Leads, Follows

(* Types when a store takes a command.                                      *)
LEMMA TakenTypes ==
    ASSUME IInv, NEW d \in Device, NEW s \in Opens[d], NEW cmd, Taken(d, s, cmd), NEW info, Updates(d, s, info),
           UNCHANGED <<active, end, lost, peer_state>>, UNCHANGED <<leader, wire, changed, streams, panicked>>,
           follower' \in [Dials -> [Party -> FollowerState]], commands' \in [Device -> [Device -> Seq(Nat)]]
    PROVE  Types'
<1>1. StoreTypes'
    BY DEF IInv, Types, StoreTypes, Taken, Updates, Info
<1>2. ManagerTypes'
    BY DEF IInv, Types, ManagerTypes
<1> QED
    BY <1>1, <1>2, TaskTypesSuffice

(* A store that takes a registration has the peer marked as initializing.   *)
LEMMA CommandShape ==
    ASSUME NEW cmd \in Command
    PROVE  /\ cmd.kind = "RegisterOutgoingPeerSyncing" => cmd = RegisterOutgoing(cmd.peer)
           /\ cmd.kind = "RegisterIncomingPeerSyncing" => cmd = RegisterIncoming(cmd.peer)
           /\ cmd.kind = "SyncWithPeer" =>
                /\ cmd = SyncWithPeer(cmd.peer, cmd.reply[1], cmd.reply[2])
                /\ cmd.reply[1] \in Dials /\ cmd.reply[2] \in Party
<1>1. CASE cmd \in [kind : {"RegisterPeers", "RegisterOutgoingPeerSyncing", "RegisterIncomingPeerSyncing"}, peer : Device]
    BY <1>1 DEF RegisterOutgoing, RegisterIncoming
<1>2. CASE cmd \in [kind : {"SyncWithPeer"}, peer : Device, reply : Dials \X Party]
    <2>1. cmd.reply \in Dials \X Party /\ cmd.kind = "SyncWithPeer"
        BY <1>2
    <2>2. cmd.reply = <<cmd.reply[1], cmd.reply[2]>> /\ cmd.reply[1] \in Dials /\ cmd.reply[2] \in Party
        BY <2>1
    <2>3. cmd = [kind |-> "SyncWithPeer", peer |-> cmd.peer, reply |-> cmd.reply]
        BY <1>2
    <2> QED
        BY <2>1, <2>2, <2>3 DEF SyncWithPeer
<1> QED
    BY <1>1, <1>2 DEF Command

(* HandleRegisterOutgoing: initializing becomes syncing, at a stream of its *)
(* own.                                                                     *)
LEMMA RegisterOutgoingStep ==
    ASSUME IInv, NEW d \in Device, NEW s \in Opens[d], HandleRegisterOutgoing(d, s)
    PROVE  IInv'
<1> DEFINE cmd == Head(queue[d][s])
           e == cmd.peer
           before == peers[d][s]
           after == [before EXCEPT ![e].outgoing = "Syncing"]
<1>1. /\ UNCHANGED <<active, end, lost, peer_state>>
      /\ UNCHANGED <<commands, leader, follower, wire, changed, streams>>
      /\ Takes(d, s, "RegisterOutgoingPeerSyncing")
      /\ update_peer_to_syncing(d, s, before[e].outgoing, after)
    BY DEF HandleRegisterOutgoing, connVars, managerVars
<1>t. StoreTypes /\ before \in [Device -> Info]
    BY DEF IInv, Types, StoreTypes, Info
<1>2. Taken(d, s, cmd) /\ cmd.kind = "RegisterOutgoingPeerSyncing"
    BY <1>1, <1>t, TakesFacts
<1> HIDE DEF cmd
<1>3. e \in Device /\ cmd = RegisterOutgoing(e)
    <2>1. cmd \in Command
        BY <1>2 DEF Taken
    <2>2. cmd = RegisterOutgoing(cmd.peer)
        BY <1>2, <2>1, CommandShape
    <2>3. cmd.peer \in Device
        BY <1>2, TakenRuns
    <2> QED
        BY <2>2, <2>3
<1>4. /\ Places(queue[d][s], RegisterOutgoing(e)) = Places(queue'[d][s], RegisterOutgoing(e)) + 1
      /\ Places(queue'[d][s], RegisterOutgoing(e)) \in Nat
    BY <1>2, <1>3, TakenPlaces DEF Taken
<1>5. Places(commands[d][e], s) + One(Asks(d, s, e)) + Places(queue[d][s], RegisterOutgoing(e))
        = One(before[e].outgoing = "Initializing")
    BY <1>3 DEF IInv, OutgoingOnce
<1>c. \A x, y \in Device : \A t : Places(commands[x][y], t) \in Nat
    <2> TAKE x, y \in Device
    <2> TAKE t
    <2>1. commands[x][y] \in Seq(Nat)
        BY DEF IInv, Types, ManagerTypes
    <2> QED
        BY <2>1, PlacesFinite
<1>6. /\ before[e].outgoing = "Initializing"
      /\ Places(commands[d][e], s) + One(Asks(d, s, e)) + Places(queue'[d][s], RegisterOutgoing(e)) = 0
    <2>1. Places(commands[d][e], s) \in Nat
        BY <1>3, <1>c
    <2>2. One(Asks(d, s, e)) \in {0, 1}
        BY DEF One
    <2>3. before[e].outgoing = "Initializing"
        <3> SUFFICES ASSUME before[e].outgoing # "Initializing" PROVE FALSE
            OBVIOUS
        <3>1. One(before[e].outgoing = "Initializing") = 0
            BY DEF One
        <3> QED
            BY <1>4, <1>5, <2>1, <2>2, <3>1
    <2>4. One(before[e].outgoing = "Initializing") = 1
        BY <2>3 DEF One
    <2> QED
        BY <1>4, <1>5, <2>1, <2>2, <2>3, <2>4
<1>7. peers' = [peers EXCEPT ![d][s] = after] /\ UNCHANGED panicked
    BY <1>1, <1>6 DEF update_peer_to_syncing
<1>8. /\ after \in [Device -> Info]
      /\ after[e].outgoing = "Syncing" /\ after[e].incoming = before[e].incoming
      /\ \A y \in Device : y # e => after[y] = before[y]
    BY <1>3, <1>t DEF Info, Status
<1>9. before = peers[d][s]
    OBVIOUS
<1> HIDE DEF after, e, before
<1>10. Updates(d, s, after)
    BY <1>7, <1>8, <1>t, UpdatesFacts
<1>p. ASSUME NEW x \in Device, NEW t \in Opens[x], NEW y \in Device
      PROVE  /\ peers'[x][t][y].incoming = peers[x][t][y].incoming
             /\ ~(x = d /\ t = s /\ y = e) => peers'[x][t][y].outgoing = peers[x][t][y].outgoing
             /\ x = d /\ t = s /\ y = e => peers'[x][t][y].outgoing = "Syncing"
    BY <1>8, <1>9, <1>10 DEF Updates
<1>q. ASSUME NEW x \in Device, NEW t \in Opens[x], NEW y, y # cmd
      PROVE  Places(queue'[x][t], y) = Places(queue[x][t], y)
    BY <1>2, <1>q, TakenPlaces
<1>11. Types'
    <2>1. follower' \in [Dials -> [Party -> FollowerState]] /\ commands' \in [Device -> [Device -> Seq(Nat)]]
        BY <1>1 DEF IInv, Types, ManagerTypes
    <2>2. UNCHANGED <<active, end, lost, peer_state>> /\ UNCHANGED <<leader, wire, changed, streams, panicked>>
        BY <1>1, <1>7
    <2> QED
        BY <1>2, <1>10, <2>1, <2>2, TakenTypes
<1>12. Connected' /\ CommandsRun' /\ StreamsOK'
    <2>1. UNCHANGED <<active, end, peer_state, leader, wire, streams>>
        BY <1>1
    <2> QED
        BY <1>2, <2>1, TakenFrame
<1>13. Conversations'
    <2>1. UNCHANGED <<active, end, leader, follower, wire>>
        BY <1>1
    <2> QED
        BY <2>1, SameConversations
<1>14. KnownRuns' /\ CommandsOpen'
    <2>1. CommandsOpen'
        BY <1>1 DEF IInv, CommandsOpen
    <2>2. KnownRuns'
        BY <1>1, <1>3, <1>6, <1>9, <1>p DEF IInv, KnownRuns, Runs
    <2> QED
        BY <2>1, <2>2
<1>15. OutgoingOnce'
    <2> SUFFICES ASSUME NEW x \in Device, NEW t \in Opens[x], NEW y \in Device
                 PROVE  Places(commands'[x][y], t) + One(Asks(x, t, y)') + Places(queue'[x][t], RegisterOutgoing(y))
                            = One(peers'[x][t][y].outgoing = "Initializing")
        BY DEF OutgoingOnce
    <2>0. Places(commands[x][y], t) + One(Asks(x, t, y)) + Places(queue[x][t], RegisterOutgoing(y))
                = One(peers[x][t][y].outgoing = "Initializing")
        BY DEF IInv, OutgoingOnce
    <2>1. Asks(x, t, y)' <=> Asks(x, t, y)
        BY <1>1 DEF Asks
    <2>2. One(Asks(x, t, y)') = One(Asks(x, t, y))
        BY <2>1 DEF One
    <2>3. CASE x = d /\ t = s /\ y = e
        <3>1. peers'[x][t][y].outgoing # "Initializing"
            BY <1>p, <2>3
        <3> QED
            BY <1>1, <1>6, <2>2, <2>3, <3>1 DEF One
    <2>4. CASE ~(x = d /\ t = s /\ y = e)
        <3>1. Places(queue'[x][t], RegisterOutgoing(y)) = Places(queue[x][t], RegisterOutgoing(y))
            <4>1. ~(x = d /\ t = s /\ RegisterOutgoing(y) = cmd)
                BY <1>3, <2>4 DEF RegisterOutgoing
            <4> QED
                BY <1>2, <4>1, TakenPlaces
        <3>2. peers'[x][t][y].outgoing = peers[x][t][y].outgoing
            BY <1>p, <2>4
        <3> QED
            BY <1>1, <2>0, <2>2, <3>1, <3>2
    <2> QED
        BY <2>3, <2>4
<1>16. IncomingOnce'
    <2> SUFFICES ASSUME NEW x \in Device, NEW t \in Opens[x], NEW y \in Device
                 PROVE  One(Creates(x, t, y)') + Places(queue'[x][t], RegisterIncoming(y))
                            = One(peers'[x][t][y].incoming = "Initializing")
        BY DEF IncomingOnce
    <2>1. Places(queue'[x][t], RegisterIncoming(y)) = Places(queue[x][t], RegisterIncoming(y))
        <3>1. RegisterIncoming(y) # cmd
            BY <1>3 DEF RegisterIncoming, RegisterOutgoing
        <3> QED
            BY <1>q, <3>1
    <2>2. Creates(x, t, y)' <=> Creates(x, t, y)
        BY <1>1 DEF Creates
    <2>3. peers'[x][t][y].incoming = peers[x][t][y].incoming
        BY <1>p
    <2> QED
        BY <2>1, <2>2, <2>3 DEF IInv, IncomingOnce, One
<1>17. AskingOnce'
    <2> SUFFICES ASSUME NEW x \in Dials, NEW q \in Party, NEW t \in Opens[PeerAt(x, q)]
                 PROVE  Places(queue'[PeerAt(x, q)][t], SyncWithPeer(DeviceAt(x, q), x, q))
                            = One(follower'[x][q].at = "asking" /\ follower'[x][q].store = t)
        BY DEF AskingOnce
    <2>1. Places(queue'[PeerAt(x, q)][t], SyncWithPeer(DeviceAt(x, q), x, q))
            = Places(queue[PeerAt(x, q)][t], SyncWithPeer(DeviceAt(x, q), x, q))
        <3>1. PeerAt(x, q) \in Device
            BY EndsAreDevices
        <3>2. SyncWithPeer(DeviceAt(x, q), x, q) # cmd
            BY <1>3 DEF SyncWithPeer, RegisterOutgoing
        <3> QED
            BY <1>q, <3>1, <3>2
    <2> QED
        BY <1>1, <2>1 DEF IInv, AskingOnce, One
<1>18. ConsentIsAsked'
    <2> SUFFICES ASSUME NEW x \in Device, NEW y \in Device, NEW t \in Opens[x] \cap Opens[y], NotAsked(x, t, y)'
                 PROVE  peers'[y][t][x].incoming \in {"Unknown", "Known"}
        BY DEF ConsentIsAsked
    <2>1. peers'[x][t][y].outgoing \in {"Unknown", "Known"} => peers[x][t][y].outgoing \in {"Unknown", "Known"}
        BY <1>p
    <2>2. NotAsked(x, t, y)
        BY <1>1, <2>1 DEF NotAsked
    <2> QED
        BY <1>p, <2>2 DEF IInv, ConsentIsAsked
<1> QED
    BY <1>11, <1>12, <1>13, <1>14, <1>15, <1>16, <1>17, <1>18 DEF IInv

(* HandleRegisterIncoming: the same in the other direction.                 *)
LEMMA RegisterIncomingStep ==
    ASSUME IInv, NEW d \in Device, NEW s \in Opens[d], HandleRegisterIncoming(d, s)
    PROVE  IInv'
<1> DEFINE cmd == Head(queue[d][s])
           e == cmd.peer
           before == peers[d][s]
           after == [before EXCEPT ![e].incoming = "Syncing"]
<1>1. /\ UNCHANGED <<active, end, lost, peer_state>>
      /\ UNCHANGED <<commands, leader, follower, wire, changed, streams>>
      /\ Takes(d, s, "RegisterIncomingPeerSyncing")
      /\ update_peer_to_syncing(d, s, before[e].incoming, after)
    BY DEF HandleRegisterIncoming, connVars, managerVars
<1>t. StoreTypes /\ before \in [Device -> Info]
    BY DEF IInv, Types, StoreTypes, Info
<1>2. Taken(d, s, cmd) /\ cmd.kind = "RegisterIncomingPeerSyncing"
    BY <1>1, <1>t, TakesFacts
<1> HIDE DEF cmd
<1>3. e \in Device /\ cmd = RegisterIncoming(e)
    <2>1. cmd \in Command
        BY <1>2 DEF Taken
    <2>2. cmd = RegisterIncoming(cmd.peer)
        BY <1>2, <2>1, CommandShape
    <2>3. cmd.peer \in Device
        BY <1>2, TakenRuns
    <2> QED
        BY <2>2, <2>3
<1>4. /\ Places(queue[d][s], RegisterIncoming(e)) = Places(queue'[d][s], RegisterIncoming(e)) + 1
      /\ Places(queue'[d][s], RegisterIncoming(e)) \in Nat
    BY <1>2, <1>3, TakenPlaces DEF Taken
<1>5. One(Creates(d, s, e)) + Places(queue[d][s], RegisterIncoming(e)) = One(before[e].incoming = "Initializing")
    BY <1>3 DEF IInv, IncomingOnce
<1>6. /\ before[e].incoming = "Initializing"
      /\ One(Creates(d, s, e)) + Places(queue'[d][s], RegisterIncoming(e)) = 0
    <2>2. One(Creates(d, s, e)) \in {0, 1}
        BY DEF One
    <2>3. before[e].incoming = "Initializing"
        <3> SUFFICES ASSUME before[e].incoming # "Initializing" PROVE FALSE
            OBVIOUS
        <3>1. One(before[e].incoming = "Initializing") = 0
            BY DEF One
        <3> QED
            BY <1>4, <1>5, <2>2, <3>1
    <2>4. One(before[e].incoming = "Initializing") = 1
        BY <2>3 DEF One
    <2> QED
        BY <1>4, <1>5, <2>2, <2>3, <2>4
<1>7. peers' = [peers EXCEPT ![d][s] = after] /\ UNCHANGED panicked
    BY <1>1, <1>6 DEF update_peer_to_syncing
<1>8. /\ after \in [Device -> Info]
      /\ after[e].incoming = "Syncing" /\ after[e].outgoing = before[e].outgoing
      /\ \A y \in Device : y # e => after[y] = before[y]
    BY <1>3, <1>t DEF Info, Status
<1>9. before = peers[d][s]
    OBVIOUS
<1> HIDE DEF after, e, before
<1>10. Updates(d, s, after)
    BY <1>7, <1>8, <1>t, UpdatesFacts
<1>p. ASSUME NEW x \in Device, NEW t \in Opens[x], NEW y \in Device
      PROVE  /\ peers'[x][t][y].outgoing = peers[x][t][y].outgoing
             /\ ~(x = d /\ t = s /\ y = e) => peers'[x][t][y].incoming = peers[x][t][y].incoming
             /\ x = d /\ t = s /\ y = e => peers'[x][t][y].incoming = "Syncing"
    BY <1>8, <1>9, <1>10 DEF Updates
<1>q. ASSUME NEW x \in Device, NEW t \in Opens[x], NEW y, y # cmd
      PROVE  Places(queue'[x][t], y) = Places(queue[x][t], y)
    BY <1>2, <1>q, TakenPlaces
<1>11. Types'
    <2>1. follower' \in [Dials -> [Party -> FollowerState]] /\ commands' \in [Device -> [Device -> Seq(Nat)]]
        BY <1>1 DEF IInv, Types, ManagerTypes
    <2>2. UNCHANGED <<active, end, lost, peer_state>> /\ UNCHANGED <<leader, wire, changed, streams, panicked>>
        BY <1>1, <1>7
    <2> QED
        BY <1>2, <1>10, <2>1, <2>2, TakenTypes
<1>12. Connected' /\ CommandsRun' /\ StreamsOK'
    <2>1. UNCHANGED <<active, end, peer_state, leader, wire, streams>>
        BY <1>1
    <2> QED
        BY <1>2, <2>1, TakenFrame
<1>13. Conversations'
    <2>1. UNCHANGED <<active, end, leader, follower, wire>>
        BY <1>1
    <2> QED
        BY <2>1, SameConversations
<1>14. KnownRuns' /\ CommandsOpen'
    <2>1. CommandsOpen'
        BY <1>1 DEF IInv, CommandsOpen
    <2>2. KnownRuns'
        BY <1>1, <1>3, <1>6, <1>9, <1>p DEF IInv, KnownRuns, Runs
    <2> QED
        BY <2>1, <2>2
<1>15. OutgoingOnce'
    <2> SUFFICES ASSUME NEW x \in Device, NEW t \in Opens[x], NEW y \in Device
                 PROVE  Places(commands'[x][y], t) + One(Asks(x, t, y)') + Places(queue'[x][t], RegisterOutgoing(y))
                            = One(peers'[x][t][y].outgoing = "Initializing")
        BY DEF OutgoingOnce
    <2>1. Places(queue'[x][t], RegisterOutgoing(y)) = Places(queue[x][t], RegisterOutgoing(y))
        <3>1. RegisterOutgoing(y) # cmd
            BY <1>3 DEF RegisterIncoming, RegisterOutgoing
        <3> QED
            BY <1>q, <3>1
    <2>2. Asks(x, t, y)' <=> Asks(x, t, y)
        BY <1>1 DEF Asks
    <2>3. peers'[x][t][y].outgoing = peers[x][t][y].outgoing
        BY <1>p
    <2> QED
        BY <1>1, <2>1, <2>2, <2>3 DEF IInv, OutgoingOnce, One
<1>16. IncomingOnce'
    <2> SUFFICES ASSUME NEW x \in Device, NEW t \in Opens[x], NEW y \in Device
                 PROVE  One(Creates(x, t, y)') + Places(queue'[x][t], RegisterIncoming(y))
                            = One(peers'[x][t][y].incoming = "Initializing")
        BY DEF IncomingOnce
    <2>0. One(Creates(x, t, y)) + Places(queue[x][t], RegisterIncoming(y))
                = One(peers[x][t][y].incoming = "Initializing")
        BY DEF IInv, IncomingOnce
    <2>1. Creates(x, t, y)' <=> Creates(x, t, y)
        BY <1>1 DEF Creates
    <2>2. One(Creates(x, t, y)') = One(Creates(x, t, y))
        BY <2>1 DEF One
    <2>3. CASE x = d /\ t = s /\ y = e
        <3>1. peers'[x][t][y].incoming # "Initializing"
            BY <1>p, <2>3
        <3> QED
            BY <1>1, <1>6, <2>2, <2>3, <3>1 DEF One
    <2>4. CASE ~(x = d /\ t = s /\ y = e)
        <3>1. Places(queue'[x][t], RegisterIncoming(y)) = Places(queue[x][t], RegisterIncoming(y))
            <4>1. ~(x = d /\ t = s /\ RegisterIncoming(y) = cmd)
                BY <1>3, <2>4 DEF RegisterIncoming
            <4> QED
                BY <1>2, <4>1, TakenPlaces
        <3>2. peers'[x][t][y].incoming = peers[x][t][y].incoming
            BY <1>p, <2>4
        <3> QED
            BY <1>1, <2>0, <2>2, <3>1, <3>2
    <2> QED
        BY <2>3, <2>4
<1>17. AskingOnce'
    <2> SUFFICES ASSUME NEW x \in Dials, NEW q \in Party, NEW t \in Opens[PeerAt(x, q)]
                 PROVE  Places(queue'[PeerAt(x, q)][t], SyncWithPeer(DeviceAt(x, q), x, q))
                            = One(follower'[x][q].at = "asking" /\ follower'[x][q].store = t)
        BY DEF AskingOnce
    <2>1. Places(queue'[PeerAt(x, q)][t], SyncWithPeer(DeviceAt(x, q), x, q))
            = Places(queue[PeerAt(x, q)][t], SyncWithPeer(DeviceAt(x, q), x, q))
        <3>1. PeerAt(x, q) \in Device
            BY EndsAreDevices
        <3>2. SyncWithPeer(DeviceAt(x, q), x, q) # cmd
            BY <1>3 DEF SyncWithPeer, RegisterIncoming
        <3> QED
            BY <1>q, <3>1, <3>2
    <2> QED
        BY <1>1, <2>1 DEF IInv, AskingOnce, One
<1>18. ConsentIsAsked'
    <2> SUFFICES ASSUME NEW x \in Device, NEW y \in Device, NEW t \in Opens[x] \cap Opens[y], NotAsked(x, t, y)'
                 PROVE  peers'[y][t][x].incoming \in {"Unknown", "Known"}
        BY DEF ConsentIsAsked
    <2>1. peers'[x][t][y].outgoing = peers[x][t][y].outgoing
        BY <1>p
    <2>2. NotAsked(x, t, y)
        BY <1>1, <2>1 DEF NotAsked
    <2>3. peers[y][t][x].incoming \in {"Unknown", "Known"}
        BY <2>2 DEF IInv, ConsentIsAsked
    <2> QED
        BY <1>6, <1>9, <1>p, <2>3
<1> QED
    BY <1>11, <1>12, <1>13, <1>14, <1>15, <1>16, <1>17, <1>18 DEF IInv

(* HandleRegisterPeers: a new peer is asked for, one that is known is not.  *)
LEMMA RegisterPeersStep ==
    ASSUME IInv, NEW d \in Device, NEW s \in Opens[d], HandleRegisterPeers(d, s)
    PROVE  IInv'
<1> DEFINE cmd == Head(queue[d][s])
           e == cmd.peer
           before == peers[d][s]
           known == [before EXCEPT ![e] = insert_known_peer(before[e])]
           chosen == {y \in Device : known[y].outgoing = "Known" /\ peer_state[d][y] # NoConnection}
           after == [y \in Device |-> IF y \in chosen THEN [known[y] EXCEPT !.outgoing = "Initializing"] ELSE known[y]]
           asked == [y \in Device |-> IF y \in chosen THEN Append(commands[d][y], s) ELSE commands[d][y]]
<1>1. /\ UNCHANGED <<active, end, lost, peer_state>>
      /\ UNCHANGED <<leader, follower, wire, changed, streams, panicked>>
      /\ Takes(d, s, "RegisterPeers")
    BY DEF HandleRegisterPeers, connVars, managerVars
<1>7. peers' = [peers EXCEPT ![d][s] = after] /\ commands' = [commands EXCEPT ![d] = asked]
    BY DEF HandleRegisterPeers, manage_peers
<1>t. /\ StoreTypes /\ before \in [Device -> Info] /\ commands \in [Device -> [Device -> Seq(Nat)]]
      /\ s \in Nat
    BY PeerManagerAssumption DEF IInv, Types, StoreTypes, ManagerTypes, Info
<1>2. Taken(d, s, cmd) /\ cmd.kind = "RegisterPeers"
    BY <1>1, <1>t, TakesFacts
<1>9. before = peers[d][s]
    OBVIOUS
<1> HIDE DEF cmd
<1>3. e \in Device /\ d # e /\ Runs(d, s) /\ Runs(e, s)
    BY <1>2, TakenRuns
<1>4. known \in [Device -> Info] /\ \A y \in Device : known[y] = IF y = e THEN insert_known_peer(before[e]) ELSE before[y]
    BY <1>3, <1>t DEF insert_known_peer, Info, Status
<1>5. \A y \in Device : before[y].incoming = "Unknown" <=> before[y].outgoing = "Unknown"
    BY <1>9 DEF IInv, KnownRuns
<1> HIDE DEF e, before
<1>6. ASSUME NEW y \in Device
      PROVE  /\ known[y].outgoing = "Unknown" <=> known[y].incoming = "Unknown"
             /\ known[y].outgoing = before[y].outgoing
                    \/ (before[y].outgoing = "Unknown" /\ known[y].outgoing = "Known")
             /\ known[y].incoming = before[y].incoming
                    \/ (before[y].incoming = "Unknown" /\ known[y].incoming = "Known")
             /\ y # e => known[y] = before[y]
    BY <1>4, <1>5 DEF insert_known_peer
<1>k. \A y \in Device : known[y] \in Info
    BY <1>4
<1> HIDE DEF known
<1>8. ASSUME NEW y \in Device
      PROVE  /\ after[y] \in Info
             /\ after[y].incoming = known[y].incoming
             /\ after[y].outgoing = IF y \in chosen THEN "Initializing" ELSE known[y].outgoing
             /\ y \in chosen => known[y].outgoing = "Known"
    BY <1>k DEF Info, Status
<1>a. after \in [Device -> Info]
    BY <1>8
<1>b. \A y \in Device : asked[y] = IF y \in chosen THEN Append(commands[d][y], s) ELSE commands[d][y]
    OBVIOUS
<1>d. asked \in [Device -> Seq(Nat)]
    BY <1>t
<1> HIDE DEF after, chosen, asked
<1>10. Updates(d, s, after)
    BY <1>7, <1>a, <1>t, UpdatesFacts
<1>c. ASSUME NEW x \in Device, NEW y \in Device
      PROVE  commands'[x][y] = IF x = d /\ y \in chosen THEN Append(commands[x][y], s) ELSE commands[x][y]
    BY <1>7, <1>b, <1>t
<1>p. ASSUME NEW x \in Device, NEW t \in Opens[x], NEW y \in Device
      PROVE  /\ peers'[x][t][y] = IF x = d /\ t = s THEN after[y] ELSE peers[x][t][y]
             /\ peers'[x][t][y].incoming = peers[x][t][y].incoming
                    \/ (peers[x][t][y].incoming = "Unknown" /\ peers'[x][t][y].incoming = "Known")
    <2>1. peers'[x][t][y] = IF x = d /\ t = s THEN after[y] ELSE peers[x][t][y]
        BY <1>10 DEF Updates
    <2> QED
        BY <1>6, <1>8, <1>9, <2>1
<1>q. ASSUME NEW x \in Device, NEW t \in Opens[x], NEW y, y.kind # "RegisterPeers"
      PROVE  Places(queue'[x][t], y) = Places(queue[x][t], y)
    <2>1. y # cmd
        BY <1>2, <1>q
    <2> QED
        BY <1>2, <2>1, TakenPlaces
<1>o. ASSUME NEW x \in Device, NEW t, NEW y \in Device
      PROVE  /\ Places(commands[x][y], t) \in Nat
             /\ Places(commands'[x][y], t) =
                    IF x = d /\ y \in chosen /\ t = s THEN Places(commands[x][y], t) + 1 ELSE Places(commands[x][y], t)
    <2>1. commands[x][y] \in Seq(Nat)
        BY <1>t
    <2>2. Places(commands[x][y], t) \in Nat
        BY <2>1, PlacesFinite
    <2>3. Places(Append(commands[x][y], s), t) =
            IF t = s THEN Places(commands[x][y], t) + 1 ELSE Places(commands[x][y], t)
        <3> DEFINE all == commands[x][y]
        <3>1. all \in Seq(Nat) /\ s \in Nat
            BY <1>t, <2>1
        <3> HIDE DEF all
        <3>2. Places(Append(all, s), t) = IF t = s THEN Places(all, t) + 1 ELSE Places(all, t)
            BY <3>1, PlacesAppend
        <3> QED
            BY <3>2 DEF all
    <2> QED
        BY <1>c, <2>2, <2>3
<1>11. Types'
    <2>1. follower' \in [Dials -> [Party -> FollowerState]]
        BY <1>1 DEF IInv, Types, ManagerTypes
    <2>2. commands' \in [Device -> [Device -> Seq(Nat)]]
        BY <1>7, <1>d, <1>t
    <2>3. UNCHANGED <<active, end, lost, peer_state>> /\ UNCHANGED <<leader, wire, changed, streams, panicked>>
        BY <1>1
    <2> QED
        BY <1>2, <1>10, <2>1, <2>2, <2>3, TakenTypes
<1>12. Connected' /\ CommandsRun' /\ StreamsOK'
    <2>1. UNCHANGED <<active, end, peer_state, leader, wire, streams>>
        BY <1>1
    <2> QED
        BY <1>2, <2>1, TakenFrame
<1>13. Conversations'
    <2>1. UNCHANGED <<active, end, leader, follower, wire>>
        BY <1>1
    <2> QED
        BY <2>1, SameConversations
<1>14. KnownRuns'
    <2> SUFFICES ASSUME NEW x \in Device, NEW t \in Opens[x], NEW y \in Device
                 PROVE  /\ peers'[x][t][y].incoming = "Unknown" <=> peers'[x][t][y].outgoing = "Unknown"
                        /\ peers'[x][t][y].incoming # "Unknown" => x # y /\ Runs(x, t)' /\ Runs(y, t)'
        BY DEF KnownRuns
    <2>1. CASE x = d /\ t = s
        <3>1. after[y].incoming = "Unknown" <=> after[y].outgoing = "Unknown"
            BY <1>6, <1>8
        <3>2. after[y].incoming # "Unknown" => d # y /\ Runs(d, s)' /\ Runs(y, s)'
            BY <1>1, <1>3, <1>6, <1>8, <1>9 DEF IInv, KnownRuns, Runs
        <3> QED
            BY <1>p, <2>1, <3>1, <3>2
    <2>2. CASE ~(x = d /\ t = s)
        BY <1>1, <1>p, <2>2 DEF IInv, KnownRuns, Runs
    <2> QED
        BY <2>1, <2>2
<1>15. CommandsOpen'
    <2> SUFFICES ASSUME NEW x \in Device, NEW y \in Device, NEW i \in DOMAIN commands'[x][y]
                 PROVE  commands'[x][y][i] \in Opens[x]
        BY DEF CommandsOpen
    <2>1. CASE x = d /\ y \in chosen
        <3>1. commands[x][y] \in Seq(Nat) /\ i \in DOMAIN Append(commands[x][y], s)
            BY <1>c, <1>t, <2>1
        <3>2. \/ i \in DOMAIN commands[x][y] /\ Append(commands[x][y], s)[i] = commands[x][y][i]
              \/ Append(commands[x][y], s)[i] = s
            BY <1>t, <3>1, AppendAt
        <3> QED
            BY <1>c, <2>1, <3>2 DEF IInv, CommandsOpen
    <2>2. CASE ~(x = d /\ y \in chosen)
        BY <1>c, <2>2 DEF IInv, CommandsOpen
    <2> QED
        BY <2>1, <2>2
<1>16. OutgoingOnce'
    <2> SUFFICES ASSUME NEW x \in Device, NEW t \in Opens[x], NEW y \in Device
                 PROVE  Places(commands'[x][y], t) + One(Asks(x, t, y)') + Places(queue'[x][t], RegisterOutgoing(y))
                            = One(peers'[x][t][y].outgoing = "Initializing")
        BY DEF OutgoingOnce
    <2>0. Places(commands[x][y], t) + One(Asks(x, t, y)) + Places(queue[x][t], RegisterOutgoing(y))
                = One(peers[x][t][y].outgoing = "Initializing")
        BY DEF IInv, OutgoingOnce
    <2>1. Asks(x, t, y)' <=> Asks(x, t, y)
        BY <1>1 DEF Asks
    <2>2. One(Asks(x, t, y)') = One(Asks(x, t, y)) /\ One(Asks(x, t, y)) \in {0, 1}
        BY <2>1 DEF One
    <2>3. Places(queue'[x][t], RegisterOutgoing(y)) = Places(queue[x][t], RegisterOutgoing(y))
        BY <1>q DEF RegisterOutgoing
    <2>n. Places(queue'[x][t], RegisterOutgoing(y)) \in Nat
        BY <1>2, TakenPlaces
    <2>4. CASE x = d /\ t = s /\ y \in chosen
        <3>1. peers'[x][t][y].outgoing = "Initializing"
            BY <1>8, <1>p, <2>4
        <3>2. peers[x][t][y].outgoing # "Initializing"
            BY <1>6, <1>8, <1>9, <2>4
        <3>3. One(peers'[x][t][y].outgoing = "Initializing") = 1
            BY <3>1 DEF One
        <3>4. One(peers[x][t][y].outgoing = "Initializing") = 0
            BY <3>2 DEF One
        <3>5. Places(commands'[x][y], t) = Places(commands[x][y], t) + 1
            BY <1>o, <2>4
        <3>6. Places(commands[x][y], t) \in Nat
            BY <1>o
        <3> QED
            BY <2>0, <2>2, <2>3, <2>n, <3>3, <3>4, <3>5, <3>6
    <2>5. CASE ~(x = d /\ t = s /\ y \in chosen)
        <3>1. peers'[x][t][y].outgoing = "Initializing" <=> peers[x][t][y].outgoing = "Initializing"
            BY <1>6, <1>8, <1>9, <1>p, <2>5
        <3>2. One(peers'[x][t][y].outgoing = "Initializing") = One(peers[x][t][y].outgoing = "Initializing")
            BY <3>1 DEF One
        <3>3. Places(commands'[x][y], t) = Places(commands[x][y], t)
            BY <1>o, <2>5
        <3> QED
            BY <2>0, <2>2, <2>3, <3>2, <3>3
    <2> QED
        BY <2>4, <2>5
<1>17. IncomingOnce'
    <2> SUFFICES ASSUME NEW x \in Device, NEW t \in Opens[x], NEW y \in Device
                 PROVE  One(Creates(x, t, y)') + Places(queue'[x][t], RegisterIncoming(y))
                            = One(peers'[x][t][y].incoming = "Initializing")
        BY DEF IncomingOnce
    <2>1. Places(queue'[x][t], RegisterIncoming(y)) = Places(queue[x][t], RegisterIncoming(y))
        BY <1>q DEF RegisterIncoming
    <2>2. Creates(x, t, y)' <=> Creates(x, t, y)
        BY <1>1 DEF Creates
    <2>3. peers'[x][t][y].incoming = "Initializing" <=> peers[x][t][y].incoming = "Initializing"
        BY <1>p
    <2> QED
        BY <2>1, <2>2, <2>3 DEF IInv, IncomingOnce, One
<1>18. AskingOnce'
    <2> SUFFICES ASSUME NEW x \in Dials, NEW p \in Party, NEW t \in Opens[PeerAt(x, p)]
                 PROVE  Places(queue'[PeerAt(x, p)][t], SyncWithPeer(DeviceAt(x, p), x, p))
                            = One(follower'[x][p].at = "asking" /\ follower'[x][p].store = t)
        BY DEF AskingOnce
    <2>1. Places(queue'[PeerAt(x, p)][t], SyncWithPeer(DeviceAt(x, p), x, p))
            = Places(queue[PeerAt(x, p)][t], SyncWithPeer(DeviceAt(x, p), x, p))
        <3>1. PeerAt(x, p) \in Device
            BY EndsAreDevices
        <3>2. SyncWithPeer(DeviceAt(x, p), x, p).kind # "RegisterPeers"
            BY DEF SyncWithPeer
        <3> QED
            BY <1>q, <3>1, <3>2
    <2> QED
        BY <1>1, <2>1 DEF IInv, AskingOnce, One
<1>19. ConsentIsAsked'
    <2> SUFFICES ASSUME NEW x \in Device, NEW y \in Device, NEW t \in Opens[x] \cap Opens[y], NotAsked(x, t, y)'
                 PROVE  peers'[y][t][x].incoming \in {"Unknown", "Known"}
        BY DEF ConsentIsAsked
    <2>1. NotAsked(x, t, y)
        <3>1. CASE peers'[x][t][y].outgoing \in {"Unknown", "Known"}
            <4>1. peers[x][t][y].outgoing \in {"Unknown", "Known"}
                BY <1>6, <1>8, <1>9, <1>p, <3>1
            <4> QED
                BY <4>1 DEF NotAsked
        <3>2. CASE Places(commands'[x][y], t) # 0
            <4>1. CASE x = d /\ t = s /\ y \in chosen
                <5>1. peers[x][t][y].outgoing \in {"Unknown", "Known"}
                    BY <1>6, <1>8, <1>9, <4>1
                <5> QED
                    BY <5>1 DEF NotAsked
            <4>2. CASE ~(x = d /\ t = s /\ y \in chosen)
                <5>1. Places(commands[x][y], t) # 0
                    BY <1>o, <3>2, <4>2
                <5> QED
                    BY <5>1 DEF NotAsked
            <4> QED
                BY <4>1, <4>2
        <3> QED
            BY <1>1, <3>1, <3>2 DEF NotAsked
    <2>2. peers[y][t][x].incoming \in {"Unknown", "Known"}
        BY <2>1 DEF IInv, ConsentIsAsked
    <2> QED
        BY <1>p, <2>2
<1> QED
    BY <1>11, <1>12, <1>13, <1>14, <1>15, <1>16, <1>17, <1>18, <1>19 DEF IInv

(* HandleSyncWithPeer: consent is given, and the status set, only if        *)
(* nothing is under way.                                                    *)
LEMMA SyncWithPeerStep ==
    ASSUME IInv, NEW d \in Device, NEW s \in Opens[d], HandleSyncWithPeer(d, s)
    PROVE  IInv'
<1> DEFINE cmd == Head(queue[d][s])
           e == cmd.peer
           c == cmd.reply[1]
           m == cmd.reply[2]
           before == peers[d][s]
           info == insert_known_peer(before[e])
           after == [before EXCEPT ![e] = [info EXCEPT !.incoming = "Initializing"]]
           f == [follower[c][m] EXCEPT !.at = "creating"]
<1>1. /\ UNCHANGED <<active, end, lost, peer_state>>
      /\ UNCHANGED <<commands, leader, wire, changed, streams, panicked>>
      /\ Takes(d, s, "SyncWithPeer")
    BY DEF HandleSyncWithPeer, connVars
<1>t. /\ StoreTypes /\ before \in [Device -> Info] /\ commands \in [Device -> [Device -> Seq(Nat)]]
      /\ follower \in [Dials -> [Party -> FollowerState]] /\ leader \in [Dials -> [Party -> LeaderState]]
    BY DEF IInv, Types, StoreTypes, ManagerTypes, Info
<1>2. Taken(d, s, cmd) /\ cmd.kind = "SyncWithPeer"
    BY <1>1, <1>t, TakesFacts
<1>x. /\ info.incoming = "Known" =>
            /\ peers' = [peers EXCEPT ![d][s][e] = [info EXCEPT !.incoming = "Initializing"]]
            /\ follower' = [follower EXCEPT ![c][m].at = "creating"]
    BY DEF HandleSyncWithPeer
<1>9. before = peers[d][s]
    OBVIOUS
<1> HIDE DEF cmd
<1>3. /\ e \in Device /\ d # e /\ Runs(d, s) /\ Runs(e, s) /\ e = DeviceAt(c, m) /\ d = PeerAt(c, m)
      /\ s \in Opens[e]
    <2>1. /\ e \in Device /\ d # e /\ Runs(d, s) /\ Runs(e, s) /\ e = DeviceAt(c, m) /\ d = PeerAt(c, m)
        BY <1>2, TakenRuns
    <2> QED
        BY <2>1 DEF Runs
<1>4. c \in Dials /\ m \in Party /\ cmd = SyncWithPeer(DeviceAt(c, m), c, m)
    <2>1. cmd \in Command
        BY <1>2 DEF Taken
    <2> QED
        BY <1>2, <1>3, <2>1, CommandShape
<1> HIDE DEF e, c, m, before, info
<1>5. /\ Places(queue[d][s], cmd) = Places(queue'[d][s], cmd) + 1
      /\ Places(queue'[d][s], cmd) \in Nat
    BY <1>2, TakenPlaces DEF Taken
<1>6. Places(queue[d][s], cmd) = One(follower[c][m].at = "asking" /\ follower[c][m].store = s)
    BY <1>3, <1>4 DEF IInv, AskingOnce
<1>7. follower[c][m].at = "asking" /\ follower[c][m].store = s /\ Places(queue'[d][s], cmd) = 0
    <2>1. One(follower[c][m].at = "asking" /\ follower[c][m].store = s) # 0
        BY <1>5, <1>6
    <2>2. follower[c][m].at = "asking" /\ follower[c][m].store = s
        <3> SUFFICES ASSUME ~(follower[c][m].at = "asking" /\ follower[c][m].store = s) PROVE FALSE
            OBVIOUS
        <3> QED
            BY <2>1 DEF One
    <2>3. One(follower[c][m].at = "asking" /\ follower[c][m].store = s) = 1
        BY <2>2 DEF One
    <2> QED
        BY <1>5, <1>6, <2>2, <2>3
<1>8. Talk(c, m) /\ Leads(c, m) /\ leader[c][m].at = "requesting" /\ Requesting(c, m)
    <2>1. Talk(c, m)
        BY <1>4 DEF IInv, Conversations
    <2> QED
        BY <1>7, <2>1 DEF Talk
<1>10. leader[c][m].store = s /\ wire[c][m].kind = "None"
    BY <1>7, <1>8 DEF Requesting
<1>11. NotAsked(e, s, d)
    BY <1>3, <1>4, <1>7, <1>8, <1>10 DEF NotAsked
<1>12. before[e].incoming \in {"Unknown", "Known"} /\ (before[e].incoming = "Unknown" <=> before[e].outgoing = "Unknown")
    BY <1>3, <1>9, <1>11 DEF IInv, ConsentIsAsked, KnownRuns
<1>13. /\ info \in Info /\ info.incoming = "Known" /\ info.outgoing # "Unknown"
       /\ info.outgoing = before[e].outgoing \/ (before[e].outgoing = "Unknown" /\ info.outgoing = "Known")
    BY <1>3, <1>12, <1>t DEF insert_known_peer, info, Info, Status
<1>14. peers' = [peers EXCEPT ![d][s] = after]
    <2>1. peers' = [peers EXCEPT ![d][s][e] = [info EXCEPT !.incoming = "Initializing"]]
        BY <1>13, <1>x
    <2> QED
        BY <1>9, <2>1
<1>15. follower' = [follower EXCEPT ![c][m] = f]
    <2>1. follower' = [follower EXCEPT ![c][m].at = "creating"]
        BY <1>13, <1>x
    <2> QED
        BY <2>1
<1>16. /\ after \in [Device -> Info]
       /\ after[e].incoming = "Initializing" /\ after[e].outgoing = info.outgoing
       /\ \A y \in Device : y # e => after[y] = before[y]
    BY <1>3, <1>13, <1>t DEF Info, Status
<1>17. f \in FollowerState /\ f.at = "creating" /\ f.store = s /\ f.id = follower[c][m].id
    <2>1. follower[c][m] \in FollowerState
        BY <1>4, <1>t
    <2> QED
        BY <1>7, <2>1 DEF FollowerState
<1> HIDE DEF after, f
<1>18. /\ follower'[c][m] = f /\ follower' \in [Dials -> [Party -> FollowerState]]
       /\ \A x \in Dials, q \in Party : ~(x = c /\ q = m) => follower'[x][q] = follower[x][q]
    BY <1>4, <1>15, <1>17, <1>t, UpdateAt
<1>19. Updates(d, s, after)
    BY <1>14, <1>16, <1>t, UpdatesFacts
<1>p. ASSUME NEW x \in Device, NEW t \in Opens[x], NEW y \in Device
      PROVE  /\ x = d /\ t = s /\ y = e => peers'[x][t][y].incoming = "Initializing" /\ peers'[x][t][y].outgoing = info.outgoing
             /\ ~(x = d /\ t = s /\ y = e) => peers'[x][t][y] = peers[x][t][y]
    BY <1>9, <1>16, <1>19 DEF Updates
<1>q. ASSUME NEW x \in Device, NEW t \in Opens[x], NEW y, ~(x = d /\ t = s /\ y = cmd)
      PROVE  Places(queue'[x][t], y) = Places(queue[x][t], y)
    BY <1>2, <1>q, TakenPlaces
<1>z. /\ \A y : RegisterOutgoing(y) # cmd
      /\ \A y : RegisterIncoming(y) # cmd
      /\ \A x, q : SyncWithPeer(DeviceAt(x, q), x, q) = cmd => x = c /\ q = m
    BY <1>4 DEF SyncWithPeer, RegisterOutgoing, RegisterIncoming
<1>20. Types'
    <2>1. follower' \in [Dials -> [Party -> FollowerState]] /\ commands' \in [Device -> [Device -> Seq(Nat)]]
        BY <1>1, <1>18, <1>t
    <2>2. UNCHANGED <<active, end, lost, peer_state>> /\ UNCHANGED <<leader, wire, changed, streams, panicked>>
        BY <1>1
    <2> QED
        BY <1>2, <1>19, <2>1, <2>2, TakenTypes
<1>21. Connected' /\ CommandsRun' /\ StreamsOK'
    <2>1. UNCHANGED <<active, end, peer_state, leader, wire, streams>>
        BY <1>1
    <2> QED
        BY <1>2, <2>1, TakenFrame
<1>22. Conversations'
    <2>1. PICK x \in Dials, q \in Party : x = c /\ q = m
        BY <1>4
    <2>2. Talk(x, q)'
        BY <1>1, <1>7, <1>8, <1>10, <1>17, <1>18, <2>1 DEF Talk, Requesting, Leads, Follows
    <2>3. UNCHANGED <<active, end>>
        BY <1>1
    <2>4. \A y \in Dials, p \in Party : ~(y = x /\ p = q) =>
            leader'[y][p] = leader[y][p] /\ follower'[y][p] = follower[y][p] /\ wire'[y][p] = wire[y][p]
        BY <1>1, <1>18, <2>1
    <2> QED
        BY <2>2, <2>3, <2>4, OthersTalk
<1>23. KnownRuns' /\ CommandsOpen'
    <2>1. CommandsOpen'
        BY <1>1 DEF IInv, CommandsOpen
    <2>2. KnownRuns'
        BY <1>1, <1>3, <1>13, <1>p DEF IInv, KnownRuns, Runs
    <2> QED
        BY <2>1, <2>2
<1>24. OutgoingOnce'
    <2> SUFFICES ASSUME NEW x \in Device, NEW t \in Opens[x], NEW y \in Device
                 PROVE  Places(commands'[x][y], t) + One(Asks(x, t, y)') + Places(queue'[x][t], RegisterOutgoing(y))
                            = One(peers'[x][t][y].outgoing = "Initializing")
        BY DEF OutgoingOnce
    <2>1. Places(queue'[x][t], RegisterOutgoing(y)) = Places(queue[x][t], RegisterOutgoing(y))
        <3>1. RegisterOutgoing(y) # cmd
            BY <1>z
        <3> QED
            BY <1>q, <3>1
    <2>2. Asks(x, t, y)' <=> Asks(x, t, y)
        BY <1>1 DEF Asks
    <2>3. peers'[x][t][y].outgoing = "Initializing" <=> peers[x][t][y].outgoing = "Initializing"
        BY <1>9, <1>13, <1>p
    <2> QED
        BY <1>1, <2>1, <2>2, <2>3 DEF IInv, OutgoingOnce, One
<1>a. CreatesChange(c, m)
    BY <1>4, <1>8, <1>18, CreatesAt
<1>25. IncomingOnce'
    <2> SUFFICES ASSUME NEW x \in Device, NEW t \in Opens[x], NEW y \in Device
                 PROVE  One(Creates(x, t, y)') + Places(queue'[x][t], RegisterIncoming(y))
                            = One(peers'[x][t][y].incoming = "Initializing")
        BY DEF IncomingOnce
    <2>0. One(Creates(x, t, y)) + Places(queue[x][t], RegisterIncoming(y))
                = One(peers[x][t][y].incoming = "Initializing")
        BY DEF IInv, IncomingOnce
    <2>1. Places(queue'[x][t], RegisterIncoming(y)) = Places(queue[x][t], RegisterIncoming(y))
        <3>1. RegisterIncoming(y) # cmd
            BY <1>z
        <3> QED
            BY <1>q, <3>1
    <2>n. Places(queue'[x][t], RegisterIncoming(y)) \in Nat
        BY <1>2, TakenPlaces
    <2>2. CASE x = d /\ t = s /\ y = e
        <3>1. ~Creates(x, t, y) /\ Creates(x, t, y)'
            BY <1>3, <1>7, <1>17, <1>18, <1>a, <2>2 DEF CreatesChange
        <3>2. One(Creates(x, t, y)) = 0 /\ One(Creates(x, t, y)') = 1
            BY <3>1 DEF One
        <3>3. peers'[x][t][y].incoming = "Initializing" /\ peers[x][t][y].incoming # "Initializing"
            BY <1>9, <1>12, <1>p, <2>2
        <3>4. One(peers'[x][t][y].incoming = "Initializing") = 1
            BY <3>3 DEF One
        <3>5. One(peers[x][t][y].incoming = "Initializing") = 0
            BY <3>3 DEF One
        <3> QED
            BY <2>0, <2>1, <2>n, <3>2, <3>4, <3>5
    <2>3. CASE ~(x = d /\ t = s /\ y = e)
        <3>1. Creates(x, t, y)' <=> Creates(x, t, y)
            BY <1>3, <1>7, <1>17, <1>18, <1>a, <2>3 DEF CreatesChange
        <3>2. One(Creates(x, t, y)') = One(Creates(x, t, y))
            BY <3>1 DEF One
        <3>3. peers'[x][t][y] = peers[x][t][y]
            BY <1>p, <2>3
        <3> QED
            BY <2>0, <2>1, <3>2, <3>3
    <2> QED
        BY <2>2, <2>3
<1>26. AskingOnce'
    <2> SUFFICES ASSUME NEW x \in Dials, NEW q \in Party, NEW t \in Opens[PeerAt(x, q)]
                 PROVE  Places(queue'[PeerAt(x, q)][t], SyncWithPeer(DeviceAt(x, q), x, q))
                            = One(follower'[x][q].at = "asking" /\ follower'[x][q].store = t)
        BY DEF AskingOnce
    <2>1. Places(queue[PeerAt(x, q)][t], SyncWithPeer(DeviceAt(x, q), x, q))
            = One(follower[x][q].at = "asking" /\ follower[x][q].store = t)
        BY DEF IInv, AskingOnce
    <2>2. CASE x = c /\ q = m /\ t = s
        <3>1. Places(queue'[PeerAt(x, q)][t], SyncWithPeer(DeviceAt(x, q), x, q)) = 0
            BY <1>3, <1>4, <1>7, <2>2
        <3>2. follower'[x][q].at # "asking"
            BY <1>17, <1>18, <2>2
        <3> QED
            BY <3>1, <3>2 DEF One
    <2>3. CASE ~(x = c /\ q = m /\ t = s)
        <3>1. Places(queue'[PeerAt(x, q)][t], SyncWithPeer(DeviceAt(x, q), x, q))
                = Places(queue[PeerAt(x, q)][t], SyncWithPeer(DeviceAt(x, q), x, q))
            <4>1. PeerAt(x, q) \in Device
                BY EndsAreDevices
            <4>2. ~(PeerAt(x, q) = d /\ t = s /\ SyncWithPeer(DeviceAt(x, q), x, q) = cmd)
                BY <1>z, <2>3
            <4> QED
                BY <1>q, <4>1, <4>2
        <3>2. (follower'[x][q].at = "asking" /\ follower'[x][q].store = t)
                <=> (follower[x][q].at = "asking" /\ follower[x][q].store = t)
            BY <1>7, <1>17, <1>18, <2>3
        <3> QED
            BY <2>1, <3>1, <3>2 DEF One
    <2> QED
        BY <2>2, <2>3
<1>27. ConsentIsAsked'
    <2> SUFFICES ASSUME NEW x \in Device, NEW y \in Device, NEW t \in Opens[x] \cap Opens[y], NotAsked(x, t, y)'
                 PROVE  peers'[y][t][x].incoming \in {"Unknown", "Known"}
        BY DEF ConsentIsAsked
    <2>1. ASSUME NEW z \in Dials, NEW q \in Party, follower'[z][q].at # "creating"
          PROVE  follower[z][q].at # "creating" /\ ~(z = c /\ q = m)
        BY <1>17, <1>18, <2>1
    <2>2. NotAsked(x, t, y)
        <3>1. peers'[x][t][y].outgoing \in {"Unknown", "Known"} => peers[x][t][y].outgoing \in {"Unknown", "Known"}
            BY <1>9, <1>13, <1>p
        <3> QED
            BY <1>1, <2>1, <3>1 DEF NotAsked
    <2>3. ~(y = d /\ t = s /\ x = e)
        <3> SUFFICES ASSUME y = d, t = s, x = e PROVE FALSE
            OBVIOUS
        <3>1. peers[e][s][d].outgoing = "Initializing" /\ Places(commands[e][d], s) = 0
            BY <1>3, <1>4, <1>8, <1>10, AskedOnce
        <3>2. peers'[e][s][d].outgoing = "Initializing" /\ Places(commands'[e][d], s) = 0
            BY <1>1, <1>3, <1>p, <3>1
        <3>3. PICK z \in Dials, q \in Party :
                /\ DeviceAt(z, q) = e /\ PeerAt(z, q) = d
                /\ leader[z][q].at = "requesting" /\ follower'[z][q].at # "creating"
            BY <1>1, <3>2 DEF NotAsked
        <3>4. Leads(z, q)
            BY <3>3 DEF IInv, Conversations, Talk
        <3>5. z = c /\ q = m
            BY <1>3, <1>4, <1>8, <3>3, <3>4, OneLeader DEF IInv
        <3> QED
            BY <2>1, <3>3, <3>5
    <2>4. peers[y][t][x].incoming \in {"Unknown", "Known"}
        BY <2>2 DEF IInv, ConsentIsAsked
    <2> QED
        BY <1>p, <2>3, <2>4
<1> QED
    BY <1>20, <1>21, <1>22, <1>23, <1>24, <1>25, <1>26, <1>27 DEF IInv

-----------------------------------------------------------------------------
(* Every step keeps the invariant.                                          *)
LEMMA NextIInv == IInv /\ [Next]_vars => IInv'
<1> SUFFICES ASSUME IInv, [Next]_vars PROVE IInv'
    OBVIOUS
<1>1. CASE UNCHANGED vars
    <2>1. /\ UNCHANGED <<end, peer_state, commands, leader, follower, wire, streams, peers, queue>>
          /\ UNCHANGED <<active, lost, changed, panicked>>
        BY <1>1 DEF vars, connVars, managerVars, storeVars
    <2>2. Types'
        BY <2>1 DEF IInv, Types, EndTypes, ManagerTypes, ActiveTypes, StoreTypes
    <2>3. \A d \in Device : \A s : Runs(d, s) => Runs(d, s)'
        BY <2>1 DEF Runs
    <2> QED
        BY <2>1, <2>2, <2>3, RunningStep
<1>2. CASE Next
    <2>1. CASE Application
        BY <2>1, OpenStoreStep DEF Application
    <2>2. CASE Launch
        BY <2>2, LaunchStep DEF Launch
    <2>3. CASE Dialling
        BY <2>3, DialStep DEF Dialling
    <2>4. ASSUME NEW c \in Dials, Connecting(c) PROVE IInv'
        BY <2>4, HandshakeServerStep, HandshakeClientStep, InitiatePeerStep DEF Connecting
    <2>5. ASSUME NEW c \in Dials, NEW m \in Party, Leading(c, m) PROVE IInv'
        BY <2>5, AdvertiseStoresStep, AdvertiseServerStep, RequestStep, LeaderCreatesStep DEF Leading
    <2>6. ASSUME NEW c \in Dials, NEW m \in Party, Following(c, m) PROVE IInv'
        BY <2>6, AdvertiseClientStep, RequestArrivesStep, FollowerCreatesStep DEF Following
    <2>7. ASSUME NEW d \in Device, NEW s \in Store, Handling(d, s) PROVE IInv'
        BY <2>7, RegisterPeersStep, SyncWithPeerStep, RegisterOutgoingStep, RegisterIncomingStep DEF Handling
    <2> QED
        BY <1>2, <2>1, <2>2, <2>3, <2>4, <2>5, <2>6, <2>7 DEF Next, Tasks
<1> QED
    BY <1>1, <1>2

(* The inductive invariant holds of every run, with any devices, stores and *)
(* connections and whatever is lost of a handshake.                         *)
THEOREM Invariant == Spec => []IInv
<1>1. Init => IInv
    BY InitIInv
<1>2. IInv /\ [Next]_vars => IInv'
    BY NextIInv
<1> QED
    BY <1>1, <1>2, PTL DEF Spec

(* The statuses a store keeps of its peers, the commands, the managers'     *)
(* states and the messages between them keep their types: an id a leader    *)
(* hands out is of its own parity, and a store is sent no command about its *)
(* own device.                                                              *)
THEOREM TypesHold == Spec => []TypeOK
<1>1. IInv => TypeOK
    <2> SUFFICES ASSUME IInv PROVE TypeOK
        OBVIOUS
    <2>1. /\ \A d \in Device : active[d] \in [Opens[d] -> {"Absent", "Initializing", "Running"}]
          /\ end \in [Dials -> [Party -> EndState]] /\ lost \in [Dials -> {"nothing", "message", "part"}]
          /\ peer_state \in [Device -> [Device -> Dials \cup {NoConnection}]]
        BY DEF IInv, Types, ActiveTypes, EndTypes
    <2>2. ASSUME NEW d \in Device, NEW e \in Device PROVE commands[d][e] \in Seq(Opens[d])
        <3>1. commands[d][e] \in Seq(Nat) /\ \A i \in DOMAIN commands[d][e] : commands[d][e][i] \in Opens[d]
            BY DEF IInv, Types, ManagerTypes, CommandsOpen
        <3> QED
            BY <3>1
    <2>3. ASSUME NEW d \in Device, NEW s, s \in Opens[d] PROVE s \in Store
        BY <2>3 DEF Store
    <2>4. ASSUME NEW c \in Dials, NEW m \in Party
          PROVE  /\ leader[c][m].at \in {"start", "advertising", "loop", "requesting", "ended"}
                 /\ leader[c][m].latest % 2 = FirstStreamId(m) % 2
                 /\ follower[c][m].at \in {"loop", "asking", "creating", "rejected"}
                 /\ wire[c][m] \in Message
                 /\ changed[c][m] \in BOOLEAN
                 /\ streams[c][m] \subseteq [id : Nat, store : Store, task : {"server", "client"}]
        <3>0. DeviceAt(c, m) \in Device /\ PeerAt(c, m) \in Device
            BY EndsAreDevices
        <3>1. /\ leader[c][m] \in LeaderState /\ follower[c][m] \in FollowerState
              /\ changed[c][m] \in BOOLEAN /\ streams[c][m] \subseteq Stream /\ wire[c][m] \in Anything
            BY DEF IInv, Types, ManagerTypes
        <3>2. leader[c][m].latest % 2 = FirstStreamId(m) % 2
            BY DEF IInv, StreamsOK, Fresh
        <3>3. Talk(c, m)
            BY DEF IInv, Conversations
        <3>4. ASSUME wire[c][m].kind = "AdvertiseStores" PROVE wire[c][m].stores \in Seq(Store)
            <4>1. leader[c][m].at = "advertising"
                BY <3>1, <3>3, <3>4 DEF Talk, Requesting, LeaderState
            <4>2. \A i \in DOMAIN wire[c][m].stores : wire[c][m].stores[i] \in Store
                BY <2>3, <3>0, <3>3, <3>4, <4>1 DEF Talk, Advertising, Runs
            <4>3. wire[c][m].stores \in Seq(Nat)
                BY <3>1, <3>4 DEF Anything, NoMessage
            <4> QED
                BY <4>2, <4>3
        <3>5. ASSUME wire[c][m].kind = "CreateStoreStream" PROVE wire[c][m].store \in Store
            <4>1. leader[c][m].at = "requesting"
                BY <3>1, <3>3, <3>5 DEF Talk, Advertising, LeaderState
            <4> QED
                BY <2>3, <3>0, <3>3, <3>5, <4>1 DEF Talk, Requesting
        <3>6. wire[c][m] \in Message
            BY <3>1, <3>4, <3>5 DEF Anything, Message
        <3> QED
            BY <3>1, <3>2, <3>6 DEF LeaderState, FollowerState, Stream
    <2>5. ASSUME NEW d \in Device, NEW s \in Opens[d]
          PROVE  /\ peers[d][s] \in [Device -> [incoming : Status, outgoing : Status]]
                 /\ \A i \in DOMAIN queue[d][s] : queue[d][s][i].peer \in Device \ {d}
        BY DEF IInv, Types, StoreTypes, CommandsRun, Command
    <2> QED
        BY <2>1, <2>2, <2>4, <2>5 DEF TypeOK, EndState
<1> QED
    BY <1>1, Invariant, PTL

(* Two managers led by one device for the same peer are the same, so that   *)
(* the requests counted are one or none.                                    *)
LEMMA AtMostOne ==
    ASSUME NEW S, \A x, y \in S : x = y
    PROVE  IsFiniteSet(S) /\ Cardinality(S) = (IF S = {} THEN 0 ELSE 1)
<1>1. CASE S = {}
    BY <1>1, FS_EmptySet
<1>2. CASE S # {}
    <2>1. PICK x : x \in S
        BY <1>2
    <2>2. S = {x}
        BY <2>1
    <2> QED
        BY <1>2, <2>2, FS_Singleton
<1> QED
    BY <1>1, <1>2

(* What OneRequestPerStatus counts of the leaders is what IInv counts.      *)
LEMMA AskingIsAsks ==
    ASSUME IInv, NEW d, NEW s, NEW e
    PROVE  Asking(d, s, e) = One(Asks(d, s, e))
<1> DEFINE X == {x \in Dials \X Party : /\ DeviceAt(x[1], x[2]) = d /\ PeerAt(x[1], x[2]) = e
                                        /\ leader[x[1]][x[2]].at = "requesting"
                                        /\ leader[x[1]][x[2]].store = s}
<1>1. ASSUME NEW x \in X, NEW y \in X PROVE x = y
    <2>1. /\ x[1] \in Dials /\ x[2] \in Party /\ y[1] \in Dials /\ y[2] \in Party
          /\ x = <<x[1], x[2]>> /\ y = <<y[1], y[2]>>
        OBVIOUS
    <2>2. Leads(x[1], x[2]) /\ Leads(y[1], y[2])
        BY <2>1 DEF IInv, Conversations, Talk
    <2>3. DeviceAt(x[1], x[2]) = DeviceAt(y[1], y[2]) /\ PeerAt(x[1], x[2]) = PeerAt(y[1], y[2])
        OBVIOUS
    <2>4. x[1] = y[1] /\ x[2] = y[2]
        BY <2>1, <2>2, <2>3, OneLeader DEF IInv
    <2> QED
        BY <2>1, <2>4
<1>2. X # {} <=> Asks(d, s, e)
    <2>1. ASSUME NEW x \in X PROVE Asks(d, s, e)
        BY DEF Asks
    <2>2. ASSUME Asks(d, s, e) PROVE X # {}
        <3>1. PICK c \in Dials, m \in Party : /\ DeviceAt(c, m) = d /\ PeerAt(c, m) = e
                                              /\ leader[c][m].at = "requesting" /\ leader[c][m].store = s
            BY <2>2 DEF Asks
        <3>2. <<c, m>> \in X
            BY <3>1
        <3> QED
            BY <3>2
    <2> QED
        BY <2>1, <2>2
<1>3. Asking(d, s, e) = Cardinality(X)
    BY DEF Asking
<1> HIDE DEF X
<1>4. Cardinality(X) = (IF X = {} THEN 0 ELSE 1)
    BY <1>1, AtMostOne
<1> QED
    BY <1>2, <1>3, <1>4 DEF One

(* The same for the followers.                                              *)
LEMMA CreatingIsCreates ==
    ASSUME IInv, NEW d, NEW s, NEW e
    PROVE  Creating(d, s, e) = One(Creates(d, s, e))
<1> DEFINE X == {x \in Dials \X Party : /\ DeviceAt(x[1], x[2]) = e /\ PeerAt(x[1], x[2]) = d
                                        /\ follower[x[1]][x[2]].at = "creating"
                                        /\ follower[x[1]][x[2]].store = s}
<1>1. ASSUME NEW x \in X, NEW y \in X PROVE x = y
    <2>1. /\ x[1] \in Dials /\ x[2] \in Party /\ y[1] \in Dials /\ y[2] \in Party
          /\ x = <<x[1], x[2]>> /\ y = <<y[1], y[2]>>
        OBVIOUS
    <2>2. Leads(x[1], x[2]) /\ Leads(y[1], y[2])
        BY <2>1 DEF IInv, Conversations, Talk
    <2>3. DeviceAt(x[1], x[2]) = DeviceAt(y[1], y[2]) /\ PeerAt(x[1], x[2]) = PeerAt(y[1], y[2])
        OBVIOUS
    <2>4. x[1] = y[1] /\ x[2] = y[2]
        BY <2>1, <2>2, <2>3, OneLeader DEF IInv
    <2> QED
        BY <2>1, <2>4
<1>2. X # {} <=> Creates(d, s, e)
    <2>1. ASSUME NEW x \in X PROVE Creates(d, s, e)
        BY DEF Creates
    <2>2. ASSUME Creates(d, s, e) PROVE X # {}
        <3>1. PICK c \in Dials, m \in Party : /\ DeviceAt(c, m) = e /\ PeerAt(c, m) = d
                                              /\ follower[c][m].at = "creating" /\ follower[c][m].store = s
            BY <2>2 DEF Creates
        <3>2. <<c, m>> \in X
            BY <3>1
        <3> QED
            BY <3>2
    <2> QED
        BY <2>1, <2>2
<1>3. Creating(d, s, e) = Cardinality(X)
    BY DEF Creating
<1> HIDE DEF X
<1>4. Cardinality(X) = (IF X = {} THEN 0 ELSE 1)
    BY <1>1, AtMostOne
<1> QED
    BY <1>2, <1>3, <1>4 DEF One

(* A store's status for a peer is Initializing exactly while one request    *)
(* for it is on its way: as a command to a manager, in the conversation of  *)
(* two managers, or as the registration that answers it. So no request is   *)
(* lost on the way, and none is made twice.                                 *)
THEOREM RequestsMatchStatuses == Spec => []OneRequestPerStatus
<1>1. IInv => OneRequestPerStatus
    <2> SUFFICES ASSUME IInv, NEW d \in Device, NEW s \in Opens[d], NEW e \in Device
                 PROVE  /\ Places(commands[d][e], s) + Asking(d, s, e) + Places(queue[d][s], RegisterOutgoing(e))
                            = IF peers[d][s][e].outgoing = "Initializing" THEN 1 ELSE 0
                        /\ Creating(d, s, e) + Places(queue[d][s], RegisterIncoming(e))
                            = IF peers[d][s][e].incoming = "Initializing" THEN 1 ELSE 0
        BY DEF OneRequestPerStatus
    <2>1. Places(commands[d][e], s) + One(Asks(d, s, e)) + Places(queue[d][s], RegisterOutgoing(e))
            = IF peers[d][s][e].outgoing = "Initializing" THEN 1 ELSE 0
        <3>1. Places(commands[d][e], s) + One(Asks(d, s, e)) + Places(queue[d][s], RegisterOutgoing(e))
                = One(peers[d][s][e].outgoing = "Initializing")
            BY DEF IInv, OutgoingOnce
        <3> QED
            BY <3>1 DEF One
    <2>2. One(Creates(d, s, e)) + Places(queue[d][s], RegisterIncoming(e))
            = IF peers[d][s][e].incoming = "Initializing" THEN 1 ELSE 0
        <3>1. One(Creates(d, s, e)) + Places(queue[d][s], RegisterIncoming(e))
                = One(peers[d][s][e].incoming = "Initializing")
            BY DEF IInv, IncomingOnce
        <3> QED
            BY <3>1 DEF One
    <2>3. Asking(d, s, e) = One(Asks(d, s, e))
        BY AskingIsAsks
    <2>4. Creating(d, s, e) = One(Creates(d, s, e))
        BY CreatingIsCreates
    <2> QED
        BY <2>1, <2>2, <2>3, <2>4
<1> QED
    BY <1>1, Invariant, PTL

(* No manager and no store meets what the code answers with todo!() or a    *)
(* panic: no request is refused, no id is taken at either end, no store is  *)
(* told of a peer that it is not initializing.                              *)
THEOREM NoTaskGivesUp == Spec => []NobodyGivesUp
<1>1. IInv => NobodyGivesUp
    BY DEF IInv, NobodyGivesUp, Types, StoreTypes, Conversations, Talk
<1> QED
    BY <1>1, Invariant, PTL

(* The peers a store asks for streams run the store.  A bit of an answer    *)
(* stands, by its position, for a store of the list the leader has kept     *)
(* that both ends run, for any length of list; and what it said is still    *)
(* true when the commands it led to are handled (manager/v0.rs:389-441).    *)
THEOREM KnownPeersRun == Spec => []PeersRunTheStore
<1>1. IInv => PeersRunTheStore
    BY DEF IInv, PeersRunTheStore, KnownRuns, Runs
<1> QED
    BY <1>1, Invariant, PTL

(* A stream of a leader has its counterpart at the follower, which had to   *)
(* create it before it accepted, and an id names one stream at an end: the  *)
(* leader's next_stream_id is free at both.                                 *)
THEOREM StreamsPaired == Spec => []StreamsHaveTwoEnds
<1>1. IInv => StreamsHaveTwoEnds
    <2> SUFFICES ASSUME IInv, NEW c \in Dials, NEW p \in Party, NEW st \in streams[c][p]
                 PROVE  /\ \A su \in streams[c][p] : su.id = st.id => su = st
                        /\ st.task = "server" => [st EXCEPT !.task = "client"] \in streams[c][Dual(p)]
        BY DEF StreamsHaveTwoEnds
    <2>1. \A su \in streams[c][p] : su.id = st.id => su = st
        BY DEF IInv, StreamsOK
    <2>2. st \in Stream
        BY DEF IInv, Types, ManagerTypes
    <2>3. [st EXCEPT !.task = "client"] = [id |-> st.id, store |-> st.store, task |-> "client"]
        BY <2>2 DEF Stream
    <2>4. st.task = "server" => [id |-> st.id, store |-> st.store, task |-> "client"] \in streams[c][Dual(p)]
        BY DEF IInv, StreamsOK, Fresh
    <2> QED
        BY <2>1, <2>3, <2>4
<1> QED
    BY <1>1, Invariant, PTL

-----------------------------------------------------------------------------
(* One stream for each direction. *)

Stays ==
    /\ \A c \in Dials, p \in Party : end[c][p] = "running" => end'[c][p] = "running"
    /\ \A d \in Device : \A s \in Opens[d] : \A e \in Device :
        (Served(d, s, e) => Served(d, s, e)') /\ (Fed(d, s, e) => Fed(d, s, e)')

(* A step that touches no store and no running end keeps what has begun.    *)
LEMMA SameStays ==
    ASSUME UNCHANGED <<peers, queue>>,
           \A c \in Dials, p \in Party : end[c][p] = "running" => end'[c][p] = "running"
    PROVE  Stays
BY DEF Stays, Served, Fed

(* So does a step that sends a command.                                     *)
LEMMA SentStays ==
    ASSUME IInv, UNCHANGED <<end, peers>>, NEW d \in Device, NEW stores, NEW cmd \in Command,
           queue' = SentTo(d, stores, cmd)
    PROVE  Stays
<1>1. Sends(d, stores, cmd)
    BY SentToFacts DEF IInv, Types
<1>2. ASSUME NEW x \in Device, NEW s \in Opens[x], NEW y, Places(queue[x][s], y) # 0
      PROVE  Places(queue'[x][s], y) # 0
    <2>1. Places(queue[x][s], y) \in Nat
        BY <1>1 DEF Sends
    <2>2. CASE x = d /\ s \in stores /\ y = cmd
        <3>1. Places(queue'[d][s], cmd) = Places(queue[d][s], cmd) + 1
            BY <1>1, <2>2 DEF Sends
        <3> QED
            BY <2>1, <2>2, <3>1
    <2>3. CASE ~(x = d /\ s \in stores /\ y = cmd)
        <3>1. Places(queue'[x][s], y) = Places(queue[x][s], y)
            BY <1>1, <2>3 DEF Sends
        <3> QED
            BY <1>2, <3>1
    <2> QED
        BY <2>2, <2>3
<1> QED
    BY <1>2 DEF Stays, Served, Fed

(* So does a step that takes a command, once the status says what it said.  *)
LEMMA TakenStays ==
    ASSUME IInv, UNCHANGED end, NEW d \in Device, NEW s \in Opens[d], NEW cmd, Taken(d, s, cmd),
           \A x \in Device : \A t \in Opens[x] : \A y \in Device :
                /\ peers[x][t][y].outgoing = "Syncing" => peers'[x][t][y].outgoing = "Syncing"
                /\ peers[x][t][y].incoming = "Syncing" => peers'[x][t][y].incoming = "Syncing"
                /\ x = d /\ t = s /\ cmd = RegisterOutgoing(y) => peers'[x][t][y].outgoing = "Syncing"
                /\ x = d /\ t = s /\ cmd = RegisterIncoming(y) => peers'[x][t][y].incoming = "Syncing"
    PROVE  Stays
<1> SUFFICES ASSUME NEW x \in Device, NEW t \in Opens[x], NEW y \in Device
             PROVE  (Served(x, t, y) => Served(x, t, y)') /\ (Fed(x, t, y) => Fed(x, t, y)')
    BY DEF Stays
<1>1. \A z : ~(x = d /\ t = s /\ z = cmd) => Places(queue'[x][t], z) = Places(queue[x][t], z)
    <2> TAKE z
    <2> QED
        BY TakenPlaces
<1>2. Served(x, t, y) => Served(x, t, y)'
    <2>1. CASE x = d /\ t = s /\ RegisterOutgoing(y) = cmd
        BY <2>1 DEF Served
    <2>2. CASE ~(x = d /\ t = s /\ RegisterOutgoing(y) = cmd)
        <3>1. Places(queue'[x][t], RegisterOutgoing(y)) = Places(queue[x][t], RegisterOutgoing(y))
            BY <1>1, <2>2
        <3> QED
            BY <3>1 DEF Served
    <2> QED
        BY <2>1, <2>2
<1>3. Fed(x, t, y) => Fed(x, t, y)'
    <2>1. CASE x = d /\ t = s /\ RegisterIncoming(y) = cmd
        BY <2>1 DEF Fed
    <2>2. CASE ~(x = d /\ t = s /\ RegisterIncoming(y) = cmd)
        <3>1. Places(queue'[x][t], RegisterIncoming(y)) = Places(queue[x][t], RegisterIncoming(y))
            BY <1>1, <2>2
        <3> QED
            BY <3>1 DEF Fed
    <2> QED
        BY <2>1, <2>2
<1> QED
    BY <1>2, <1>3

(* What the two streams of a store began with, a store never takes back.    *)
LEMMA ConnectingStays ==
    ASSUME IInv, NEW c \in Dials, Dial(c) \/ Connecting(c)
    PROVE  Stays
<1>1. end \in [Dials -> [Party -> EndState]]
    BY DEF IInv, Types, EndTypes
<1>2. UNCHANGED <<peers, queue>>
    BY DEF Dial, Connecting, run_handshake_server, run_handshake_client, initiate_peer, storeVars
<1>3. ASSUME NEW x \in Dials, NEW q \in Party, end[x][q] = "running" PROVE end'[x][q] = "running"
    <2>1. CASE Dial(c)
        BY <1>1, <1>3, <2>1 DEF Dial, Party, IInv, Connected
    <2>2. CASE run_handshake_server(c)
        BY <1>1, <1>3, <2>2 DEF run_handshake_server, Party
    <2>3. CASE run_handshake_client(c)
        BY <1>1, <1>3, <2>3 DEF run_handshake_client, Party
    <2>4. CASE \E p \in Party : initiate_peer(c, p)
        BY <1>1, <1>3, <2>4 DEF initiate_peer
    <2> QED
        BY <2>1, <2>2, <2>3, <2>4 DEF Connecting
<1> QED
    BY <1>2, <1>3, SameStays

(* A registration that leaves the queue leaves its status syncing.          *)
LEMMA HandlingStays ==
    ASSUME IInv, NEW d \in Device, NEW s \in Opens[d], Handling(d, s)
    PROVE  Stays
<1> DEFINE cmd == Head(queue[d][s])
           e == cmd.peer
<1>0. UNCHANGED end
    BY DEF Handling, HandleRegisterPeers, HandleSyncWithPeer, HandleRegisterOutgoing, HandleRegisterIncoming, connVars
<1>t. StoreTypes /\ peers[d][s] \in [Device -> Info]
    BY DEF IInv, Types, StoreTypes, Info
<1>1. PICK kind : Takes(d, s, kind) /\ kind \in
        {"RegisterPeers", "SyncWithPeer", "RegisterOutgoingPeerSyncing", "RegisterIncomingPeerSyncing"}
    BY DEF Handling, HandleRegisterPeers, HandleSyncWithPeer, HandleRegisterOutgoing, HandleRegisterIncoming
<1>2. Taken(d, s, cmd)
    BY <1>1, <1>t, TakesFacts
<1>3. \A y : cmd = RegisterOutgoing(y) => y = e /\ cmd.kind = "RegisterOutgoingPeerSyncing"
    BY DEF RegisterOutgoing
<1>4. \A y : cmd = RegisterIncoming(y) => y = e /\ cmd.kind = "RegisterIncomingPeerSyncing"
    BY DEF RegisterIncoming
<1>5. e \in Device
    BY <1>2, TakenRuns
<1>p. peers = [x \in Device |-> peers[x]] /\ \A x \in Device : peers[x] \in [Opens[x] -> [Device -> Info]]
    BY DEF IInv, Types, StoreTypes, Info
<1>6. ASSUME NEW x \in Device, NEW t \in Opens[x], NEW y \in Device
      PROVE  /\ peers[x][t][y].outgoing = "Syncing" => peers'[x][t][y].outgoing = "Syncing"
             /\ peers[x][t][y].incoming = "Syncing" => peers'[x][t][y].incoming = "Syncing"
             /\ x = d /\ t = s /\ cmd = RegisterOutgoing(y) => peers'[x][t][y].outgoing = "Syncing"
             /\ x = d /\ t = s /\ cmd = RegisterIncoming(y) => peers'[x][t][y].incoming = "Syncing"
    <2>t. peers[d][s][e] \in Info
        BY <1>5, <1>t
    <2>1. CASE HandleRegisterPeers(d, s)
        <3>1. cmd.kind = "RegisterPeers"
            BY <2>1 DEF HandleRegisterPeers, Takes
        <3> DEFINE known == [peers[d][s] EXCEPT ![e] = insert_known_peer(peers[d][s][e])]
                   chosen == {z \in Device : known[z].outgoing = "Known" /\ peer_state[d][z] # NoConnection}
                   after == [z \in Device |->
                                IF z \in chosen THEN [known[z] EXCEPT !.outgoing = "Initializing"] ELSE known[z]]
        <3>2. peers' = [peers EXCEPT ![d][s] = after]
            BY <2>1 DEF HandleRegisterPeers, manage_peers
        <3>3. /\ known[y] \in Info
              /\ peers[d][s][y].outgoing = "Syncing" => known[y].outgoing = "Syncing"
              /\ peers[d][s][y].incoming = "Syncing" => known[y].incoming = "Syncing"
            <4>1. insert_known_peer(peers[d][s][e]) \in Info
                BY <2>t DEF insert_known_peer, Info, Status
            <4>2. known[y] = IF y = e THEN insert_known_peer(peers[d][s][e]) ELSE peers[d][s][y]
                BY <1>5, <1>t
            <4>3. peers[d][s][y].outgoing = "Unknown" <=> peers[d][s][y].incoming = "Unknown"
                BY DEF IInv, KnownRuns
            <4> HIDE DEF known
            <4> QED
                BY <1>t, <4>1, <4>2, <4>3 DEF insert_known_peer
        <3>4. /\ peers[d][s][y].outgoing = "Syncing" => after[y].outgoing = "Syncing"
              /\ peers[d][s][y].incoming = "Syncing" => after[y].incoming = "Syncing"
            <4> HIDE DEF known
            <4> QED
                BY <3>3 DEF Info
        <3> HIDE DEF after
        <3>5. peers'[x][t] = IF x = d /\ t = s THEN after ELSE peers[x][t]
            BY <1>p, <3>2
        <3> QED
            BY <1>3, <1>4, <3>1, <3>4, <3>5
    <2>2. CASE HandleSyncWithPeer(d, s)
        <3>1. cmd.kind = "SyncWithPeer"
            BY <2>2 DEF HandleSyncWithPeer, Takes
        <3> DEFINE info == insert_known_peer(peers[d][s][e])
        <3>2. PICK to \in Info : /\ peers' = [peers EXCEPT ![d][s][e] = to]
                                 /\ to.outgoing = info.outgoing
                                 /\ to.incoming = info.incoming \/ info.incoming = "Known"
            <4>1. info \in Info
                BY <2>t DEF insert_known_peer, Info, Status
            <4> HIDE DEF info
            <4>2. \/ /\ info.incoming = "Known"
                     /\ peers' = [peers EXCEPT ![d][s][e] = [info EXCEPT !.incoming = "Initializing"]]
                  \/ peers' = [peers EXCEPT ![d][s][e] = info]
                BY <2>2 DEF HandleSyncWithPeer, info
            <4>3. /\ [info EXCEPT !.incoming = "Initializing"] \in Info
                  /\ [info EXCEPT !.incoming = "Initializing"].outgoing = info.outgoing
                BY <4>1 DEF Info, Status
            <4> QED
                BY <4>1, <4>2, <4>3
        <3>3. /\ peers[d][s][e].outgoing = "Syncing" => to.outgoing = "Syncing"
              /\ peers[d][s][e].incoming = "Syncing" => to.incoming = "Syncing"
            <4>0. KnownRuns
                BY DEF IInv
            <4>1. peers[d][s][e].outgoing = "Unknown" <=> peers[d][s][e].incoming = "Unknown"
                BY <1>5, <4>0 DEF KnownRuns
            <4> QED
                BY <2>t, <3>2, <4>1 DEF insert_known_peer
        <3>4. peers'[x][t][y] = IF x = d /\ t = s /\ y = e THEN to ELSE peers[x][t][y]
            BY <1>5, <1>p, <3>2
        <3> QED
            BY <1>3, <1>4, <3>1, <3>3, <3>4
    <2>3. CASE HandleRegisterOutgoing(d, s)
        <3>1. cmd.kind = "RegisterOutgoingPeerSyncing"
            BY <2>3 DEF HandleRegisterOutgoing, Takes
        <3>2. IInv'
            BY <2>3, RegisterOutgoingStep
        <3> DEFINE after == [peers[d][s] EXCEPT ![e].outgoing = "Syncing"]
        <3>3. peers' = [peers EXCEPT ![d][s] = after]
            <4>1. panicked' = {}
                BY <3>2 DEF IInv, Types, StoreTypes
            <4> QED
                BY <2>3, <4>1 DEF HandleRegisterOutgoing, update_peer_to_syncing
        <3>4. after[y].incoming = peers[d][s][y].incoming
              /\ after[y].outgoing = (IF y = e THEN "Syncing" ELSE peers[d][s][y].outgoing)
            BY <1>5, <1>t DEF Info
        <3> HIDE DEF after
        <3>5. peers'[x][t] = IF x = d /\ t = s THEN after ELSE peers[x][t]
            BY <1>p, <3>3
        <3> QED
            BY <1>3, <1>4, <3>1, <3>4, <3>5
    <2>4. CASE HandleRegisterIncoming(d, s)
        <3>1. cmd.kind = "RegisterIncomingPeerSyncing"
            BY <2>4 DEF HandleRegisterIncoming, Takes
        <3>2. IInv'
            BY <2>4, RegisterIncomingStep
        <3> DEFINE after == [peers[d][s] EXCEPT ![e].incoming = "Syncing"]
        <3>3. peers' = [peers EXCEPT ![d][s] = after]
            <4>1. panicked' = {}
                BY <3>2 DEF IInv, Types, StoreTypes
            <4> QED
                BY <2>4, <4>1 DEF HandleRegisterIncoming, update_peer_to_syncing
        <3>4. after[y].outgoing = peers[d][s][y].outgoing
              /\ after[y].incoming = (IF y = e THEN "Syncing" ELSE peers[d][s][y].incoming)
            BY <1>5, <1>t DEF Info
        <3> HIDE DEF after
        <3>5. peers'[x][t] = IF x = d /\ t = s THEN after ELSE peers[x][t]
            BY <1>p, <3>3
        <3> QED
            BY <1>3, <1>4, <3>1, <3>4, <3>5
    <2> QED
        BY <2>1, <2>2, <2>3, <2>4 DEF Handling
<1> HIDE DEF cmd
<1> QED
    BY <1>0, <1>2, <1>6, TakenStays

(* No step takes back what a stream began with.                             *)
LEMMA StepStays ==
    ASSUME IInv, [Next]_vars
    PROVE  Stays
<1>1. CASE UNCHANGED vars
    BY <1>1, SameStays DEF vars, connVars, storeVars
<1>2. CASE Next
    <2>1. CASE Application \/ Launch
        <3>1. UNCHANGED <<end, peers, queue>>
            BY <2>1 DEF Application, Launch, OpenStore, launch_store, connVars, storeVars
        <3> QED
            BY <3>1, SameStays
    <2>2. CASE Dialling \/ \E c \in Dials : Connecting(c)
        BY <2>2, ConnectingStays DEF Dialling
    <2>3. ASSUME NEW c \in Dials, NEW m \in Party, Leading(c, m) PROVE Stays
        <3>0. DeviceAt(c, m) \in Device /\ PeerAt(c, m) \in Device
            BY EndsAreDevices
        <3>1. CASE AdvertiseStores(c, m) \/ RequestStoreStream(c, m)
            <4>1. UNCHANGED <<end, peers, queue>>
                BY <3>1 DEF AdvertiseStores, RequestStoreStream, connVars, storeVars
            <4> QED
                BY <4>1, SameStays
        <3>2. CASE run_advertise_stores_server(c, m)
            <4>1. RegisterPeers(PeerAt(c, m)) \in Command
                BY <3>0 DEF RegisterPeers, Command
            <4>2. /\ UNCHANGED <<end, peers>>
                  /\ queue' = SentTo(DeviceAt(c, m), StoresAt(leader[c][m].stores, wire[c][m].have), RegisterPeers(PeerAt(c, m)))
                BY <3>2 DEF run_advertise_stores_server, handle_shared_stores, connVars
            <4> QED
                BY <3>0, <4>1, <4>2, SentStays
        <3>3. CASE run_request_new_stream_server(c, m)
            <4>1. RegisterOutgoing(PeerAt(c, m)) \in Command
                BY <3>0 DEF RegisterOutgoing, Command
            <4>2. UNCHANGED <<end, peers>>
                BY <3>3 DEF run_request_new_stream_server, connVars
            <4>3. queue' = SentTo(DeviceAt(c, m), {leader[c][m].store}, RegisterOutgoing(PeerAt(c, m)))
                BY <3>3, LeaderCreates DEF LeaderCreated, CreateStream
            <4> QED
                BY <3>0, <4>1, <4>2, <4>3, SentStays
        <3> QED
            BY <2>3, <3>1, <3>2, <3>3 DEF Leading
    <2>4. ASSUME NEW c \in Dials, NEW m \in Party, Following(c, m) PROVE Stays
        <3>0. /\ DeviceAt(c, m) \in Device /\ PeerAt(c, m) \in Device
              /\ DeviceAt(c, Dual(m)) = PeerAt(c, m) /\ PeerAt(c, Dual(m)) = DeviceAt(c, m)
            BY EndsAreDevices
        <3>1. CASE run_advertise_stores_client(c, m)
            <4>1. RegisterPeers(DeviceAt(c, m)) \in Command
                BY <3>0 DEF RegisterPeers, Command
            <4>2. /\ UNCHANGED <<end, peers>>
                  /\ queue' = SentTo(PeerAt(c, m),
                        StoresAt(wire[c][m].stores, HavePositions(wire[c][m].stores, Running(PeerAt(c, m)))),
                        RegisterPeers(DeviceAt(c, m)))
                BY <3>1 DEF run_advertise_stores_client, handle_shared_stores, connVars
            <4> QED
                BY <3>0, <4>1, <4>2, SentStays
        <3>2. CASE run_request_new_stream_client(c, m)
            <4>1. SyncWithPeer(DeviceAt(c, m), c, m) \in Command
                BY <3>0 DEF SyncWithPeer, Command
            <4>2. /\ UNCHANGED <<end, peers>>
                  /\ \/ queue' = SentTo(PeerAt(c, m), {wire[c][m].store}, SyncWithPeer(DeviceAt(c, m), c, m))
                     \/ UNCHANGED queue
                BY <3>2 DEF run_request_new_stream_client, connVars
            <4>3. CASE UNCHANGED queue
                BY <4>2, <4>3, SameStays
            <4> QED
                BY <3>0, <4>1, <4>2, <4>3, SentStays
        <3>3. CASE FollowerCreatesStream(c, m)
            <4>1. RegisterIncoming(DeviceAt(c, m)) \in Command
                BY <3>0 DEF RegisterIncoming, Command
            <4>2. UNCHANGED <<end, peers>>
                BY <3>3 DEF FollowerCreatesStream, connVars
            <4>3. queue' = SentTo(PeerAt(c, m), {leader[c][m].store}, RegisterIncoming(DeviceAt(c, m)))
                <5>1. CreateStream(c, Dual(m), leader[c][m].latest, leader[c][m].store, "client")
                    BY <3>3, FollowerCreates DEF FollowerCreated
                <5> QED
                    BY <3>0, <5>1 DEF CreateStream
            <4> QED
                BY <3>0, <4>1, <4>2, <4>3, SentStays
        <3> QED
            BY <2>4, <3>1, <3>2, <3>3 DEF Following
    <2>5. ASSUME NEW d \in Device, NEW s \in Store, Handling(d, s) PROVE Stays
        BY <2>5, HandlingStays DEF Handling
    <2> QED
        BY <1>2, <2>1, <2>2, <2>3, <2>4, <2>5 DEF Next, Tasks
<1> QED
    BY <1>1, <1>2

(* A step that creates no stream keeps what is said of those there are. *)
LEMMA SoleStay ==
    ASSUME IInv, SoleStreams, Stays, UNCHANGED streams
    PROVE  SoleStreams'
<1> SUFFICES ASSUME NEW c \in Dials, NEW p \in Party, NEW st \in streams[c][p] PROVE Sole(c, p, st)'
    BY DEF SoleStreams
<1>1. Sole(c, p, st)
    BY DEF SoleStreams
<1>2. DeviceAt(c, p) \in Device /\ PeerAt(c, p) \in Device
    BY EndsAreDevices
<1> QED
    BY <1>1, <1>2 DEF Sole, Stays

(* A stream added where its store was not served, or fed, is the only one.  *)
LEMMA OneIsNew ==
    ASSUME IInv, SoleStreams, Stays, NEW c \in Dials, NEW p \in Party, NEW new \in Stream,
           streams'[c][p] = streams[c][p] \cup {new},
           \A x \in Dials, q \in Party : ~(x = c /\ q = p) => streams'[x][q] = streams[x][q],
           end[c][p] = "running", new.store \in Opens[DeviceAt(c, p)],
           new.task = "server" =>
                /\ ~Served(DeviceAt(c, p), new.store, PeerAt(c, p))
                /\ Served(DeviceAt(c, p), new.store, PeerAt(c, p))',
           new.task = "client" =>
                /\ ~Fed(DeviceAt(c, p), new.store, PeerAt(c, p))
                /\ Fed(DeviceAt(c, p), new.store, PeerAt(c, p))'
    PROVE  SoleStreams'
<1> SUFFICES ASSUME NEW x \in Dials, NEW q \in Party, NEW st \in streams'[x][q] PROVE Sole(x, q, st)'
    BY DEF SoleStreams
<1>1. DeviceAt(x, q) \in Device /\ PeerAt(x, q) \in Device
    BY EndsAreDevices
<1>2. ASSUME NEW su \in streams[c][p], su.task = new.task, su.store = new.store PROVE FALSE
    <2>1. Sole(c, p, su)
        BY DEF SoleStreams
    <2>2. new.task \in {"server", "client"}
        BY DEF Stream
    <2> QED
        BY <1>2, <2>1, <2>2 DEF Sole
<1>3. CASE st \in streams[x][q]
    <2>1. Sole(x, q, st)
        BY <1>3 DEF SoleStreams
    <2>2. ASSUME NEW su \in streams'[x][q], su.task = st.task, su.store = st.store PROVE su = st
        <3>1. CASE su \in streams[x][q]
            BY <2>1, <2>2, <3>1 DEF Sole
        <3>2. CASE x = c /\ q = p /\ su = new
            BY <1>2, <1>3, <2>2, <3>2
        <3> QED
            BY <3>1, <3>2
    <2> QED
        BY <1>1, <2>1, <2>2 DEF Sole, Stays
<1>4. CASE x = c /\ q = p /\ st = new
    <2>1. \A su \in streams'[x][q] : su.task = st.task /\ su.store = st.store => su = st
        BY <1>2, <1>4
    <2>2. end'[x][q] = "running"
        BY <1>4 DEF Stays
    <2> QED
        BY <1>4, <2>1, <2>2 DEF Sole
<1> QED
    BY <1>3, <1>4

(* The leader's stream: its request was still to be answered, so none was   *)
(* there.                                                                   *)
LEMMA LeaderSole ==
    ASSUME IInv, SoleStreams, Stays, NEW c \in Dials, NEW m \in Party, run_request_new_stream_server(c, m)
    PROVE  SoleStreams'
<1>1. leader[c][m] \in LeaderState /\ leader[c][m].at = "requesting"
    BY LeaderCreates DEF LeaderCreated, IInv, Types, ManagerTypes
<1>2. PICK s \in Nat, id \in Nat : s = leader[c][m].store /\ id = leader[c][m].latest
    BY <1>1 DEF LeaderState
<1> DEFINE d == DeviceAt(c, m)
           e == PeerAt(c, m)
           new == [id |-> id, store |-> s, task |-> "server"]
<1>3. Leads(c, m) /\ id \notin StreamIds(c, m) /\ CreateStream(c, m, id, s, "server")
    BY <1>2, LeaderCreates DEF LeaderCreated
<1>4. s \in Opens[d] /\ peers[d][s][e].outgoing = "Initializing" /\ Places(queue[d][s], RegisterOutgoing(e)) = 0
    BY <1>1, <1>2, AskedOnce
<1>5. d \in Device /\ e \in Device /\ s \in Store
    BY <1>4, EndsAreDevices DEF Store
<1>6. ManagerTypes /\ StoreTypes
    BY DEF IInv, Types
<1>7. /\ streams'[c][m] = streams[c][m] \cup {new} /\ new \in Stream
      /\ \A x \in Dials, q \in Party : ~(x = c /\ q = m) => streams'[x][q] = streams[x][q]
    <2>1. ManagerTypes
        BY <1>6
    <2>2. id \notin StreamIds(c, m)
        BY <1>3
    <2>3. CreateStream(c, m, id, s, "server")
        BY <1>3
    <2>4. s \in Store
        BY <1>5
    <2> HIDE DEF new, d, e
    <2>5. StreamAdded(c, m, [id |-> id, store |-> s, task |-> "server"])
        BY <2>1, <2>2, <2>3, <2>4, AddsStream
    <2> QED
        BY <2>5 DEF StreamAdded, new
<1>8. queue' = SentTo(d, {s}, RegisterOutgoing(e)) /\ RegisterOutgoing(e) \in Command
    BY <1>3, <1>5 DEF CreateStream, RegisterOutgoing, Command
<1>9. Sends(d, {s}, RegisterOutgoing(e))
    BY <1>5, <1>6, <1>8, SentToFacts
<1> HIDE DEF d, e
<1>10. Places(queue'[d][s], RegisterOutgoing(e)) = 1
    BY <1>4, <1>5, <1>9 DEF Sends
<1>11. ~Served(d, s, e) /\ Served(d, s, e)'
    BY <1>4, <1>10 DEF Served
<1>12. end[c][m] = "running"
    BY <1>3 DEF Leads
<1>13. new.store = s /\ new.task = "server"
    OBVIOUS
<1> HIDE DEF new
<1> QED
    BY <1>4, <1>7, <1>11, <1>12, <1>13, OneIsNew DEF d, e

(* The follower's stream: its store had just consented, so none was there.  *)
LEMMA FollowerSole ==
    ASSUME IInv, SoleStreams, Stays, NEW c \in Dials, NEW m \in Party, FollowerCreatesStream(c, m)
    PROVE  SoleStreams'
<1>1. leader[c][m] \in LeaderState /\ leader[c][m].at = "requesting"
    <2>1. leader[c][m] \in LeaderState
        BY DEF IInv, Types, ManagerTypes
    <2>2. leader[c][m].at = "requesting"
        BY FollowerCreates DEF FollowerCreated
    <2> QED
        BY <2>1, <2>2
<1>2. PICK s \in Nat, id \in Nat : s = leader[c][m].store /\ id = leader[c][m].latest
    BY <1>1 DEF LeaderState
<1> DEFINE p == Dual(m)
           d == DeviceAt(c, p)
           e == PeerAt(c, p)
           new == [id |-> id, store |-> s, task |-> "client"]
<1>0. p \in Party /\ d \in Device /\ e \in Device /\ d = PeerAt(c, m) /\ e = DeviceAt(c, m)
    BY EndsAreDevices
<1>3. /\ Follows(c, m) /\ id \notin StreamIds(c, p) /\ CreateStream(c, p, id, s, "client")
      /\ Leads(c, m) /\ follower[c][m].at = "creating" /\ follower[c][m].store = s
    BY <1>2, FollowerCreates DEF FollowerCreated
<1>4. s \in Opens[d] /\ s \in Store
    <2>1. Runs(d, s)
        BY <1>0, <1>1, <1>2, AskedOnce
    <2> QED
        BY <1>0, <2>1 DEF Runs, Store
<1>6. ManagerTypes /\ StoreTypes
    BY DEF IInv, Types
<1>7. /\ streams'[c][p] = streams[c][p] \cup {new} /\ new \in Stream
      /\ \A x \in Dials, q \in Party : ~(x = c /\ q = p) => streams'[x][q] = streams[x][q]
    <2>1. ManagerTypes
        BY <1>6
    <2>2. id \notin StreamIds(c, p) /\ p \in Party
        BY <1>0, <1>3
    <2>3. CreateStream(c, p, id, s, "client")
        BY <1>3
    <2>4. s \in Store
        BY <1>4
    <2> HIDE DEF p, new, d, e
    <2>5. StreamAdded(c, p, [id |-> id, store |-> s, task |-> "client"])
        BY <2>1, <2>2, <2>3, <2>4, AddsStream
    <2> QED
        BY <2>5 DEF StreamAdded, new
<1>8. queue' = SentTo(d, {s}, RegisterIncoming(e)) /\ RegisterIncoming(e) \in Command
    BY <1>0, <1>3 DEF CreateStream, RegisterIncoming, Command
<1>9. Sends(d, {s}, RegisterIncoming(e))
    BY <1>0, <1>6, <1>8, SentToFacts
<1>c. Creates(d, s, e)
    BY <1>0, <1>3 DEF Creates
<1>r. end[c][p] = "running"
    BY <1>3 DEF Follows
<1> HIDE DEF p, d, e
<1>10. /\ Places(queue[d][s], RegisterIncoming(e)) = 0 /\ Places(queue'[d][s], RegisterIncoming(e)) = 1
       /\ peers[d][s][e].incoming = "Initializing"
    <2>1. 1 + Places(queue[d][s], RegisterIncoming(e)) = IF peers[d][s][e].incoming = "Initializing" THEN 1 ELSE 0
        BY <1>0, <1>4, <1>c DEF IInv, IncomingOnce, One
    <2>2. Places(queue[d][s], RegisterIncoming(e)) \in Nat
        BY <1>0, <1>4, <1>9 DEF Sends
    <2>3. Places(queue[d][s], RegisterIncoming(e)) = 0 /\ peers[d][s][e].incoming = "Initializing"
        BY <2>1, <2>2
    <2> QED
        BY <1>0, <1>4, <1>9, <2>3 DEF Sends
<1>11. ~Fed(d, s, e) /\ Fed(d, s, e)'
    BY <1>10 DEF Fed
<1>13. new.store = s /\ new.task = "client"
    OBVIOUS
<1> HIDE DEF new
<1> QED
    BY <1>0, <1>4, <1>7, <1>11, <1>r, <1>13, OneIsNew DEF d, e

(* Every step keeps what is said of the streams.                            *)
LEMMA SoleStep == IInv /\ SoleStreams /\ [Next]_vars => SoleStreams'
<1> SUFFICES ASSUME IInv, SoleStreams, [Next]_vars PROVE SoleStreams'
    OBVIOUS
<1>1. Stays
    BY StepStays
<1>2. CASE \E c \in Dials, m \in Party : run_request_new_stream_server(c, m) \/ FollowerCreatesStream(c, m)
    BY <1>1, <1>2, LeaderSole, FollowerSole
<1>3. CASE ~\E c \in Dials, m \in Party : run_request_new_stream_server(c, m) \/ FollowerCreatesStream(c, m)
    <2>1. UNCHANGED streams
        <3>1. CASE UNCHANGED vars
            BY <3>1 DEF vars, managerVars
        <3>2. CASE Application \/ Launch \/ Dialling
            BY <3>2 DEF Application, Launch, Dialling, OpenStore, launch_store, Dial, managerVars
        <3>3. ASSUME NEW c \in Dials, Connecting(c) PROVE UNCHANGED streams
            BY <3>3 DEF Connecting, run_handshake_server, run_handshake_client, initiate_peer, managerVars
        <3>4. ASSUME NEW c \in Dials, NEW m \in Party, Leading(c, m) PROVE UNCHANGED streams
            BY <1>3, <3>4 DEF Leading, AdvertiseStores, run_advertise_stores_server, RequestStoreStream
        <3>5. ASSUME NEW c \in Dials, NEW m \in Party, Following(c, m) PROVE UNCHANGED streams
            BY <1>3, <3>5 DEF Following, run_advertise_stores_client, run_request_new_stream_client
        <3>6. ASSUME NEW d \in Device, NEW s \in Store, Handling(d, s) PROVE UNCHANGED streams
            BY <3>6 DEF Handling, HandleRegisterPeers, HandleSyncWithPeer, HandleRegisterOutgoing, HandleRegisterIncoming,
                        managerVars
        <3> QED
            BY <3>1, <3>2, <3>3, <3>4, <3>5, <3>6 DEF Next, Tasks
    <2> QED
        BY <1>1, <2>1, SoleStay
<1> QED
    BY <1>2, <1>3

(* A device has one stream of a store with a peer for each direction at     *)
(* most, over all connections between the two: a second is never asked for, *)
(* or consented to, once a status has left Known.                           *)
THEOREM SyncedOnce == Spec => []OneStreamPerDirection
<1>1. Init => SoleStreams
    BY DEF Init, SoleStreams
<1>2. IInv /\ SoleStreams => OneStreamPerDirection
    <2> SUFFICES ASSUME IInv, SoleStreams, NEW d \in Device, NEW e \in Device, NEW s \in Store, NEW t \in {"server", "client"}
                 PROVE  Cardinality({x \in Dials \X Party \X StreamIdsUsed :
                            /\ DeviceAt(x[1], x[2]) = d /\ PeerAt(x[1], x[2]) = e
                            /\ [id |-> x[3], store |-> s, task |-> t] \in streams[x[1]][x[2]]}) <= 1
        BY DEF OneStreamPerDirection
    <2> DEFINE X == {x \in Dials \X Party \X StreamIdsUsed :
                        /\ DeviceAt(x[1], x[2]) = d /\ PeerAt(x[1], x[2]) = e
                        /\ [id |-> x[3], store |-> s, task |-> t] \in streams[x[1]][x[2]]}
    <2>1. ASSUME NEW x \in X, NEW y \in X PROVE x = y
        <3>1. /\ x[1] \in Dials /\ x[2] \in Party /\ y[1] \in Dials /\ y[2] \in Party
              /\ x = <<x[1], x[2], x[3]>> /\ y = <<y[1], y[2], y[3]>>
            OBVIOUS
        <3>2. /\ [id |-> x[3], store |-> s, task |-> t] \in streams[x[1]][x[2]]
              /\ [id |-> y[3], store |-> s, task |-> t] \in streams[y[1]][y[2]]
              /\ DeviceAt(x[1], x[2]) = DeviceAt(y[1], y[2]) /\ PeerAt(x[1], x[2]) = PeerAt(y[1], y[2])
            OBVIOUS
        <3>3. /\ Sole(x[1], x[2], [id |-> x[3], store |-> s, task |-> t])
              /\ Sole(y[1], y[2], [id |-> y[3], store |-> s, task |-> t])
            BY <3>1, <3>2 DEF SoleStreams
        <3>4. Leads(x[1], x[2]) /\ Leads(y[1], y[2])
            BY <3>3 DEF Sole, Leads
        <3>5. x[1] = y[1] /\ x[2] = y[2]
            BY <3>1, <3>2, <3>4, OneLeader DEF IInv
        <3>6. [id |-> x[3], store |-> s, task |-> t] = [id |-> y[3], store |-> s, task |-> t]
            BY <3>2, <3>3, <3>5 DEF Sole
        <3>7. x[3] = y[3]
            BY <3>6
        <3> QED
            BY <3>1, <3>5, <3>7
    <2> HIDE DEF X
    <2>2. Cardinality(X) <= 1
        BY <2>1, AtMostOne
    <2> QED
        BY <2>2 DEF X
<1>3. IInv /\ SoleStreams /\ [Next]_vars => SoleStreams'
    BY SoleStep
<1> QED
    BY <1>1, <1>2, <1>3, Invariant, PTL DEF Spec
=============================================================================
