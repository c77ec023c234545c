------------------------------- MODULE Replica -------------------------------
(***************************************************************************)
(* What one device's store holds, from the metadata on: the hashes of the  *)
(* initial state's blocks (MerkleTree), the blocks, then the causal graph  *)
(* and the value its operations make (Crdt).  These are the contents of    *)
(* StateMachine in store/mod.rs and the handlers that change them.         *)
(*                                                                         *)
(* Module Store says what is asked of whom; here any hash and any block    *)
(* may come, in any order, late or twice, and at most MaxWrong of them are *)
(* wrong.  An answer carries several; each is handled on its own and       *)
(* changes nothing once the phase is over, so they come one by one.        *)
(* A second answer with metadata would start it all again: Store shows     *)
(* where one can come (OperationsOnlyWhileSyncing).                        *)
(***************************************************************************)
EXTENDS MerkleTree, Crdt

CONSTANT MaxWrong   \* bound on the wrong hashes and blocks received

ASSUME MaxWrongAssumption == MaxWrong \in Nat

VARIABLES
  phase,           \* which StateMachine it is
  initial_state,   \* the blocks held: a function of their positions
  wrong            \* wrong hashes and blocks received so far

replicaVars == <<treeVars, crdtVars, phase, initial_state, wrong>>

Phase == {"DownloadingMerkle", "DownloadingInitialState", "Syncing"}

\* With one block the root is the whole tree.
ReplicaInit ==
  /\ TreeInit
  /\ CrdtInit
  /\ phase = IF LeafCount = 1 THEN "DownloadingInitialState" ELSE "DownloadingMerkle"
  /\ initial_state = [k \in {} |-> Content[k]]
  /\ wrong = 0

\* Faults are bounded, right answers are not.
Counts(right) ==
  /\ right \/ wrong < MaxWrong
  /\ wrong' = IF right THEN wrong ELSE wrong + 1

\* handle_received_merkle_hashes: one of the hashes.
ReceiveHash(i, hash) ==
  /\ phase = "DownloadingMerkle"
  /\ Set(i, hash)
  /\ Counts(hash = Honest[i])
  /\ UNCHANGED <<crdtVars, phase, initial_state>>

\* The same handler goes on: after the last call of validate_children it moves
\* on to the blocks if the tree is complete.
Validate ==
  /\ ValidateChildren
  /\ phase' = IF pending' = <<>> /\ TryComplete' THEN "DownloadingInitialState" ELSE phase
  /\ UNCHANGED <<crdtVars, initial_state, wrong>>

ValidateChunk(k, chunk) == nodes[IndexForLeaf(k)].hash = ChunkHash(chunk)

\* handle_received_initial_state_blocks: one of the blocks is right and new.
\* With the last one the value is decoded and the graph is empty.
ReceiveBlock(k, chunk) ==
  /\ phase = "DownloadingInitialState"
  /\ k \notin DOMAIN initial_state
  /\ ValidateChunk(k, chunk)
  /\ initial_state' = [j \in DOMAIN initial_state \cup {k} |->
                         IF j = k THEN chunk ELSE initial_state[j]]
  /\ phase' = IF DOMAIN initial_state' = Leaf THEN "Syncing" ELSE phase
  /\ Counts(chunk = Content[k])
  /\ UNCHANGED <<treeVars, crdtVars>>

\* The operations of the store's own application and of its peers.
Sync ==
  /\ phase = "Syncing"
  /\ CrdtNext
  /\ UNCHANGED <<treeVars, phase, initial_state, wrong>>

ReplicaNext ==
  \/ \E i \in Index, hash \in Hash : ReceiveHash(i, hash)
  \/ Validate
  \/ \E k \in Leaf, chunk \in Chunk : ReceiveBlock(k, chunk)
  \/ Sync

(***************************************************************************)
(* A handler that has begun ends, and what is missing arrives: a store     *)
(* asks a peer again whenever one has answered (Store!SendSyncRequests),   *)
(* and some peer answers right.                                            *)
(***************************************************************************)
Fairness ==
  /\ WF_replicaVars(Validate)
  /\ WF_replicaVars(\E i \in Index : ReceiveHash(i, Honest[i]))
  /\ WF_replicaVars(\E k \in Leaf : ReceiveBlock(k, Content[k]))

ReplicaSpec == ReplicaInit /\ [][ReplicaNext]_replicaVars
FairReplicaSpec == ReplicaSpec /\ Fairness
-----------------------------------------------------------------------------
(***************************************************************************)
(* A store is only ever made of what its creator published: verified       *)
(* hashes are the creator's, a block that has been accepted at a position  *)
(* is the creator's block of that position, and operations are applied to  *)
(* the whole initial state.                                                *)
(***************************************************************************)
ContentIsTheCreators ==
  /\ VerifiedIsHonest
  /\ \A k \in DOMAIN initial_state : initial_state[k] = Content[k]
  /\ Nodes # {} => initial_state = Content

\* Wrong hashes and blocks, if there is an end to them, do not keep a store
\* from being downloaded: what they displace is asked for again.
DownloadEnds == <>(phase = "Syncing")
=============================================================================
