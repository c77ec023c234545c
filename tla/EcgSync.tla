------------------------------ MODULE EcgSync ------------------------------
(***************************************************************************)
(* Synchronisation of the causal graphs of stores that have reached the    *)
(* state Syncing: the ECG part of protocol/store_peer (ecg_sync.rs, v0.rs) *)
(* with the handlers of store/mod.rs it talks to.                          *)
(*                                                                         *)
(* A link <<i, r>> is one StoreSync stream: device i, the initiator, pulls *)
(* from device r, the responder.  Per link there are two tasks (the        *)
(* initiator's run_server at i, the responder's run_client at r) that talk *)
(* over an ordered stream and exchange commands with the store task of     *)
(* their device.  The store tasks run one command at a time; the tasks     *)
(* work on copies of the graph taken when the store handled their command, *)
(* while the store goes on.                                                *)
(*                                                                         *)
(* A graph is given by the set of its headers: tips, roots, children and   *)
(* depths are functions of that set (EcgProofs, EcgIndexesMatchHeaders).   *)
(*                                                                         *)
(* Commands a task has sent to its store and not been answered yet are     *)
(* kept per link; the store takes them in any order.  Each task has at     *)
(* most one such command, so this is every order in which they can arrive  *)
(* in the store's queue.                                                   *)
(***************************************************************************)
EXTENDS HeaderGraph, SequencesExt

CONSTANTS
  Device,       \* devices that hold the store
  Link,         \* pairs <<initiator, responder>> with a StoreSync stream
  Author,       \* Author[h]: the device whose application creates header h
  MaxHave,      \* MAX_HAVE_HEADERS: headers proposed per response
  MaxDeliver    \* MAX_DELIVER_HEADERS: operations sent per response

ASSUME SyncAssumption ==
  /\ Link \subseteq {l \in Device \X Device : l[1] # l[2]}
  /\ Author \in [HeaderId -> Device]
  /\ MaxHave \in Nat \ {0}
  /\ MaxDeliver \in Nat \ {0}

VARIABLES
  ecg,          \* ecg[d]: headers of the graph of d's store
  outgoing,     \* outgoing[l]: outgoing_status of the peer at the initiator's store
  command,      \* command[l]: ECGSyncRequest on its way to the initiator's task
  initiator,    \* initiator[l]: state of the initiator's task
  request,      \* request[l]: request on the stream
  response,     \* response[l]: responses on the stream, oldest first
  received,     \* received[l]: ReceivedECGOperations on its way to the store
  responder     \* responder[l]: state of the responder's task

vars == <<ecg, outgoing, command, initiator, request, response, received, responder>>

Initiator(l) == l[1]
Responder(l) == l[2]
SeqToSet(s) == {s[i] : i \in DOMAIN s}

OutgoingStatus == {"Initializing", "Ready", "Outstanding"}

\* Stages of the responder's task; each but the first is an await.
ResponderStage ==
  {"Receive",        \* waits for a request
   "RequestState",   \* SubscribeECG with no tips is with the store
   "HaveState",      \* the store has answered with its graph
   "Subscribe",      \* SubscribeECG with the tips of the copy is with the store
   "Subscribed",     \* registered in the store's ecg_subscribers
   "Updated"}        \* the store has answered with a newer graph

(***************************************************************************)
(* The queues of the tasks, some of them priority queues, hold an element  *)
(* as often as it was pushed; what is taken out next is said where it is.  *)
(***************************************************************************)
Queue(E) == [E -> Nat]
EmptyQueue(E) == [e \in E |-> 0]
Held(queue) == {e \in DOMAIN queue : queue[e] > 0}
Push(queue, es) == [e \in DOMAIN queue |-> IF e \in es THEN queue[e] + 1 ELSE queue[e]]
Pop(queue, e) == [queue EXCEPT ![e] = @ - 1]

(***************************************************************************)
(* ECGSyncResponder: what it knows of the initiator, and two queues.  An   *)
(* entry of haves_queue is a header and the distance from the tip it was   *)
(* reached from; it is marked as a tip if that is 0, and its depth is the  *)
(* header's.  No chain of parents is longer than there are headers.        *)
(***************************************************************************)
HaveEntry == HeaderId \X (0..Cardinality(HeaderId))

ResponderState ==
  [stage : ResponderStage, snapshot : SUBSET HeaderId, tips : SUBSET HeaderId,
   known : SUBSET Nat, firstRun : BOOLEAN,
   theirKnown : SUBSET HeaderId, ourUnknown : SUBSET HeaderId,
   sendQueue : Queue(HeaderId), sentHaves : Seq(HeaderId), havesQueue : Queue(HaveEntry)]

NewResponder ==
  [stage |-> "Receive", snapshot |-> {}, tips |-> {}, known |-> {}, firstRun |-> TRUE,
   theirKnown |-> {}, ourUnknown |-> {}, sendQueue |-> EmptyQueue(HeaderId),
   sentHaves |-> <<>>, havesQueue |-> EmptyQueue(HaveEntry)]

TheyKnow(known, unknown, h) == h \in known \cup unknown

(***************************************************************************)
(* mark_as_known_helper.  A header that is known already is passed over to *)
(* its parents, and the first that is not known is marked, so what is      *)
(* marked is not closed under parents.  The order in which headers leave   *)
(* the queue does not matter to the result.                                *)
(***************************************************************************)
MarkState == [known : SUBSET HeaderId, queue : Queue(HeaderId)]

MarkNext(s) ==
  LET h == CHOOSE h \in Held(s.queue) : TRUE
  IN  IF h \in s.known
      THEN [s EXCEPT !.queue = Push(Pop(@, h), ParentIds[h])]
      ELSE [known |-> s.known \cup {h}, queue |-> Pop(s.queue, h)]

Mark[s \in MarkState] == IF Held(s.queue) = {} THEN s ELSE Mark[MarkNext(s)]

Marked(known, hs) == Mark[[known |-> known, queue |-> Push(EmptyQueue(HeaderId), hs)]].known

MarkAsKnown(rs, hs) == [rs EXCEPT !.theirKnown = Marked(@, hs)]

SendRoots(rs) == [rs EXCEPT !.sendQueue = Push(@, RootsOf(rs.snapshot))]

\* The children of each of hs are queued: a header once for each parent in hs.
ChildrenPushed(queue, graph, hs) ==
  [c \in HeaderId |-> IF c \in graph THEN queue[c] + Cardinality(ParentIds[c] \cap hs) ELSE queue[c]]

SendChildren(rs, hs) == [rs EXCEPT !.sendQueue = ChildrenPushed(@, rs.snapshot, hs)]

\* update_our_unknown: headers of theirs that we have got in the meantime.
UpdateOurUnknown(rs) ==
  LET now == rs.ourUnknown \cap rs.snapshot
  IN  [MarkAsKnown(rs, now) EXCEPT !.ourUnknown = @ \ now]

\* Mutant: their tips are marked as known without looking them up.
HandleTheirTipsUnchecked(rs) ==
  SendChildren(MarkAsKnown(IF rs.tips = {} THEN SendRoots(rs) ELSE rs, rs.tips), rs.tips)

\* Mutant: those who have nothing are sent our tips, not our roots.
HandleTheirTipsNewestFirst(rs) ==
  LET ours == rs.tips \cap rs.snapshot
      begun == IF rs.tips = {} THEN [rs EXCEPT !.sendQueue = Push(@, TipsOf(rs.snapshot))] ELSE rs
  IN  [SendChildren(MarkAsKnown(begun, ours), ours) EXCEPT !.ourUnknown = @ \cup (rs.tips \ ours)]

HandleTheirTips(rs) ==
  LET ours == rs.tips \cap rs.snapshot
      begun == IF rs.tips = {} THEN SendRoots(rs) ELSE rs
  IN  [SendChildren(MarkAsKnown(begun, ours), ours) EXCEPT !.ourUnknown = @ \cup (rs.tips \ ours)]

\* Mutant: a root they do not have is not sent.
HandleHaveExceptRoots(rs, h, theyHave) ==
  IF theyHave THEN SendChildren(MarkAsKnown(rs, {h}), {h})
  ELSE IF ParentIds[h] # {} /\ ParentIds[h] \subseteq rs.theirKnown
  THEN [rs EXCEPT !.sendQueue = Push(@, {h})] ELSE rs

\* One header we proposed, and whether the initiator says it has it.
HandleHave(rs, h, theyHave) ==
  IF theyHave THEN SendChildren(MarkAsKnown(rs, {h}), {h})
  ELSE IF ParentIds[h] \subseteq rs.theirKnown
  THEN [rs EXCEPT !.sendQueue = Push(@, {h})] ELSE rs

\* Mutant: the answers are read from the second on.
HandleTheirKnownShifted(rs) ==
  LET After[n \in 0..Len(rs.sentHaves)] ==
        IF n = 0 THEN rs ELSE HandleHave(After[n - 1], rs.sentHaves[n], n + 1 \in rs.known)
  IN  After[Len(rs.sentHaves)]

\* handle_their_known goes through the headers proposed in the order sent.
HandleTheirKnown(rs) ==
  LET After[n \in 0..Len(rs.sentHaves)] ==
        IF n = 0 THEN rs ELSE HandleHave(After[n - 1], rs.sentHaves[n], n \in rs.known)
  IN  After[Len(rs.sentHaves)]

(***************************************************************************)
(* prepare_operations: headers leave send_queue in order of depth, larger  *)
(* ids first among equals; what the initiator does not know is delivered,  *)
(* and the children are queued either way.                                 *)
(***************************************************************************)
NextToSend(queue) ==
  CHOOSE h \in Held(queue) : \A k \in Held(queue) :
    Depth[h] < Depth[k] \/ (Depth[h] = Depth[k] /\ k <= h)

SendState ==
  [graph : SUBSET HeaderId, unknown : SUBSET HeaderId,
   known : SUBSET HeaderId, queue : Queue(HeaderId), ops : Seq(HeaderId)]

\* Mutant: what is delivered is not marked as known.
SendNextUnmarked(s) ==
  LET h == NextToSend(s.queue)
      next == [s EXCEPT !.queue = ChildrenPushed(Pop(@, h), s.graph, {h})]
  IN  IF TheyKnow(s.known, s.unknown, h) THEN next ELSE [next EXCEPT !.ops = Append(@, h)]

SendNext(s) ==
  LET h == NextToSend(s.queue)
      next == [s EXCEPT !.queue = ChildrenPushed(Pop(@, h), s.graph, {h})]
  IN  IF TheyKnow(s.known, s.unknown, h) THEN next
      ELSE [next EXCEPT !.known = Marked(@, {h}), !.ops = Append(@, h)]

Send[s \in SendState] ==
  IF Held(s.queue) = {} \/ Len(s.ops) = MaxDeliver THEN s ELSE Send[SendNext(s)]

PrepareOperations(rs) ==
  Send[[graph |-> rs.snapshot, unknown |-> rs.ourUnknown, known |-> rs.theirKnown,
        queue |-> rs.sendQueue, ops |-> <<>>]]

(***************************************************************************)
(* prepare_sent_haves: entries leave haves_queue tips first, then deepest  *)
(* first; a header the initiator is not known to have is proposed when its *)
(* distance from a tip is a power of two (0 counts) or it is a root, and   *)
(* its parents are queued.                                                 *)
(***************************************************************************)
NotAfter(a, b) ==
  IF (a[2] = 0) # (b[2] = 0) THEN a[2] = 0
  ELSE IF Depth[a[1]] # Depth[b[1]] THEN Depth[a[1]] > Depth[b[1]]
  ELSE IF a[1] # b[1] THEN a[1] > b[1]
  ELSE a[2] >= b[2]

NextToPropose(queue) == CHOOSE a \in Held(queue) : \A b \in Held(queue) : NotAfter(a, b)

IsPowerOfTwo(n) == n = 0 \/ \E k \in 0..n : n = 2^k

PrepareOurTips(rs) == [rs EXCEPT !.havesQueue = Push(@, TipsOf(rs.snapshot) \X {0})]

ProposeState ==
  [known : SUBSET HeaderId, unknown : SUBSET HeaderId, queue : Queue(HaveEntry), haves : Seq(HeaderId)]

ProposeNext(s) ==
  LET entry == NextToPropose(s.queue)
      h == entry[1]
      distance == entry[2]
      rest == Pop(s.queue, entry)
  IN  IF TheyKnow(s.known, s.unknown, h) THEN [s EXCEPT !.queue = rest]
      ELSE [s EXCEPT
             !.haves = IF IsPowerOfTwo(distance) \/ Depth[h] = 1 THEN Append(@, h) ELSE @,
             !.queue = Push(rest, ParentIds[h] \X {distance + 1})]

Propose[s \in ProposeState] ==
  IF Held(s.queue) = {} \/ Len(s.haves) = MaxHave THEN s ELSE Propose[ProposeNext(s)]

PrepareSentHaves(rs) ==
  Propose[[known |-> rs.theirKnown, unknown |-> rs.ourUnknown, queue |-> rs.havesQueue, haves |-> <<>>]]
-----------------------------------------------------------------------------
(***************************************************************************)
(* The store task.                                                         *)
(***************************************************************************)

\* insert_header for a list of operations: those not held whose parents are.
InsertHeader(S, h) == IF ParentIds[h] \subseteq S THEN S \cup {h} ELSE S
InsertHeaders(S, ops) ==
  LET After[n \in 0..Len(ops)] == IF n = 0 THEN S ELSE InsertHeader(After[n - 1], ops[n])
  IN  After[Len(ops)]

\* send_sync_requests of device d in Syncing: every ready peer gets the graph.
SendSyncRequests(d, out, graph) ==
  LET ready == {l \in Link : Initiator(l) = d /\ out[l] = "Ready"}
  IN  /\ outgoing' = [l \in Link |-> IF l \in ready THEN "Outstanding" ELSE out[l]]
      /\ command' = [l \in Link |-> IF l \in ready THEN Append(command[l], graph) ELSE command[l]]

\* update_listeners: every subscriber of d gets the graph and is forgotten,
\* except the peer the update came from.
UpdateListeners(d, graph, from) ==
  [l \in Link |->
     IF Responder(l) = d /\ responder[l].stage = "Subscribed" /\ Initiator(l) \notin from
     THEN [responder[l] EXCEPT !.stage = "Updated", !.snapshot = graph]
     ELSE responder[l]]

\* RegisterOutgoingPeerSyncing: the initiator's task is up.
RegisterOutgoing(l) ==
  /\ outgoing[l] = "Initializing"
  /\ SendSyncRequests(Initiator(l), [outgoing EXCEPT ![l] = "Ready"], ecg[Initiator(l)])
  /\ UNCHANGED <<ecg, initiator, request, response, received, responder>>

\* ReceivedECGOperations.
StoreReceives(l) ==
  /\ received[l] # <<>>
  /\ LET d == Initiator(l)
     IN  \E graph \in {InsertHeaders(ecg[d], Head(received[l]))} :
           /\ ecg' = [ecg EXCEPT ![d] = graph]
           /\ responder' = UpdateListeners(d, graph, {Responder(l)})
           /\ SendSyncRequests(d, [outgoing EXCEPT ![l] = "Ready"], graph)
  /\ received' = [received EXCEPT ![l] = Tail(@)]
  /\ UNCHANGED <<initiator, request, response>>

\* SubscribeECG without tips is answered at once.
StoreSharesState(l) ==
  /\ responder[l].stage = "RequestState"
  /\ responder' = [responder EXCEPT ![l].stage = "HaveState",
                                   ![l].snapshot = ecg[Responder(l)]]
  /\ UNCHANGED <<ecg, outgoing, command, initiator, request, response, received>>

\* Mutant: the sender is registered without comparing tips.
StoreSubscribesAlways(l) ==
  /\ responder[l].stage = "Subscribe"
  /\ responder' = [responder EXCEPT ![l].stage = "Subscribed"]
  /\ UNCHANGED <<ecg, outgoing, command, initiator, request, response, received>>

\* SubscribeECG with tips is answered at once if ours are different, and
\* otherwise the sender is registered.
StoreSubscribes(l) ==
  /\ responder[l].stage = "Subscribe"
  /\ LET d == Responder(l)
     IN  responder' = IF TipsOf(ecg[d]) # TipsOf(responder[l].snapshot)
                      THEN [responder EXCEPT ![l].stage = "Updated", ![l].snapshot = ecg[d]]
                      ELSE [responder EXCEPT ![l].stage = "Subscribed"]
  /\ UNCHANGED <<ecg, outgoing, command, initiator, request, response, received>>

\* Mutant: a header is applied whether or not its parents are there.
ApplyUnchecked(h) ==
  LET d == Author[h]
      graph == ecg[d] \cup {h}
  IN  /\ h \notin ecg[d]
      /\ ecg' = [ecg EXCEPT ![d] = graph]
      /\ responder' = UpdateListeners(d, graph, {})
      /\ UNCHANGED <<outgoing, command, initiator, request, response, received>>

\* StoreCommand::Apply: the application adds a header of its own.
Apply(h) ==
  LET d == Author[h]
      graph == ecg[d] \cup {h}
  IN  /\ h \notin ecg[d]
      /\ ParentIds[h] \subseteq ecg[d]
      /\ ecg' = [ecg EXCEPT ![d] = graph]
      /\ responder' = UpdateListeners(d, graph, {})
      /\ UNCHANGED <<outgoing, command, initiator, request, response, received>>
-----------------------------------------------------------------------------
(***************************************************************************)
(* The initiator's task: ECGSyncInitiator::run_new and run_round.          *)
(***************************************************************************)
InitiatorState ==
  [stage : {"Command", "Response", "ResponseAfterWait"}, started : BOOLEAN, have : Seq(HeaderId)]

\* It reports its tips and which of the headers last proposed it has.
InitiatorRequests(l) ==
  /\ initiator[l].stage = "Command"
  /\ command[l] # <<>>
  /\ LET graph == Head(command[l])
         have == initiator[l].have
     IN  request' = [request EXCEPT ![l] =
                       Append(@, [initial |-> ~initiator[l].started,
                                  tips |-> TipsOf(graph),
                                  known |-> {i \in DOMAIN have : have[i] \in graph}])]
  /\ command' = [command EXCEPT ![l] = Tail(@)]
  /\ initiator' = [initiator EXCEPT ![l].stage = "Response"]
  /\ UNCHANGED <<ecg, outgoing, response, received, responder>>

\* Told to wait, it goes on to receive the response itself.
InitiatorWaits(l) ==
  /\ initiator[l].stage = "Response"
  /\ response[l] # <<>>
  /\ Head(response[l]).type = "Wait"
  /\ response' = [response EXCEPT ![l] = Tail(@)]
  /\ initiator' = [initiator EXCEPT ![l].stage = "ResponseAfterWait"]
  /\ UNCHANGED <<ecg, outgoing, command, request, received, responder>>

\* Mutant: new proposals are added to the ones answered already.
InitiatorReceivesMore(l) ==
  /\ initiator[l].stage \in {"Response", "ResponseAfterWait"}
  /\ response[l] # <<>>
  /\ Head(response[l]).type = "Response"
  /\ initiator' = [initiator EXCEPT ![l] =
                     [stage |-> "Command", started |-> TRUE,
                      have |-> @.have \o Head(response[l]).have]]
  /\ received' = [received EXCEPT ![l] = Append(@, Head(response[l]).operations)]
  /\ response' = [response EXCEPT ![l] = Tail(@)]
  /\ UNCHANGED <<ecg, outgoing, command, request, responder>>

\* It keeps the proposals for the next round and hands the operations on.
InitiatorReceives(l) ==
  /\ initiator[l].stage \in {"Response", "ResponseAfterWait"}
  /\ response[l] # <<>>
  /\ Head(response[l]).type = "Response"
  /\ initiator' = [initiator EXCEPT ![l] =
                     [stage |-> "Command", started |-> TRUE, have |-> Head(response[l]).have]]
  /\ received' = [received EXCEPT ![l] = Append(@, Head(response[l]).operations)]
  /\ response' = [response EXCEPT ![l] = Tail(@)]
  /\ UNCHANGED <<ecg, outgoing, command, request, responder>>
-----------------------------------------------------------------------------
(***************************************************************************)
(* The responder's task: run_client, run_initial, run_round.               *)
(***************************************************************************)

\* A request makes it ask the store for its graph.
ResponderReceives(l) ==
  /\ responder[l].stage = "Receive"
  /\ request[l] # <<>>
  /\ LET req == Head(request[l])
         rs == IF req.initial THEN NewResponder ELSE responder[l]
     IN  responder' = [responder EXCEPT ![l] =
                         [rs EXCEPT !.stage = "RequestState",
                                    !.tips = req.tips, !.known = req.known]]
  /\ request' = [request EXCEPT ![l] = Tail(@)]
  /\ UNCHANGED <<ecg, outgoing, command, initiator, response, received>>

\* What lasts from one round to the next.
RoundDone(rs) ==
  [NewResponder EXCEPT !.theirKnown = rs.theirKnown, !.ourUnknown = rs.ourUnknown,
     !.sendQueue = rs.sendQueue, !.sentHaves = rs.sentHaves, !.havesQueue = rs.havesQueue]

\* The end of a turn: respond, or (telling the initiator once) subscribe.
Respond(l, rs, operations) ==
  IF operations # <<>> \/ rs.sentHaves # <<>>
  THEN /\ response' = [response EXCEPT ![l] =
                         Append(@, [type |-> "Response", have |-> rs.sentHaves,
                                    operations |-> operations])]
       /\ responder' = [responder EXCEPT ![l] = RoundDone(rs)]
  ELSE /\ response' = IF responder[l].firstRun
                      THEN [response EXCEPT ![l] = Append(@, [type |-> "Wait"])]
                      ELSE response
       /\ responder' = [responder EXCEPT ![l] =
                          [RoundDone(rs) EXCEPT !.stage = "Subscribe", !.firstRun = FALSE,
                             !.snapshot = rs.snapshot, !.tips = rs.tips, !.known = rs.known]]

\* One turn of the loop of run_response_helper: operations, then proposals.
\* (\E x \in {e} names the value of e.)
Turn(l, rs) ==
  \E sent \in {PrepareOperations(rs)} :
    \E after \in {[PrepareOurTips(rs) EXCEPT !.theirKnown = sent.known, !.sendQueue = sent.queue]} :
      \E proposed \in {PrepareSentHaves(after)} :
        Respond(l, [after EXCEPT !.sentHaves = proposed.haves, !.havesQueue = proposed.queue], sent.ops)

\* The first turn, with the graph asked for.  In the first round nothing has
\* been proposed yet and handle_their_known has nothing to do.
ResponderRuns(l) ==
  /\ responder[l].stage = "HaveState"
  /\ \E current \in {UpdateOurUnknown(responder[l])} :
       \E begun \in {HandleTheirTips(current)} :
         \E rs \in {HandleTheirKnown(begun)} : Turn(l, rs)
  /\ UNCHANGED <<ecg, outgoing, command, initiator, request, received>>

\* A further turn, with the graph the subscription has brought.
ResponderReruns(l) ==
  /\ responder[l].stage = "Updated"
  /\ \E current \in {UpdateOurUnknown(responder[l])} :
       \E rs \in {HandleTheirTips(current)} : Turn(l, rs)
  /\ UNCHANGED <<ecg, outgoing, command, initiator, request, received>>
-----------------------------------------------------------------------------
Init ==
  /\ ecg = [d \in Device |-> {}]
  /\ outgoing = [l \in Link |-> "Initializing"]
  /\ command = [l \in Link |-> <<>>]
  /\ initiator = [l \in Link |-> [stage |-> "Command", started |-> FALSE, have |-> <<>>]]
  /\ request = [l \in Link |-> <<>>]
  /\ response = [l \in Link |-> <<>>]
  /\ received = [l \in Link |-> <<>>]
  /\ responder = [l \in Link |-> NewResponder]

TaskStep(l) ==
  \/ RegisterOutgoing(l)
  \/ InitiatorRequests(l)
  \/ InitiatorWaits(l)
  \/ InitiatorReceives(l)
  \/ StoreReceives(l)
  \/ ResponderReceives(l)
  \/ StoreSharesState(l)
  \/ ResponderRuns(l)
  \/ StoreSubscribes(l)
  \/ ResponderReruns(l)

Next ==
  \/ \E l \in Link : TaskStep(l)
  \/ \E h \in HeaderId : Apply(h)

\* As long as some task can run, some task does; applications need not.
Fairness == WF_vars(\E l \in Link : TaskStep(l))

Spec == Init /\ [][Next]_vars
FairSpec == Spec /\ Fairness
-----------------------------------------------------------------------------
(***************************************************************************)
(* Properties.                                                             *)
(***************************************************************************)
ResponseMsg ==
  [type : {"Response"}, have : Seq(HeaderId), operations : Seq(HeaderId)]
    \cup [type : {"Wait"}]

(***************************************************************************)
(* Types, with the widths the messages have: at most MaxHave proposals,    *)
(* which is the width of the bitmap they are answered with (HeaderBitmap). *)
(***************************************************************************)
TypeOK ==
  /\ ecg \in [Device -> SUBSET HeaderId]
  /\ outgoing \in [Link -> OutgoingStatus]
  /\ command \in [Link -> Seq(SUBSET HeaderId)]
  /\ initiator \in [Link -> InitiatorState]
  /\ responder \in [Link -> ResponderState]
  /\ \A l \in Link :
       /\ request[l] \in Seq([initial : BOOLEAN, tips : SUBSET HeaderId, known : SUBSET (1..MaxHave)])
       /\ response[l] \in Seq(ResponseMsg)
       /\ received[l] \in Seq(Seq(HeaderId))
       /\ Len(initiator[l].have) <= MaxHave
       /\ Len(responder[l].sentHaves) <= MaxHave

\* Operations on their way from the responder into the initiator's graph.
InFlight(l) ==
  (UNION {SeqToSet(m.operations) : m \in {n \in SeqToSet(response[l]) : n.type = "Response"}})
    \cup (UNION {SeqToSet(ops) : ops \in SeqToSet(received[l])})

(***************************************************************************)
(* Whatever the responder refers to, the graph it works on has, although   *)
(* that graph is replaced every turn: none of the `unreachable!` and       *)
(* `expect` of ecg_sync.rs on a header that is not in the graph is hit.    *)
(***************************************************************************)
QueuesInSnapshot ==
  \A l \in Link :
    LET rs == responder[l]
        graph == IF rs.stage \in {"Receive", "RequestState"} THEN ecg[Responder(l)] ELSE rs.snapshot
    IN  rs.theirKnown \cup Held(rs.sendQueue) \cup SeqToSet(rs.sentHaves)
          \cup {entry[1] : entry \in Held(rs.havesQueue)} \subseteq graph

(***************************************************************************)
(* The responder does not mistake what the initiator has: a header marked  *)
(* as known (mark_as_known) is in its graph or on its way to it.           *)
(***************************************************************************)
TheyKnowIsTrue ==
  \A l \in Link : responder[l].theirKnown \subseteq ecg[Initiator(l)] \cup InFlight(l)

(***************************************************************************)
(* What the comment on mark_as_known promises: a header known to the       *)
(* initiator has only ancestors that are.                                  *)
(***************************************************************************)
KnownIsClosed == \A l \in Link : ParentClosed(responder[l].theirKnown)

(***************************************************************************)
(* Operations arrive after their parents, in any interleaving with local   *)
(* operations and other links: insert_header never refuses one for an      *)
(* unknown parent (handle_received_ecg_operations only logs the refusal).  *)
(***************************************************************************)
DeliverableInOrder ==
  \A l \in Link : received[l] # <<>> =>
    SeqToSet(Head(received[l])) \subseteq InsertHeaders(ecg[Initiator(l)], Head(received[l]))

(***************************************************************************)
(* A responder is asleep in its store's ecg_subscribers only while it has  *)
(* nothing for the initiator: no wakeup is lost between the copy of the    *)
(* graph it worked on and its subscription, or by the exception            *)
(* update_listeners makes for the peer an update came from.                *)
(***************************************************************************)
WaitsOnlyWhenCaughtUp ==
  \A l \in Link :
    responder[l].stage = "Subscribed" => ecg[Responder(l)] \subseteq ecg[Initiator(l)]

(***************************************************************************)
(* is_outstanding is right: a peer marked outstanding has one request in   *)
(* some stage of its way, and any other peer none.  So a stream carries    *)
(* one exchange at a time and the bitmap answers the last proposals.       *)
(***************************************************************************)
OneRequestOutstanding ==
  \A l \in Link :
    LET asked == Len(command[l]) + Len(received[l])
                   + (IF initiator[l].stage = "Command" THEN 0 ELSE 1)
        answering == responder[l].stage # "Receive"
    IN  /\ asked = IF outgoing[l] = "Outstanding" THEN 1 ELSE 0
        /\ (request[l] # <<>> \/ answering) => initiator[l].stage # "Command"
        /\ initiator[l].stage = "Command" /\ initiator[l].started =>
             initiator[l].have = responder[l].sentHaves

(***************************************************************************)
(* A response with nothing to deliver proposes something that the one      *)
(* before did not: the rounds get somewhere.                               *)
(***************************************************************************)
ProposesSomethingNew ==
  [][\A l \in Link :
       (responder[l].stage = "HaveState" /\ Len(response'[l]) > Len(response[l])
          /\ Last(response'[l]).type = "Response" /\ Last(response'[l]).operations = <<>>)
       => ~ (SeqToSet(Last(response'[l]).have) \subseteq SeqToSet(responder[l].sentHaves))]_vars

(***************************************************************************)
(* Stores that synchronise are replicas: whatever the tasks and streams    *)
(* hold, and in whatever order operations arrive, a store only ever takes  *)
(* in headers that the other end of the link has, after their parents.     *)
(***************************************************************************)
Replicas == INSTANCE CausalReplicas
ImplementsReplicas == Replicas!Spec

(***************************************************************************)
(* Once the applications have stopped, all devices end up with the same    *)
(* headers, the purpose of the protocol.                                   *)
(***************************************************************************)
EventuallyConsistent == <>[](\A d, e \in Device : ecg[d] = ecg[e])
=============================================================================
