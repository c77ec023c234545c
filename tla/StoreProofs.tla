---------------------------- MODULE StoreProofs ----------------------------
(***************************************************************************)
(* Theorems about the download of a store (module Store), for every set of *)
(* devices and links, every size of the initial state and every limit.     *)
(***************************************************************************)
EXTENDS Store, SequenceTheorems, TLAPS

AnswerOf(kind) == [type : {"Response"}, items : SUBSET ItemOf(kind)] \cup [type : {"Reject"}]

(***************************************************************************)
(* A responder is registered only while it awaits its answer, an answer is *)
(* there only once it is asked for, and it is of the kind asked for.       *)
(***************************************************************************)
ResponderOK(rs) ==
  /\ rs \in ResponderState
  /\ rs.subscribed => rs.stage \in {"TellWait", "Waiting"}
  /\ rs.subscribed \/ rs.stage \in {"Receive", "Asked"} => rs.answer = <<>>
  /\ rs.answer \in Seq(AnswerOf(rs.request.kind))

RespondersOK == \A l \in Link : ResponderOK(responder[l])

ResponsesOK ==
  \A l \in Link : response[l] \in Seq(AnswerOf(initiator[l].asked.kind) \cup [type : {"Wait"}])

MissingOf(st) ==
  /\ st.phase = "DownloadingMerkle" => st.hashes # {}
  /\ st.phase = "DownloadingInitialState" => st.blocks # {}

\* What a responder that waits at a store in state st may wait for.
MayWait(st, req) ==
  CASE req.kind \in {"Metadata", "Merkle"} -> ~ CanAnswer(st, req)
    [] req.kind = "Blocks"     -> st.phase # "Syncing"
    [] req.kind = "Operations" -> TRUE

\* OneRequestOutstanding, stage by stage.
RequestOK(status, commands, results, stage) ==
  \/ status # "Outstanding" /\ stage = "Command" /\ commands = 0 /\ results = 0
  \/ status = "Outstanding" /\ stage = "Command" /\ commands = 1 /\ results = 0
  \/ status = "Outstanding" /\ stage # "Command" /\ commands = 0 /\ results = 0
  \/ status = "Outstanding" /\ stage = "Command" /\ commands = 0 /\ results = 1

RequestsOK ==
  \A l \in Link : RequestOK(outgoing[l], Len(command[l]), Len(received[l]), initiator[l].stage)

\* OneExchangePerStream, of one stream.
ExchangeOK(l) ==
  /\ initiator[l].stage = "Command" => Idle(l)
  /\ initiator[l].stage = "Response" =>
       \/ request[l] = <<initiator[l].asked>> /\ responder[l].stage = "Receive" /\ response[l] = <<>>
       \/ request[l] = <<>> /\ responder[l].stage # "Receive" /\ (response[l] = <<>> \/ Waits(l))
       \/ request[l] = <<>> /\ responder[l].stage = "Receive" /\ (Len(response[l]) = 1 \/ Waits(l))
  /\ initiator[l].stage = "Dead" => request[l] = <<>>
  /\ responder[l].stage # "Receive" => responder[l].request = initiator[l].asked

IInv ==
  /\ TypeOK
  /\ RespondersOK
  /\ ResponsesOK
  /\ MissingWhileDownloading
  /\ WaitsOnlyForWhatIsMissing
  /\ RequestsOK
  /\ OneExchangePerStream
-----------------------------------------------------------------------------
LEMMA TailFacts ==
  ASSUME NEW S, NEW s \in Seq(S), s # <<>>
  PROVE  /\ Head(s) \in S
         /\ Head(s) = s[1]
         /\ Tail(s) \in Seq(S)
         /\ Len(s) \in Nat \ {0}
         /\ Len(Tail(s)) = Len(s) - 1
  OBVIOUS

LEMMA AppendFacts ==
  ASSUME NEW S, NEW s \in Seq(S), NEW x \in S
  PROVE  /\ Append(s, x) \in Seq(S)
         /\ Len(Append(s, x)) = Len(s) + 1
         /\ Append(s, x) # <<>>
         /\ s # <<>> => Append(s, x)[1] = s[1]
         /\ s = <<>> => Append(s, x) = <<x>>
<1>1. /\ Append(s, x) \in Seq(S)
      /\ Len(Append(s, x)) = Len(s) + 1
      /\ Append(s, x) # <<>>
  BY AppendProperties
<1>2. s # <<>> => Append(s, x)[1] = s[1]
  <2>1. s # <<>> => 1 \in 1..Len(s)
    OBVIOUS
  <2>2. \A i \in 1..Len(s) : Append(s, x)[i] = s[i]
    OBVIOUS
  <2> QED
    BY <2>1, <2>2
<1>3. s = <<>> => Append(s, x) = <<x>>
  OBVIOUS
<1> QED
  BY <1>1, <1>2, <1>3

LEMMA SingletonFacts ==
  ASSUME NEW x
  PROVE  Head(<<x>>) = x /\ Tail(<<x>>) = <<>>
  OBVIOUS

LEMMA EmptyFacts ==
  ASSUME NEW S, NEW s \in Seq(S), Len(s) = 0
  PROVE  s = <<>>
  OBVIOUS

LEMMA MessageFacts ==
  ASSUME NEW m \in Message
  PROVE  m.kind \in Kind /\ m.items \subseteq ItemOf(m.kind) /\ m.items \subseteq Item
  BY DEF Message, ItemOf, Item, Kind

LEMMA MessageIntro ==
  ASSUME NEW k \in Kind, NEW I \in SUBSET ItemOf(k)
  PROVE  [kind |-> k, items |-> I] \in Message
  BY DEF Message

\* What send_sync_requests asks for are requests, and only ready peers get one.
LEMMA RequestsAreTyped ==
  ASSUME NEW st \in StoreState, NEW ready \in SUBSET Link, NEW sent \in RequestsOf(st, ready)
  PROVE  DOMAIN sent \subseteq ready /\ \A l \in DOMAIN sent : sent[l] \in Message
<1>1. CASE st.phase = "Syncing"
  BY <1>1, MessageIntro DEF RequestsOf, StoreState, ItemOf, Kind
<1>2. CASE st.phase # "Syncing"
  <2>1. PICK L \in SUBSET ready : sent \in [L -> Needed(st)]
    BY <1>2 DEF RequestsOf, Pairings
  <2>2. Needed(st) \subseteq Message
    <3>1. [kind |-> "Metadata", items |-> {}] \in Message
      BY MessageIntro DEF Kind
    <3>2. ASSUME NEW c \in Chunks(st.hashes, MerkleLimit)
          PROVE  [kind |-> "Merkle", items |-> c] \in Message
      BY MessageIntro DEF Kind, Chunks, StoreState, ItemOf
    <3>3. ASSUME NEW c \in Chunks(st.blocks, BlockLimit)
          PROVE  [kind |-> "Blocks", items |-> c] \in Message
      BY MessageIntro DEF Kind, Chunks, StoreState, ItemOf
    <3> QED
      BY <3>1, <3>2, <3>3 DEF Needed
  <2> QED
    BY <2>1, <2>2
<1> QED
  BY <1>1, <1>2

LEMMA SendFacts ==
  ASSUME command \in [Link -> Seq(Message)],
         NEW d, NEW st \in StoreState,
         NEW out \in [Link -> {"Initializing", "Ready", "Outstanding"}],
         SendSyncRequests(d, st, out)
  PROVE  \E L \in SUBSET {l \in Link : out[l] = "Ready"} :
           /\ outgoing' = [l \in Link |-> IF l \in L THEN "Outstanding" ELSE out[l]]
           /\ command' \in [Link -> Seq(Message)]
           /\ \A l \in Link : Len(command'[l]) = Len(command[l]) + IF l \in L THEN 1 ELSE 0
<1> DEFINE Ready == {l \in Link : Initiator(l) = d /\ out[l] = "Ready"}
<1>1. PICK sent \in RequestsOf(st, Ready) :
        /\ outgoing' = [l \in Link |-> IF l \in DOMAIN sent THEN "Outstanding" ELSE out[l]]
        /\ command' = [l \in Link |-> IF l \in DOMAIN sent THEN Append(command[l], sent[l]) ELSE command[l]]
  BY DEF SendSyncRequests
<1>2. DOMAIN sent \subseteq Ready /\ \A l \in DOMAIN sent : sent[l] \in Message
  BY RequestsAreTyped
<1>3. ASSUME NEW l \in Link
      PROVE  /\ command'[l] \in Seq(Message)
             /\ Len(command'[l]) = Len(command[l]) + IF l \in DOMAIN sent THEN 1 ELSE 0
  <2>1. CASE l \in DOMAIN sent
    BY <1>1, <1>2, <2>1, AppendFacts
  <2>2. CASE l \notin DOMAIN sent
    BY <1>1, <2>2
  <2> QED
    BY <2>1, <2>2
<1>4. command' \in [Link -> Seq(Message)]
  BY <1>1, <1>3
<1> QED
  BY <1>1, <1>2, <1>3, <1>4

LEMMA AnswerIsTyped ==
  ASSUME NEW st \in StoreState, NEW req \in Message
  PROVE  AnswerTo(st, req) \in AnswerOf(req.kind)
  BY MessageFacts DEF AnswerTo, AnswerOf, ItemOf, Kind, StoreState
-----------------------------------------------------------------------------
(***************************************************************************)
(* The responders as a store's transition leaves them.                     *)
(***************************************************************************)
Served(resp) ==
  \A k \in Link :
    /\ ResponderOK(resp[k])
    /\ resp[k].request = responder[k].request
    /\ resp[k].stage = "Receive" <=> responder[k].stage = "Receive"
    /\ resp[k].subscribed => responder[k].subscribed

LEMMA UnchangedIsServed == RespondersOK => Served(responder)
  BY DEF RespondersOK, Served

LEMMA ServeFacts ==
  ASSUME RespondersOK, NEW d, NEW st \in StoreState, NEW kinds, NEW from
  PROVE  LET resp == ServeSubscribers(d, st, kinds, from)
         IN  /\ Served(resp)
             /\ \A k \in Link : k \notin Subscribers(d, kinds) => resp[k] = responder[k]
             /\ \A k \in Subscribers(d, kinds) : ~ resp[k].subscribed
<1> DEFINE resp == ServeSubscribers(d, st, kinds, from)
<1>1. ASSUME NEW k \in Link, k \notin Subscribers(d, kinds)
      PROVE  resp[k] = responder[k]
  BY <1>1 DEF ServeSubscribers
<1>2. ASSUME NEW k \in Link, k \in Subscribers(d, kinds)
      PROVE  /\ ResponderOK(resp[k])
             /\ resp[k].request = responder[k].request
             /\ resp[k].stage = responder[k].stage
             /\ ~ resp[k].subscribed
             /\ responder[k].subscribed
  <2> DEFINE answer == IF Initiator(k) = from /\ responder[k].request.kind # "Blocks"
                       THEN [type |-> "Reject"] ELSE AnswerTo(st, responder[k].request)
  <2>1. ResponderOK(responder[k]) /\ responder[k].subscribed
    BY <1>2 DEF RespondersOK, Subscribers
  <2>2. resp[k] = [responder[k] EXCEPT !.subscribed = FALSE, !.answer = <<answer>>]
    BY <1>2 DEF ServeSubscribers
  <2>3. answer \in AnswerOf(responder[k].request.kind) /\ answer \in Answer
    <3>1. responder[k].request \in Message
      BY <2>1 DEF ResponderOK, ResponderState
    <3>2. answer \in AnswerOf(responder[k].request.kind)
      BY <3>1, AnswerIsTyped DEF AnswerOf
    <3> QED
      BY <3>1, <3>2, MessageFacts DEF AnswerOf, Answer, ItemOf, Item
  <2>4. <<answer>> \in Seq(AnswerOf(responder[k].request.kind)) /\ <<answer>> \in Seq(Answer)
    BY <2>3
  <2>5. /\ resp[k].request = responder[k].request
        /\ resp[k].stage = responder[k].stage
        /\ resp[k].subscribed = FALSE
        /\ resp[k].answer = <<answer>>
        /\ resp[k] \in ResponderState
    BY <2>1, <2>2, <2>4 DEF ResponderOK, ResponderState
  <2>6. resp[k].stage \in {"TellWait", "Waiting"}
    BY <2>1, <2>5 DEF ResponderOK
  <2> QED
    BY <2>1, <2>4, <2>5, <2>6 DEF ResponderOK
<1>3. Served(resp)
  BY <1>1, <1>2 DEF Served, RespondersOK
<1> QED
  BY <1>1, <1>2, <1>3 DEF Subscribers

LEMMA ListenersFacts ==
  ASSUME NEW resp, Served(resp), NEW d, NEW from,
         \A k \in Subscribers(d, {"Operations"}) : resp[k] = responder[k]
  PROVE  /\ Served(UpdateListeners(resp, d, from))
         /\ \A k \in Link : UpdateListeners(resp, d, from)[k].subscribed => resp[k].subscribed
<1> DEFINE woken == UpdateListeners(resp, d, from)
<1> SUFFICES ASSUME NEW k \in Link
             PROVE  /\ ResponderOK(woken[k])
                    /\ woken[k].request = responder[k].request
                    /\ woken[k].stage = "Receive" <=> responder[k].stage = "Receive"
                    /\ woken[k].subscribed => resp[k].subscribed /\ responder[k].subscribed
  BY DEF Served
<1>1. CASE k \in Subscribers(d, {"Operations"}) /\ Initiator(k) \notin from
  <2>1. ResponderOK(resp[k]) /\ resp[k] = responder[k] /\ responder[k].subscribed
    BY <1>1 DEF Served, Subscribers
  <2>2. woken[k] = [responder[k] EXCEPT !.stage = "Asked", !.subscribed = FALSE]
    BY <1>1, <2>1 DEF UpdateListeners
  <2>3. /\ woken[k].request = responder[k].request
        /\ woken[k].stage = "Asked"
        /\ woken[k].subscribed = FALSE
        /\ woken[k].answer = responder[k].answer
    <3>1. {"stage", "request", "subscribed", "answer"} \subseteq DOMAIN responder[k]
      BY <2>1 DEF ResponderOK, ResponderState
    <3> HIDE DEF woken
    <3> QED
      BY <2>2, <3>1
  <2>4. woken[k] \in ResponderState
    <3>1. responder[k] \in ResponderState
      BY <2>1 DEF ResponderOK
    <3> HIDE DEF woken
    <3> QED
      BY <2>2, <3>1 DEF ResponderState
  <2>5. responder[k].stage \in {"TellWait", "Waiting"} /\ responder[k].answer = <<>>
    BY <2>1 DEF ResponderOK
  <2> HIDE DEF woken
  <2>6. ResponderOK(woken[k])
    BY <2>3, <2>4, <2>5 DEF ResponderOK
  <2> QED
    BY <2>1, <2>3, <2>5, <2>6
<1>2. CASE ~ (k \in Subscribers(d, {"Operations"}) /\ Initiator(k) \notin from)
  BY <1>2 DEF UpdateListeners, Served
<1> QED
  BY <1>1, <1>2

(***************************************************************************)
(* The end of a Received* handler preserves the invariant.                 *)
(***************************************************************************)
LEMMA ContinueStep ==
  ASSUME IInv, NEW l \in Link, received[l] # <<>>,
         NEW st \in StoreState, MissingOf(st), st.phase # "Panicked",
         NEW resp \in [Link -> ResponderState], Served(resp),
         \A k \in Link : Responder(k) = Initiator(l) /\ resp[k].subscribed =>
           MayWait(st, responder[k].request),
         Continue(l, st, resp)
  PROVE  IInv'
<1> DEFINE d == Initiator(l)
           out == [outgoing EXCEPT ![l] = "Ready"]
<1>1. d \in Device
  BY StoreAssumption DEF Initiator
<1>2. /\ store' = [store EXCEPT ![d] = st]
      /\ responder' = resp
      /\ received' = [received EXCEPT ![l] = Tail(@)]
      /\ initiator' = initiator /\ request' = request /\ response' = response
  BY DEF Continue
<1>3. \A k \in Link : received[k] \in Seq(Message)
  BY DEF IInv, TypeOK
<1>4. /\ Tail(received[l]) \in Seq(Message)
      /\ Len(received[l]) \in Nat \ {0}
      /\ Len(Tail(received[l])) = Len(received[l]) - 1
  BY <1>3, TailFacts
<1>5. PICK L \in SUBSET {k \in Link : out[k] = "Ready"} :
        /\ outgoing' = [k \in Link |-> IF k \in L THEN "Outstanding" ELSE out[k]]
        /\ command' \in [Link -> Seq(Message)]
        /\ \A k \in Link : Len(command'[k]) = Len(command[k]) + IF k \in L THEN 1 ELSE 0
  <2>1. command \in [Link -> Seq(Message)] /\ out \in [Link -> {"Initializing", "Ready", "Outstanding"}]
    BY DEF IInv, TypeOK
  <2>2. SendSyncRequests(d, st, out)
    BY DEF Continue
  <2>3. command \in [Link -> Seq(Message)] /\ st \in StoreState
    BY <2>1
  <2> HIDE DEF out
  <2> QED
    BY <2>1, <2>2, <2>3, SendFacts
<1>6. TypeOK'
  <2>1. outgoing' \in [Link -> {"Initializing", "Ready", "Outstanding"}]
    BY <1>5 DEF IInv, TypeOK
  <2>2. received' \in [Link -> Seq(Message)]
    BY <1>2, <1>3, <1>4 DEF IInv, TypeOK
  <2> QED
    BY <1>1, <1>2, <1>5, <2>1, <2>2 DEF IInv, TypeOK
<1>7. RespondersOK' /\ ResponsesOK'
  BY <1>2 DEF IInv, RespondersOK, ResponsesOK, Served, ResponderOK
<1>8. MissingWhileDownloading'
  BY <1>1, <1>2 DEF IInv, TypeOK, MissingWhileDownloading, MissingOf
<1>9. WaitsOnlyForWhatIsMissing'
  <2> SUFFICES ASSUME NEW k \in Link, resp[k].subscribed, store'[Responder(k)].phase # "Panicked"
               PROVE  MayWait(store'[Responder(k)], resp[k].request)
    BY <1>2, Zenon DEF WaitsOnlyForWhatIsMissing, MayWait, Runs
  <2>1. resp[k].request = responder[k].request /\ responder[k].subscribed
    BY DEF Served
  <2>2. CASE Responder(k) = d
    BY <1>1, <1>2, <2>1, <2>2 DEF IInv, TypeOK
  <2>3. CASE Responder(k) # d
    <3>1. store'[Responder(k)] = store[Responder(k)]
      BY <1>2, <2>3, StoreAssumption DEF IInv, TypeOK, Responder
    <3> QED
      BY <2>1, <3>1 DEF IInv, WaitsOnlyForWhatIsMissing, MayWait, Runs
  <2> QED
    BY <2>2, <2>3
<1>10. RequestsOK'
  <2> SUFFICES ASSUME NEW k \in Link
               PROVE  RequestOK(outgoing'[k], Len(command'[k]), Len(received'[k]), initiator[k].stage)
    BY <1>2 DEF RequestsOK
  <2>1. Len(command'[k]) = Len(command[k]) + IF k \in L THEN 1 ELSE 0
    BY <1>5
  <2>2. Len(command[k]) \in Nat /\ Len(received[k]) \in Nat
    BY DEF IInv, TypeOK
  <2>3. CASE k = l
    <3>1. Len(received'[k]) = Len(received[k]) - 1 /\ Len(received[k]) # 0
      BY <1>2, <1>4, <2>3 DEF IInv, TypeOK
    <3>2. outgoing'[k] = IF k \in L THEN "Outstanding" ELSE "Ready"
      BY <1>5, <2>3 DEF IInv, TypeOK
    <3>3. initiator[k].stage = "Command" /\ Len(command[k]) = 0 /\ Len(received[k]) = 1
      BY <3>1 DEF IInv, RequestsOK, RequestOK
    <3> QED
      BY <2>1, <3>1, <3>2, <3>3 DEF RequestOK
  <2>4. CASE k # l
    <3>1. received'[k] = received[k] /\ out[k] = outgoing[k]
      BY <1>2, <2>4 DEF IInv, TypeOK
    <3>2. CASE k \in L
      <4>1. outgoing[k] = "Ready" /\ outgoing'[k] = "Outstanding"
        BY <1>5, <3>1, <3>2
      <4> QED
        BY <2>1, <2>2, <3>1, <3>2, <4>1 DEF IInv, RequestsOK, RequestOK
    <3>3. CASE k \notin L
      <4>1. outgoing'[k] = outgoing[k]
        BY <1>5, <3>1, <3>3
      <4> QED
        BY <2>1, <2>2, <3>1, <3>3, <4>1 DEF IInv, RequestsOK, RequestOK
    <3> QED
      BY <3>2, <3>3
  <2> QED
    BY <2>3, <2>4
<1>11. OneExchangePerStream'
  BY <1>2 DEF IInv, OneExchangePerStream, Idle, Waits, Served
<1> QED
  BY <1>6, <1>7, <1>8, <1>9, <1>10, <1>11 DEF IInv
-----------------------------------------------------------------------------
(***************************************************************************)
(* Initial states.                                                         *)
(***************************************************************************)
LEMMA PhasesTyped ==
  /\ NewDownloading \in StoreState /\ MissingOf(NewDownloading)
  /\ Node # {} => NewMerkle \in StoreState /\ MissingOf(NewMerkle)
  /\ NewInitialState \in StoreState /\ MissingOf(NewInitialState)
  /\ NewSyncing \in StoreState /\ MissingOf(NewSyncing)
<1>1. Block # {}
  BY InitialStateIsNotEmpty, 0 \in Block DEF Block
<1> QED
  BY <1>1 DEF NewDownloading, NewMerkle, NewInitialState, NewSyncing, StoreState, Phase, MissingOf

LEMMA InitIInv == Init => IInv
<1> SUFFICES ASSUME Init
             PROVE  IInv
  OBVIOUS
<1>1. NewResponder \in ResponderState /\ ResponderOK(NewResponder) /\ NewResponder.request \in Message
  <2>1. [kind |-> "Metadata", items |-> {}] \in Message
    BY MessageIntro DEF Kind
  <2>2. \A S : <<>> \in Seq(S)
    OBVIOUS
  <2> QED
    BY <2>1, <2>2 DEF NewResponder, ResponderState, ResponderOK
<1>2. \A S : <<>> \in Seq(S)
  OBVIOUS
<1>3. TypeOK
  BY <1>1, <1>2, PhasesTyped DEF Init, TypeOK, InitiatorState
<1>4. RespondersOK /\ ResponsesOK
  BY <1>1, <1>2 DEF Init, RespondersOK, ResponsesOK
<1>5. MissingWhileDownloading
  BY PhasesTyped DEF Init, MissingWhileDownloading, MissingOf
<1>6. WaitsOnlyForWhatIsMissing
  BY DEF Init, WaitsOnlyForWhatIsMissing, NewResponder
<1>7. RequestsOK
  BY DEF Init, RequestsOK, RequestOK
<1>8. OneExchangePerStream
  BY DEF Init, OneExchangePerStream, Idle, NewResponder
<1> QED
  BY <1>3, <1>4, <1>5, <1>6, <1>7, <1>8 DEF IInv
-----------------------------------------------------------------------------
(***************************************************************************)
(* The store's task.                                                       *)
(***************************************************************************)
LEMMA ReceivedTyped ==
  ASSUME IInv, NEW l \in Link, NEW kind, Receives(l, kind)
  PROVE  /\ received[l] # <<>>
         /\ Head(received[l]).items \subseteq ItemOf(kind)
         /\ Initiator(l) \in Device
         /\ store[Initiator(l)] \in StoreState
         /\ MissingOf(store[Initiator(l)])
         /\ store[Initiator(l)].phase # "Panicked"
         /\ responder \in [Link -> ResponderState]
         /\ Served(responder)
<1>1. Head(received[l]) \in Message
  BY DEF IInv, TypeOK, Receives
<1>2. Initiator(l) \in Device
  BY StoreAssumption DEF Initiator
<1> QED
  BY <1>1, <1>2, MessageFacts, UnchangedIsServed
     DEF IInv, TypeOK, Receives, Runs, MissingWhileDownloading, MissingOf

\* Who waits at a store that does not change its phase may go on waiting.
LEMMA StillWaits ==
  ASSUME IInv, NEW d \in Device, store[d].phase # "Panicked",
         NEW st, st.phase = store[d].phase,
         NEW k \in Link, Responder(k) = d, responder[k].subscribed
  PROVE  MayWait(st, responder[k].request)
<1>1. MayWait(store[d], responder[k].request)
  BY DEF IInv, WaitsOnlyForWhatIsMissing, MayWait, Runs
<1>2. responder[k].request.kind \in Kind
  BY MessageFacts DEF IInv, TypeOK, ResponderState
<1>3. responder[k].request.kind \in {"Metadata", "Merkle"} =>
        (CanAnswer(st, responder[k].request) <=> CanAnswer(store[d], responder[k].request))
  BY DEF CanAnswer
<1> QED
  BY <1>1, <1>2, <1>3 DEF MayWait, Kind

LEMMA ReceiveMetadataStep ==
  ASSUME IInv, NEW l \in Link, ReceiveMetadata(l)
  PROVE  IInv'
<1> DEFINE d == Initiator(l)
           st == IF Node = {} THEN NewInitialState ELSE NewMerkle
           served == {"Metadata"} \cup IF Node = {} THEN {"Merkle"} ELSE {}
           resp == ServeSubscribers(d, st, served, Responder(l))
<1>1. Receives(l, "Metadata") /\ Continue(l, st, resp)
  BY DEF ReceiveMetadata
<1>2. /\ st \in StoreState /\ MissingOf(st) /\ st.phase # "Panicked"
  BY PhasesTyped DEF NewInitialState, NewMerkle
<1>3. /\ Served(resp)
      /\ \A k \in Subscribers(d, served) : ~ resp[k].subscribed
  BY <1>2, ServeFacts DEF IInv
<1>4. resp \in [Link -> ResponderState]
  BY <1>3 DEF Served, ResponderOK, ServeSubscribers
<1>5. ASSUME NEW k \in Link, Responder(k) = d, resp[k].subscribed
      PROVE  MayWait(st, responder[k].request)
  <2>1. responder[k].subscribed /\ responder[k].request.kind \notin served
    BY <1>3, <1>5 DEF Served, Subscribers
  <2>2. responder[k].request.kind \in Kind
    BY MessageFacts DEF IInv, TypeOK, ResponderState
  <2> QED
    BY <2>1, <2>2 DEF MayWait, CanAnswer, Kind, NewInitialState, NewMerkle
<1> QED
  BY <1>1, <1>2, <1>3, <1>4, <1>5, ReceivedTyped, ContinueStep

LEMMA ReceiveMerkleStep ==
  ASSUME IInv, NEW l \in Link, ReceiveMerkle(l)
  PROVE  IInv'
<1> DEFINE d == Initiator(l)
           missing == store[d].hashes \ Head(received[l]).items
           resp == ServeSubscribers(d, NewInitialState, {"Merkle"}, Responder(l))
<1>1. Receives(l, "Merkle")
  BY DEF ReceiveMerkle
<1>2. CASE store[d].phase # "DownloadingMerkle" /\ Continue(l, store[d], responder)
  BY <1>1, <1>2, ReceivedTyped, StillWaits, ContinueStep
<1>3. CASE store[d].phase = "DownloadingMerkle" /\ missing # {}
           /\ Continue(l, [store[d] EXCEPT !.hashes = missing], responder)
  <2> DEFINE st == [store[d] EXCEPT !.hashes = missing]
  <2>1. st \in StoreState /\ MissingOf(st) /\ st.phase = store[d].phase
    BY <1>1, <1>3, ReceivedTyped DEF StoreState, MissingOf
  <2>2. Continue(l, st, responder)
    BY <1>3
  <2> HIDE DEF st
  <2>3. \A k \in Link : Responder(k) = d /\ responder[k].subscribed => MayWait(st, responder[k].request)
    BY <1>1, <2>1, ReceivedTyped, StillWaits
  <2> QED
    BY <1>1, <2>1, <2>2, <2>3, ReceivedTyped, ContinueStep
<1>4. CASE store[d].phase = "DownloadingMerkle" /\ Continue(l, NewInitialState, resp)
  <2>1. /\ Served(resp)
        /\ \A k \in Subscribers(d, {"Merkle"}) : ~ resp[k].subscribed
    BY PhasesTyped, ServeFacts DEF IInv
  <2>2. resp \in [Link -> ResponderState]
    BY <2>1 DEF Served, ResponderOK, ServeSubscribers
  <2>3. ASSUME NEW k \in Link, Responder(k) = d, resp[k].subscribed
        PROVE  MayWait(NewInitialState, responder[k].request)
    <3>1. responder[k].subscribed /\ responder[k].request.kind # "Merkle"
      BY <2>1, <2>3 DEF Served, Subscribers
    <3>2. responder[k].request.kind \in Kind
      BY MessageFacts DEF IInv, TypeOK, ResponderState
    <3>3. responder[k].request.kind # "Metadata"
      BY <1>1, <1>4, <2>3, <3>1, ReceivedTyped, StillWaits DEF MayWait, CanAnswer
    <3> QED
      BY <3>1, <3>2, <3>3 DEF MayWait, Kind, NewInitialState
  <2>4. NewInitialState.phase # "Panicked"
    BY DEF NewInitialState
  <2> QED
    BY <1>1, <1>4, <2>1, <2>2, <2>3, <2>4, PhasesTyped, ReceivedTyped, ContinueStep
<1> QED
  BY <1>2, <1>3, <1>4 DEF ReceiveMerkle

LEMMA ReceiveBlocksStep ==
  ASSUME IInv, NEW l \in Link, ReceiveBlocks(l)
  PROVE  IInv'
<1> DEFINE d == Initiator(l)
           missing == store[d].blocks \ Head(received[l]).items
           served == ServeSubscribers(d, NewSyncing, {"Blocks"}, Responder(l))
           resp == UpdateListeners(served, d, {Responder(l)})
<1>1. Receives(l, "Blocks")
  BY DEF ReceiveBlocks
<1>2. CASE store[d].phase # "DownloadingInitialState" /\ Continue(l, store[d], responder)
  BY <1>1, <1>2, ReceivedTyped, StillWaits, ContinueStep
<1>3. CASE store[d].phase = "DownloadingInitialState" /\ missing # {}
           /\ Continue(l, [store[d] EXCEPT !.blocks = missing], responder)
  <2> DEFINE st == [store[d] EXCEPT !.blocks = missing]
  <2>1. st \in StoreState /\ MissingOf(st) /\ st.phase = store[d].phase
    BY <1>1, <1>3, ReceivedTyped DEF StoreState, MissingOf
  <2>2. Continue(l, st, responder)
    BY <1>3
  <2> HIDE DEF st
  <2>3. \A k \in Link : Responder(k) = d /\ responder[k].subscribed => MayWait(st, responder[k].request)
    BY <1>1, <2>1, ReceivedTyped, StillWaits
  <2> QED
    BY <1>1, <2>1, <2>2, <2>3, ReceivedTyped, ContinueStep
<1>4. CASE store[d].phase = "DownloadingInitialState" /\ Continue(l, NewSyncing, resp)
  <2>1. /\ Served(served)
        /\ \A k \in Link : k \notin Subscribers(d, {"Blocks"}) => served[k] = responder[k]
        /\ \A k \in Subscribers(d, {"Blocks"}) : ~ served[k].subscribed
    BY PhasesTyped, ServeFacts DEF IInv
  <2>2. Served(resp) /\ \A k \in Link : resp[k].subscribed => served[k].subscribed
    <3>1. \A k \in Subscribers(d, {"Operations"}) : served[k] = responder[k]
      BY <2>1 DEF Subscribers
    <3> QED
      BY <2>1, <3>1, ListenersFacts
  <2>3. resp \in [Link -> ResponderState]
    BY <2>2 DEF Served, ResponderOK, UpdateListeners
  <2>4. ASSUME NEW k \in Link, Responder(k) = d, resp[k].subscribed
        PROVE  MayWait(NewSyncing, responder[k].request)
    <3>1. responder[k].subscribed /\ responder[k].request.kind # "Blocks"
      BY <2>1, <2>2, <2>4 DEF Served, Subscribers
    <3>2. responder[k].request.kind \in Kind
      BY MessageFacts DEF IInv, TypeOK, ResponderState
    <3>3. responder[k].request.kind \notin {"Metadata", "Merkle"}
      BY <1>1, <1>4, <2>4, <3>1, ReceivedTyped, StillWaits DEF MayWait, CanAnswer
    <3> QED
      BY <3>1, <3>2, <3>3 DEF MayWait, Kind
  <2>5. NewSyncing.phase # "Panicked"
    BY DEF NewSyncing
  <2> QED
    BY <1>1, <1>4, <2>2, <2>3, <2>4, <2>5, PhasesTyped, ReceivedTyped, ContinueStep
<1> QED
  BY <1>2, <1>3, <1>4 DEF ReceiveBlocks

LEMMA ReceiveOperationsStep ==
  ASSUME IInv, NEW l \in Link, ReceiveOperations(l)
  PROVE  IInv'
<1> DEFINE d == Initiator(l)
           st == [store[d] EXCEPT !.ecg = @ \cup Head(received[l]).items]
           resp == UpdateListeners(responder, d, {Responder(l)})
<1>1. Receives(l, "Operations") /\ Continue(l, st, resp) /\ store[d].phase = "Syncing"
  BY DEF ReceiveOperations
<1>2. st \in StoreState /\ MissingOf(st) /\ st.phase = store[d].phase
  BY <1>1, ReceivedTyped DEF StoreState, MissingOf, ItemOf
<1>3. Served(resp) /\ \A k \in Link : resp[k].subscribed => responder[k].subscribed
  BY <1>1, ReceivedTyped, ListenersFacts
<1>4. resp \in [Link -> ResponderState]
  BY <1>3 DEF Served, ResponderOK, UpdateListeners
<1> HIDE DEF st, resp
<1>5. \A k \in Link : Responder(k) = d /\ resp[k].subscribed => MayWait(st, responder[k].request)
  BY <1>1, <1>2, <1>3, ReceivedTyped, StillWaits
<1> QED
  BY <1>1, <1>2, <1>3, <1>4, <1>5, ReceivedTyped, ContinueStep

LEMMA ReceiveOperationsPanicsStep ==
  ASSUME IInv, NEW l \in Link, ReceiveOperationsPanics(l)
  PROVE  IInv'
<1> DEFINE d == Initiator(l)
<1>1. Receives(l, "Operations")
  BY DEF ReceiveOperationsPanics
<1>2. /\ store' = [store EXCEPT ![d].phase = "Panicked"]
      /\ received' = [received EXCEPT ![l] = Tail(@)]
      /\ outgoing' = [outgoing EXCEPT ![l] = "Ready"]
      /\ UNCHANGED <<command, initiator, request, response, responder>>
  BY DEF ReceiveOperationsPanics
<1>3. d \in Device
  BY <1>1, ReceivedTyped
<1>4. /\ Tail(received[l]) \in Seq(Message)
      /\ Len(received[l]) \in Nat \ {0}
      /\ Len(Tail(received[l])) = Len(received[l]) - 1
  BY <1>1, ReceivedTyped, TailFacts DEF IInv, TypeOK
<1>5. TypeOK'
  <2>1. store' \in [Device -> StoreState]
    BY <1>2, <1>3 DEF IInv, TypeOK, StoreState, Phase
  <2> QED
    BY <1>2, <1>4, <2>1 DEF IInv, TypeOK
<1>6. RespondersOK' /\ ResponsesOK' /\ OneExchangePerStream'
  BY <1>2 DEF IInv, RespondersOK, ResponsesOK, OneExchangePerStream, Idle, Waits
<1>7. \A e \in Device : store'[e] = store[e] \/ (e = d /\ store'[e].phase = "Panicked")
  BY <1>2, <1>3 DEF IInv, TypeOK, StoreState
<1>8. MissingWhileDownloading'
  BY <1>7 DEF IInv, MissingWhileDownloading
<1>9. WaitsOnlyForWhatIsMissing'
  <2>1. \A k \in Link : Responder(k) \in Device
    BY StoreAssumption DEF Responder
  <2> SUFFICES ASSUME NEW k \in Link, responder[k].subscribed, store'[Responder(k)].phase # "Panicked"
               PROVE  MayWait(store'[Responder(k)], responder[k].request)
    BY <1>2, Zenon DEF WaitsOnlyForWhatIsMissing, MayWait, Runs
  <2>2. store'[Responder(k)] = store[Responder(k)]
    BY <1>7, <2>1
  <2> QED
    BY <2>2 DEF IInv, WaitsOnlyForWhatIsMissing, MayWait, Runs
<1>10. RequestsOK'
  <2> SUFFICES ASSUME NEW k \in Link
               PROVE  RequestOK(outgoing'[k], Len(command[k]), Len(received'[k]), initiator[k].stage)
    BY <1>2 DEF RequestsOK
  <2>1. RequestOK(outgoing[k], Len(command[k]), Len(received[k]), initiator[k].stage)
    BY DEF IInv, RequestsOK
  <2>2. CASE k = l
    <3>1. /\ outgoing'[k] = "Ready" /\ received'[k] = Tail(received[k])
      BY <1>2, <2>2 DEF IInv, TypeOK
    <3> QED
      BY <1>4, <2>1, <2>2, <3>1 DEF RequestOK
  <2>3. CASE k # l
    <3>1. outgoing'[k] = outgoing[k] /\ received'[k] = received[k]
      BY <1>2, <2>3 DEF IInv, TypeOK
    <3> QED
      BY <2>1, <3>1
  <2> QED
    BY <2>2, <2>3
<1> QED
  BY <1>5, <1>6, <1>8, <1>9, <1>10 DEF IInv

LEMMA RegisterOutgoingStep ==
  ASSUME IInv, NEW l \in Link, RegisterOutgoing(l)
  PROVE  IInv'
<1> DEFINE d == Initiator(l)
           out == [outgoing EXCEPT ![l] = "Ready"]
<1>1. outgoing[l] = "Initializing" /\ SendSyncRequests(d, store[d], out)
  BY DEF RegisterOutgoing
<1>2. UNCHANGED <<store, initiator, request, response, received, responder>>
  BY DEF RegisterOutgoing
<1>3. d \in Device
  BY StoreAssumption DEF Initiator
<1>4. PICK L \in SUBSET {k \in Link : out[k] = "Ready"} :
        /\ outgoing' = [k \in Link |-> IF k \in L THEN "Outstanding" ELSE out[k]]
        /\ command' \in [Link -> Seq(Message)]
        /\ \A k \in Link : Len(command'[k]) = Len(command[k]) + IF k \in L THEN 1 ELSE 0
  <2>1. /\ command \in [Link -> Seq(Message)]
        /\ store[d] \in StoreState
        /\ out \in [Link -> {"Initializing", "Ready", "Outstanding"}]
    BY <1>3 DEF IInv, TypeOK
  <2> HIDE DEF out
  <2> QED
    BY <1>1, <2>1, SendFacts
<1>5. TypeOK'
  BY <1>2, <1>4 DEF IInv, TypeOK
<1>6. RespondersOK' /\ ResponsesOK' /\ OneExchangePerStream' /\ MissingWhileDownloading'
  BY <1>2 DEF IInv, RespondersOK, ResponsesOK, OneExchangePerStream, Idle, Waits,
              MissingWhileDownloading
<1>7. WaitsOnlyForWhatIsMissing'
  BY <1>2, Zenon DEF IInv, WaitsOnlyForWhatIsMissing, Runs, CanAnswer
<1>8. RequestsOK'
  <2>1. ASSUME NEW k \in Link
        PROVE  /\ Len(command'[k]) = Len(command[k]) + IF k \in L THEN 1 ELSE 0
               /\ outgoing'[k] = IF k \in L THEN "Outstanding" ELSE out[k]
               /\ k \in L => outgoing[k] # "Outstanding"
               /\ out[k] = "Outstanding" <=> outgoing[k] = "Outstanding"
               /\ Len(command[k]) \in Nat
    BY <1>1, <1>4 DEF IInv, TypeOK
  <2> SUFFICES ASSUME NEW k \in Link
               PROVE  RequestOK(outgoing'[k], Len(command'[k]), Len(received[k]), initiator[k].stage)
    BY <1>2 DEF RequestsOK
  <2>2. RequestOK(outgoing[k], Len(command[k]), Len(received[k]), initiator[k].stage)
    BY DEF IInv, RequestsOK
  <2>3. CASE k \in L
    <3>1. /\ outgoing[k] # "Outstanding" /\ outgoing'[k] = "Outstanding"
          /\ Len(command'[k]) = Len(command[k]) + 1
      BY <2>1, <2>3
    <3> QED
      BY <2>2, <3>1 DEF RequestOK
  <2>4. CASE k \notin L
    <3>1. outgoing'[k] = out[k]
      BY <2>1, <2>4
    <3>2. (outgoing[k] = "Outstanding") <=> (outgoing'[k] = "Outstanding")
      BY <2>1, <3>1
    <3>3. Len(command'[k]) = Len(command[k])
      <4>1. Len(command[k]) \in Nat
        BY DEF IInv, TypeOK
      <4>2. Len(command'[k]) = Len(command[k]) + IF k \in L THEN 1 ELSE 0
        BY <1>4
      <4> QED
        BY <2>4, <4>1, <4>2
    <3> QED
      BY <2>2, <3>2, <3>3 DEF RequestOK
  <2> QED
    BY <2>3, <2>4
<1> QED
  BY <1>5, <1>6, <1>7, <1>8 DEF IInv

\* A step of one responder that leaves its store and the initiator alone.
LEMMA ResponderStep ==
  ASSUME IInv, NEW l \in Link, NEW rs, ResponderOK(rs),
         responder' = [responder EXCEPT ![l] = rs],
         request' \in [Link -> Seq(Message)],
         response' \in [Link -> Seq(Response)],
         response'[l] \in Seq(AnswerOf(initiator[l].asked.kind) \cup [type : {"Wait"}]),
         \A k \in Link \ {l} : request'[k] = request[k] /\ response'[k] = response[k],
         rs.subscribed /\ store[Responder(l)].phase # "Panicked" =>
           MayWait(store[Responder(l)], rs.request),
         initiator[l].stage # "Command",
         request'[l] = <<>>,
         initiator[l].stage = "Response" =>
           \/ rs.stage # "Receive" /\ (response'[l] = <<>> \/ Waits(l)')
           \/ rs.stage = "Receive" /\ (Len(response'[l]) = 1 \/ Waits(l)'),
         rs.stage # "Receive" => rs.request = initiator[l].asked,
         UNCHANGED <<store, outgoing, command, initiator, received>>
  PROVE  IInv'
<1>1. TypeOK'
  BY DEF IInv, TypeOK, ResponderOK
<1>2. /\ responder'[l] = rs
      /\ \A k \in Link \ {l} : responder'[k] = responder[k]
  BY DEF IInv, TypeOK
<1>3. RespondersOK' /\ ResponsesOK'
  BY <1>2 DEF IInv, RespondersOK, ResponsesOK
<1>4. MissingWhileDownloading' /\ RequestsOK'
  BY DEF IInv, MissingWhileDownloading, RequestsOK
<1>5. WaitsOnlyForWhatIsMissing'
  <2> SUFFICES ASSUME NEW k \in Link, responder'[k].subscribed, store[Responder(k)].phase # "Panicked"
               PROVE  MayWait(store[Responder(k)], responder'[k].request)
    BY Zenon DEF WaitsOnlyForWhatIsMissing, MayWait, Runs
  <2>1. CASE k = l
    BY <1>2, <2>1
  <2>2. CASE k # l
    <3>1. responder'[k] = responder[k] /\ responder[k].subscribed
      BY <1>2, <2>2
    <3>2. MayWait(store[Responder(k)], responder[k].request)
      BY <3>1, Zenon DEF IInv, WaitsOnlyForWhatIsMissing, MayWait, Runs
    <3> QED
      BY <3>1, <3>2
  <2> QED
    BY <2>1, <2>2
<1>6. OneExchangePerStream'
  <2> SUFFICES ASSUME NEW k \in Link
               PROVE  ExchangeOK(k)'
    BY Zenon DEF OneExchangePerStream, ExchangeOK
  <2>1. CASE k = l
    BY <1>2, <2>1 DEF ExchangeOK
  <2>2. CASE k # l
    <3>1. ExchangeOK(k)
      BY Zenon DEF IInv, OneExchangePerStream, ExchangeOK
    <3>2. /\ request'[k] = request[k] /\ response'[k] = response[k]
          /\ responder'[k] = responder[k] /\ initiator'[k] = initiator[k]
      BY <1>2, <2>2
    <3> QED
      BY <3>1, <3>2 DEF ExchangeOK, Idle, Waits
  <2> QED
    BY <2>1, <2>2
<1> QED
  BY <1>1, <1>3, <1>4, <1>5, <1>6 DEF IInv

\* What is known of a link whose responder is at work.
LEMMA BusyFacts ==
  ASSUME IInv, NEW l \in Link
  PROVE  /\ ResponderOK(responder[l])
         /\ request \in [Link -> Seq(Message)] /\ response \in [Link -> Seq(Response)]
         /\ response[l] \in Seq(AnswerOf(initiator[l].asked.kind) \cup [type : {"Wait"}])
         /\ responder[l].stage # "Receive" \/ request[l] # <<>> => initiator[l].stage # "Command"
         /\ responder[l].stage # "Receive" => responder[l].request = initiator[l].asked
         /\ responder[l].stage # "Receive" => request[l] = <<>>
         /\ responder[l].stage # "Receive" /\ initiator[l].stage = "Response" =>
              response[l] = <<>> \/ Waits(l)
         /\ request[l] # <<>> => request[l] = <<initiator[l].asked>> /\ response[l] = <<>>
         /\ Responder(l) \in Device
         /\ store[Responder(l)] \in StoreState
<1>1. Responder(l) \in Device
  BY StoreAssumption DEF Responder
<1> QED
  BY <1>1 DEF IInv, TypeOK, InitiatorState, RespondersOK, ResponsesOK, OneExchangePerStream, Idle

LEMMA StoreHandlesRequestStep ==
  ASSUME IInv, NEW l \in Link, StoreHandlesRequest(l)
  PROVE  IInv'
<1> DEFINE st == store[Responder(l)]
           req == responder[l].request
           answered == [responder[l] EXCEPT !.stage = "Answer", !.answer = <<AnswerTo(st, req)>>]
           registered == [responder[l] EXCEPT
                            !.stage = IF req.kind = "Operations" THEN "Waiting" ELSE "TellWait",
                            !.subscribed = TRUE]
<1>1. /\ responder[l].stage = "Asked" /\ st.phase # "Panicked"
      /\ UNCHANGED <<store, outgoing, command, initiator, request, response, received>>
  BY DEF StoreHandlesRequest, Runs
<1>2. req \in Message /\ st \in StoreState /\ responder[l] \in ResponderState
  BY BusyFacts DEF ResponderOK, ResponderState
<1>3. CASE responder' = [responder EXCEPT ![l] = answered]
  <2>1. AnswerTo(st, req) \in AnswerOf(req.kind)
    BY <1>2, AnswerIsTyped
  <2>2. <<AnswerTo(st, req)>> \in Seq(AnswerOf(req.kind)) /\ <<AnswerTo(st, req)>> \in Seq(Answer)
    BY <1>2, <2>1, MessageFacts DEF AnswerOf, Answer, ItemOf, Item
  <2>3. ~ responder[l].subscribed
    BY <1>1, BusyFacts DEF ResponderOK
  <2>4. /\ answered \in ResponderState
        /\ answered.stage = "Answer" /\ answered.subscribed = FALSE
        /\ answered.request = req /\ answered.answer = <<AnswerTo(st, req)>>
    BY <1>2, <2>2, <2>3 DEF ResponderState
  <2>5. ResponderOK(answered)
    BY <2>2, <2>4 DEF ResponderOK
  <2> HIDE DEF answered
  <2> QED
    BY <1>1, <1>3, <2>4, <2>5, BusyFacts, ResponderStep DEF Waits
<1>4. CASE ~ CanAnswer(st, req) /\ responder' = [responder EXCEPT ![l] = registered]
  <2>1. /\ registered \in ResponderState
        /\ registered.stage \in {"TellWait", "Waiting"} /\ registered.subscribed = TRUE
        /\ registered.request = req /\ registered.answer = responder[l].answer
    BY <1>2 DEF ResponderState
  <2>2. ResponderOK(registered)
    BY <1>1, <2>1, BusyFacts DEF ResponderOK
  <2>3. MayWait(st, registered.request)
    BY <1>2, <1>4, <2>1, MessageFacts DEF MayWait, CanAnswer, Kind
  <2> HIDE DEF registered
  <2> QED
    BY <1>1, <1>4, <2>1, <2>2, <2>3, BusyFacts, ResponderStep DEF Waits
<1> QED
  BY <1>2, <1>3, <1>4 DEF StoreHandlesRequest, IInv, TypeOK
-----------------------------------------------------------------------------
(***************************************************************************)
(* The tasks of the stream.                                                *)
(***************************************************************************)
LEMMA ResponderReceivesStep ==
  ASSUME IInv, NEW l \in Link, ResponderReceives(l)
  PROVE  IInv'
<1> DEFINE rs == [responder[l] EXCEPT !.stage = "Asked", !.request = Head(request[l])]
<1>1. /\ responder[l].stage = "Receive" /\ request[l] # <<>>
      /\ request' = [request EXCEPT ![l] = Tail(@)]
      /\ UNCHANGED <<store, outgoing, command, initiator, response, received>>
  BY DEF ResponderReceives
<1>2. responder' = [responder EXCEPT ![l] = rs]
  BY DEF ResponderReceives, IInv, TypeOK
<1>3. Head(request[l]) \in Message /\ Tail(request[l]) \in Seq(Message)
  BY <1>1, BusyFacts, TailFacts
<1>4. Head(request[l]) = initiator[l].asked /\ Tail(request[l]) = <<>> /\ response[l] = <<>>
  <2>1. request[l] = <<initiator[l].asked>> /\ response[l] = <<>>
    BY <1>1, BusyFacts
  <2> QED
    BY <2>1, SingletonFacts, Zenon
<1>5. /\ rs \in ResponderState
      /\ rs.stage = "Asked" /\ rs.subscribed = responder[l].subscribed
      /\ rs.request = Head(request[l]) /\ rs.answer = responder[l].answer
  BY <1>3, BusyFacts DEF ResponderOK, ResponderState
<1>6. responder[l].answer = <<>> /\ ~ responder[l].subscribed
  BY <1>1, BusyFacts DEF ResponderOK
<1>7. \A S : <<>> \in Seq(S)
  OBVIOUS
<1>8. ResponderOK(rs) /\ ~ rs.subscribed
  BY <1>5, <1>6, <1>7 DEF ResponderOK
<1>9. request'[l] = <<>> /\ response'[l] = <<>>
  BY <1>1, <1>4, BusyFacts
<1> HIDE DEF rs
<1> QED
  BY <1>1, <1>2, <1>3, <1>4, <1>5, <1>8, <1>9, BusyFacts, ResponderStep

LEMMA ResponderTellsWaitStep ==
  ASSUME IInv, NEW l \in Link, ResponderTellsWait(l)
  PROVE  IInv'
<1> DEFINE rs == [responder[l] EXCEPT !.stage = "Waiting"]
           wait == [type |-> "Wait"]
<1>1. /\ responder[l].stage = "TellWait"
      /\ response' = [response EXCEPT ![l] = Append(@, wait)]
      /\ UNCHANGED <<store, outgoing, command, initiator, request, received>>
  BY DEF ResponderTellsWait
<1>2. responder' = [responder EXCEPT ![l] = rs]
  BY DEF ResponderTellsWait, IInv, TypeOK
<1>3. /\ rs \in ResponderState
      /\ rs.stage = "Waiting" /\ rs.subscribed = responder[l].subscribed
      /\ rs.request = responder[l].request /\ rs.answer = responder[l].answer
  BY BusyFacts DEF ResponderOK, ResponderState
<1>4. ResponderOK(rs)
  BY <1>3, BusyFacts DEF ResponderOK
<1>5. rs.subscribed /\ store[Responder(l)].phase # "Panicked" =>
        MayWait(store[Responder(l)], rs.request)
  BY <1>3, BusyFacts, StillWaits
<1>6. /\ response'[l] \in Seq(AnswerOf(initiator[l].asked.kind) \cup [type : {"Wait"}])
      /\ response'[l] \in Seq(Response)
      /\ response[l] = <<>> \/ Waits(l) => Waits(l)'
  <2>1. wait \in [type : {"Wait"}] /\ wait \in Response
    BY DEF Response
  <2>2. response'[l] = Append(response[l], wait)
    BY <1>1, BusyFacts
  <2>3. response[l] \in Seq(Response)
    BY BusyFacts
  <2>4. /\ response[l] # <<>> => Append(response[l], wait)[1] = response[l][1]
        /\ response[l] = <<>> => Append(response[l], wait) = <<wait>>
        /\ Append(response[l], wait) \in Seq(Response)
        /\ Append(response[l], wait) # <<>>
    BY <2>1, <2>3, AppendFacts
  <2>5. Waits(l) \/ response[l] = <<>> => Waits(l)'
    BY <2>2, <2>4 DEF Waits
  <2>6. Append(response[l], wait) \in Seq(AnswerOf(initiator[l].asked.kind) \cup [type : {"Wait"}])
    BY <2>1, BusyFacts, AppendFacts
  <2> QED
    BY <2>2, <2>4, <2>5, <2>6
<1>7. /\ response' \in [Link -> Seq(Response)]
      /\ \A k \in Link \ {l} : response'[k] = response[k]
  BY <1>1, <1>6, BusyFacts
<1> HIDE DEF rs
<1> QED
  BY <1>1, <1>2, <1>3, <1>4, <1>5, <1>6, <1>7, BusyFacts, ResponderStep

LEMMA ResponderAnswersStep ==
  ASSUME IInv, NEW l \in Link, ResponderAnswers(l)
  PROVE  IInv'
<1> DEFINE rs == [responder[l] EXCEPT !.stage = "Receive", !.answer = <<>>]
           answer == Head(responder[l].answer)
<1>1. /\ responder[l].stage \in {"Answer", "Waiting"} /\ responder[l].answer # <<>>
      /\ response' = [response EXCEPT ![l] = Append(@, answer)]
      /\ UNCHANGED <<store, outgoing, command, initiator, request, received>>
  BY DEF ResponderAnswers
<1>2. responder' = [responder EXCEPT ![l] = rs]
  BY DEF ResponderAnswers, IInv, TypeOK
<1>3. ~ responder[l].subscribed
  BY <1>1, BusyFacts DEF ResponderOK
<1>4. \A S : <<>> \in Seq(S)
  OBVIOUS
<1>5. /\ rs \in ResponderState
      /\ rs.stage = "Receive" /\ ~ rs.subscribed
      /\ rs.request = responder[l].request /\ rs.answer = <<>>
  BY <1>3, <1>4, BusyFacts DEF ResponderOK, ResponderState
<1>6. ResponderOK(rs)
  BY <1>4, <1>5 DEF ResponderOK
<1>7. /\ response'[l] \in Seq(AnswerOf(initiator[l].asked.kind) \cup [type : {"Wait"}])
      /\ response'[l] \in Seq(Response)
      /\ response[l] = <<>> \/ Waits(l) => Len(response'[l]) = 1 \/ Waits(l)'
  <2>1. answer \in AnswerOf(initiator[l].asked.kind)
    <3>1. /\ responder[l].answer \in Seq(AnswerOf(responder[l].request.kind))
          /\ responder[l].request = initiator[l].asked
      BY <1>1, BusyFacts DEF ResponderOK
    <3> QED
      BY <1>1, <3>1, TailFacts
  <2>2. answer \in Response
    BY <1>1, BusyFacts, TailFacts DEF ResponderOK, ResponderState, Response
  <2>3. response'[l] = Append(response[l], answer)
    BY <1>1, BusyFacts
  <2>4. response[l] \in Seq(Response)
    BY BusyFacts
  <2> HIDE DEF answer
  <2>5. /\ response[l] # <<>> => Append(response[l], answer)[1] = response[l][1]
        /\ response[l] = <<>> => Append(response[l], answer) = <<answer>>
        /\ Append(response[l], answer) \in Seq(Response)
        /\ Append(response[l], answer) # <<>>
    BY <2>2, <2>4, AppendFacts
  <2>6. Waits(l) => Waits(l)'
    BY <2>3, <2>5 DEF Waits
  <2>7. response[l] = <<>> => Len(response'[l]) = 1
    BY <2>3, <2>5
  <2>8. Append(response[l], answer) \in Seq(AnswerOf(initiator[l].asked.kind) \cup [type : {"Wait"}])
    BY <2>1, BusyFacts, AppendFacts
  <2> QED
    BY <2>3, <2>5, <2>6, <2>7, <2>8
<1>8. /\ response' \in [Link -> Seq(Response)]
      /\ \A k \in Link \ {l} : response'[k] = response[k]
  BY <1>1, <1>7, BusyFacts
<1> HIDE DEF rs
<1> QED
  BY <1>1, <1>2, <1>5, <1>6, <1>7, <1>8, BusyFacts, ResponderStep

LEMMA InitiatorRequestsStep ==
  ASSUME IInv, NEW l \in Link, InitiatorRequests(l)
  PROVE  IInv'
<1> DEFINE asked == Head(command[l])
           active == [stage |-> "Response", asked |-> asked]
<1>1. /\ initiator[l].stage = "Command" /\ command[l] # <<>>
      /\ request' = [request EXCEPT ![l] = Append(@, asked)]
      /\ initiator' = [initiator EXCEPT ![l] = active]
      /\ command' = [command EXCEPT ![l] = Tail(@)]
      /\ UNCHANGED <<store, outgoing, response, received, responder>>
  BY DEF InitiatorRequests
<1>2. request[l] = <<>> /\ responder[l].stage = "Receive" /\ response[l] = <<>>
  BY <1>1 DEF IInv, OneExchangePerStream, Idle
<1>3. /\ asked \in Message /\ Tail(command[l]) \in Seq(Message)
      /\ Len(command[l]) \in Nat \ {0} /\ Len(Tail(command[l])) = Len(command[l]) - 1
  BY <1>1, TailFacts DEF IInv, TypeOK
<1>4. /\ request'[l] = <<asked>>
      /\ \A k \in Link \ {l} : request'[k] = request[k]
  <2>1. request \in [Link -> Seq(Message)]
    BY DEF IInv, TypeOK
  <2>2. Append(request[l], asked) = <<asked>>
    BY <1>2, <1>3, <2>1, AppendFacts
  <2> QED
    BY <1>1, <2>1, <2>2
<1> HIDE DEF asked
<1>5. TypeOK'
  <2>1. request' \in [Link -> Seq(Message)]
    BY <1>1, <1>3, <1>4 DEF IInv, TypeOK
  <2>2. active \in InitiatorState
    BY <1>3 DEF InitiatorState
  <2> QED
    BY <1>1, <1>3, <2>1, <2>2 DEF IInv, TypeOK
<1>6. /\ initiator'[l] = active
      /\ \A k \in Link \ {l} : initiator'[k] = initiator[k]
  BY <1>1 DEF IInv, TypeOK
<1>7. RespondersOK' /\ MissingWhileDownloading'
  BY <1>1 DEF IInv, RespondersOK, MissingWhileDownloading
<1>8. ResponsesOK'
  <2>1. \A S : <<>> \in Seq(S)
    OBVIOUS
  <2> QED
    BY <1>1, <1>2, <1>6, <2>1 DEF IInv, ResponsesOK
<1>9. WaitsOnlyForWhatIsMissing'
  BY <1>1, Zenon DEF IInv, WaitsOnlyForWhatIsMissing, Runs, CanAnswer
<1>10. RequestsOK'
  <2> SUFFICES ASSUME NEW k \in Link
               PROVE  RequestOK(outgoing[k], Len(command'[k]), Len(received[k]), initiator'[k].stage)
    BY <1>1 DEF RequestsOK
  <2>1. RequestOK(outgoing[k], Len(command[k]), Len(received[k]), initiator[k].stage)
    BY DEF IInv, RequestsOK
  <2>2. CASE k = l
    <3>1. command'[k] = Tail(command[k]) /\ initiator'[k].stage = "Response"
      BY <1>1, <1>6, <2>2 DEF IInv, TypeOK
    <3> QED
      BY <1>3, <2>1, <2>2, <3>1 DEF RequestOK
  <2>3. CASE k # l
    <3>1. command'[k] = command[k] /\ initiator'[k] = initiator[k]
      BY <1>1, <1>6, <2>3 DEF IInv, TypeOK
    <3> QED
      BY <2>1, <3>1
  <2> QED
    BY <2>2, <2>3
<1>11. OneExchangePerStream'
  BY <1>1, <1>2, <1>4, <1>6 DEF IInv, OneExchangePerStream, Idle, Waits
<1> QED
  BY <1>5, <1>7, <1>8, <1>9, <1>10, <1>11 DEF IInv

\* What is known of a link whose initiator takes a response off the stream.
LEMMA AnsweredFacts ==
  ASSUME IInv, NEW l \in Link, initiator[l].stage = "Response", response[l] # <<>>
  PROVE  /\ request[l] = <<>>
         /\ Head(response[l]) = response[l][1]
         /\ Head(response[l]) \in AnswerOf(initiator[l].asked.kind) \cup [type : {"Wait"}]
         /\ Tail(response[l]) \in Seq(Response)
         /\ Tail(response[l]) \in Seq(AnswerOf(initiator[l].asked.kind) \cup [type : {"Wait"}])
         /\ Head(response[l]).type = "Response" =>
              /\ responder[l].stage = "Receive"
              /\ Tail(response[l]) = <<>>
<1>1. /\ response[l] \in Seq(Response)
      /\ response[l] \in Seq(AnswerOf(initiator[l].asked.kind) \cup [type : {"Wait"}])
  BY BusyFacts
<1>2. /\ Head(response[l]) \in AnswerOf(initiator[l].asked.kind) \cup [type : {"Wait"}]
      /\ Head(response[l]) = response[l][1]
      /\ Tail(response[l]) \in Seq(Response)
      /\ Tail(response[l]) \in Seq(AnswerOf(initiator[l].asked.kind) \cup [type : {"Wait"}])
      /\ Len(Tail(response[l])) = Len(response[l]) - 1
  BY <1>1, TailFacts
<1>3. request[l] = <<>>
  BY DEF IInv, OneExchangePerStream
<1>4. ASSUME Head(response[l]).type = "Response"
      PROVE  responder[l].stage = "Receive" /\ Len(response[l]) = 1
  BY <1>2, <1>4 DEF IInv, OneExchangePerStream, Waits
<1>5. ASSUME Head(response[l]).type = "Response"
      PROVE  Tail(response[l]) = <<>>
  <2>1. Len(Tail(response[l])) = 0
    BY <1>2, <1>4, <1>5
  <2> QED
    BY <1>2, <2>1, EmptyFacts
<1> QED
  BY <1>2, <1>3, <1>4, <1>5

LEMMA InitiatorReceivesStep ==
  ASSUME IInv, NEW l \in Link, InitiatorReceives(l)
  PROVE  IInv'
<1> DEFINE result == [kind |-> initiator[l].asked.kind, items |-> Head(response[l]).items]
<1>1. /\ initiator[l].stage = "Response" /\ response[l] # <<>>
      /\ Head(response[l]).type = "Response"
      /\ received' = [received EXCEPT ![l] = Append(@, result)]
      /\ response' = [response EXCEPT ![l] = Tail(@)]
      /\ UNCHANGED <<store, outgoing, command, request, responder>>
  BY DEF InitiatorReceives
<1>2. /\ initiator'[l].stage = "Command" /\ initiator'[l] \in InitiatorState
      /\ initiator'[l].asked = initiator[l].asked
      /\ \A k \in Link \ {l} : initiator'[k] = initiator[k]
      /\ initiator' \in [Link -> InitiatorState]
  BY DEF InitiatorReceives, IInv, TypeOK, InitiatorState
<1>3. result \in Message
  <2>1. initiator[l].asked \in Message
    BY DEF IInv, TypeOK, InitiatorState
  <2>2. Head(response[l]).items \subseteq ItemOf(initiator[l].asked.kind)
    BY <1>1, AnsweredFacts DEF AnswerOf
  <2> QED
    BY <2>1, <2>2, MessageFacts, MessageIntro
<1> HIDE DEF result
<1>4. /\ Append(received[l], result) \in Seq(Message)
      /\ Len(Append(received[l], result)) = Len(received[l]) + 1
  BY <1>3, AppendFacts DEF IInv, TypeOK
<1>5. /\ response'[l] = <<>>
      /\ \A k \in Link \ {l} : response'[k] = response[k]
      /\ response' \in [Link -> Seq(Response)]
  BY <1>1, AnsweredFacts DEF IInv, TypeOK
<1>6. TypeOK'
  BY <1>1, <1>2, <1>4, <1>5 DEF IInv, TypeOK
<1>7. RespondersOK' /\ MissingWhileDownloading'
  BY <1>1 DEF IInv, RespondersOK, MissingWhileDownloading
<1>8. ResponsesOK'
  <2>1. \A S : <<>> \in Seq(S)
    OBVIOUS
  <2> QED
    BY <1>2, <1>5, <2>1 DEF IInv, ResponsesOK
<1>9. WaitsOnlyForWhatIsMissing'
  BY <1>1, Zenon DEF IInv, WaitsOnlyForWhatIsMissing, Runs, CanAnswer
<1>10. RequestsOK'
  <2> SUFFICES ASSUME NEW k \in Link
               PROVE  RequestOK(outgoing[k], Len(command[k]), Len(received'[k]), initiator'[k].stage)
    BY <1>1 DEF RequestsOK
  <2>1. RequestOK(outgoing[k], Len(command[k]), Len(received[k]), initiator[k].stage)
    BY DEF IInv, RequestsOK
  <2>2. CASE k = l
    <3>1. received'[k] = Append(received[k], result)
      BY <1>1, <2>2 DEF IInv, TypeOK
    <3> QED
      BY <1>1, <1>2, <1>4, <2>1, <2>2, <3>1 DEF RequestOK
  <2>3. CASE k # l
    <3>1. received'[k] = received[k] /\ initiator'[k] = initiator[k]
      BY <1>1, <1>2, <2>3 DEF IInv, TypeOK
    <3> QED
      BY <2>1, <3>1
  <2> QED
    BY <2>2, <2>3
<1>11. OneExchangePerStream'
  <2>1. request[l] = <<>> /\ responder[l].stage = "Receive"
    BY <1>1, AnsweredFacts
  <2> QED
    BY <1>1, <1>2, <1>5, <2>1 DEF IInv, OneExchangePerStream, Idle, Waits
<1> QED
  BY <1>6, <1>7, <1>8, <1>9, <1>10, <1>11 DEF IInv

LEMMA InitiatorDiesStep ==
  ASSUME IInv, NEW l \in Link, InitiatorDies(l)
  PROVE  IInv'
<1>1. /\ initiator[l].stage = "Response" /\ response[l] # <<>>
      /\ response' = [response EXCEPT ![l] = Tail(@)]
      /\ UNCHANGED <<store, outgoing, command, request, received, responder>>
  BY DEF InitiatorDies
<1>2. /\ initiator'[l].stage = "Dead" /\ initiator'[l].asked = initiator[l].asked
      /\ \A k \in Link \ {l} : initiator'[k] = initiator[k]
      /\ initiator' \in [Link -> InitiatorState]
  BY DEF InitiatorDies, IInv, TypeOK, InitiatorState
<1>3. /\ response'[l] = Tail(response[l])
      /\ \A k \in Link \ {l} : response'[k] = response[k]
      /\ response' \in [Link -> Seq(Response)]
  BY <1>1, AnsweredFacts DEF IInv, TypeOK
<1>4. TypeOK'
  BY <1>1, <1>2, <1>3 DEF IInv, TypeOK
<1>5. RespondersOK' /\ MissingWhileDownloading'
  BY <1>1 DEF IInv, RespondersOK, MissingWhileDownloading
<1>6. ResponsesOK'
  BY <1>1, <1>2, <1>3, AnsweredFacts DEF IInv, ResponsesOK
<1>7. WaitsOnlyForWhatIsMissing'
  BY <1>1, Zenon DEF IInv, WaitsOnlyForWhatIsMissing, Runs, CanAnswer
<1>8. RequestsOK'
  <2>1. ASSUME NEW k \in Link
        PROVE  initiator'[k].stage = "Command" <=> initiator[k].stage = "Command"
    BY <1>1, <1>2
  <2> QED
    BY <1>1, <2>1 DEF IInv, RequestsOK, RequestOK
<1>9. OneExchangePerStream'
  <2>1. request[l] = <<>>
    BY <1>1, AnsweredFacts
  <2> QED
    BY <1>1, <1>2, <1>3, <2>1 DEF IInv, OneExchangePerStream, Idle, Waits
<1> QED
  BY <1>4, <1>5, <1>6, <1>7, <1>8, <1>9 DEF IInv

\* Applications' operations wake subscribers.
LEMMA ApplyStep ==
  ASSUME IInv, NEW d \in Device, NEW op \in Operation, Apply(d, op)
  PROVE  IInv'
<1> DEFINE resp == UpdateListeners(responder, d, {})
<1>1. /\ store[d].phase = "Syncing"
      /\ store' = [store EXCEPT ![d].ecg = @ \cup {op}]
      /\ responder' = resp
      /\ UNCHANGED <<outgoing, command, initiator, request, response, received>>
  BY DEF Apply
<1>2. Served(resp) /\ \A k \in Link : resp[k].subscribed => responder[k].subscribed
  BY UnchangedIsServed, ListenersFacts DEF IInv
<1>3. resp \in [Link -> ResponderState]
  BY <1>2 DEF Served, ResponderOK, UpdateListeners
<1> HIDE DEF resp
<1>4. /\ store' \in [Device -> StoreState]
      /\ \A e \in Device \ {d} : store'[e] = store[e]
      /\ store'[d].phase = "Syncing"
  BY <1>1 DEF IInv, TypeOK, StoreState
<1>5. TypeOK'
  BY <1>1, <1>3, <1>4 DEF IInv, TypeOK
<1>6. RespondersOK' /\ ResponsesOK'
  BY <1>1, <1>2 DEF IInv, RespondersOK, ResponsesOK, Served
<1>7. MissingWhileDownloading' /\ RequestsOK'
  BY <1>1, <1>4 DEF IInv, MissingWhileDownloading, RequestsOK
<1>8. WaitsOnlyForWhatIsMissing'
  <2> SUFFICES ASSUME NEW k \in Link, resp[k].subscribed, store'[Responder(k)].phase # "Panicked"
               PROVE  MayWait(store'[Responder(k)], resp[k].request)
    BY <1>1, Zenon DEF WaitsOnlyForWhatIsMissing, MayWait, Runs
  <2>1. /\ resp[k].request = responder[k].request /\ responder[k].subscribed
        /\ Responder(k) \in Device
    BY <1>2, BusyFacts DEF Served
  <2>2. store'[Responder(k)].phase = store[Responder(k)].phase
    BY <1>1, <1>4, <2>1
  <2> QED
    BY <2>1, <2>2, StillWaits
<1>9. OneExchangePerStream'
  BY <1>1, <1>2 DEF IInv, OneExchangePerStream, Idle, Waits, Served
<1> QED
  BY <1>5, <1>6, <1>7, <1>8, <1>9 DEF IInv
-----------------------------------------------------------------------------
LEMMA NextIInv == IInv /\ [Next]_vars => IInv'
<1> SUFFICES ASSUME IInv, [Next]_vars
             PROVE  IInv'
  OBVIOUS
<1>1. ASSUME NEW l \in Link, TaskStep(l)
      PROVE  IInv'
  BY <1>1, RegisterOutgoingStep, StoreHandlesRequestStep, ReceiveMetadataStep,
     ReceiveMerkleStep, ReceiveBlocksStep, ReceiveOperationsStep,
     ReceiveOperationsPanicsStep, InitiatorRequestsStep, InitiatorReceivesStep,
     InitiatorDiesStep, ResponderReceivesStep, ResponderTellsWaitStep,
     ResponderAnswersStep DEF TaskStep
<1>2. ASSUME NEW d \in Device, NEW op \in Operation, Apply(d, op)
      PROVE  IInv'
  BY <1>2, ApplyStep
<1>3. CASE UNCHANGED vars
  BY <1>3 DEF vars, IInv, TypeOK, RespondersOK, ResponsesOK, MissingWhileDownloading,
     WaitsOnlyForWhatIsMissing, RequestsOK, OneExchangePerStream, Idle, Waits, Runs, CanAnswer
<1> QED
  BY <1>1, <1>2, <1>3 DEF Next

\* The handlers of the store's task and the loops of the StoreSync tasks, in
\* whatever order they run, preserve the inductive invariant.
THEOREM StoreInvariant == Spec => []IInv
<1> QED
  BY InitIInv, NextIInv, PTL DEF Spec

\* Every message, state and answer is of its kind: in particular what the
\* initiator hands to its store is of the kind that it asked for.
THEOREM StoreTypeOK == Spec => []TypeOK
<1>1. IInv => TypeOK
  BY DEF IInv
<1> QED
  BY <1>1, StoreInvariant, PTL

\* In no interleaving does a store reach the panics of send_sync_requests.
THEOREM StoreMissingWhileDownloading == Spec => []MissingWhileDownloading
<1>1. IInv => MissingWhileDownloading
  BY DEF IInv
<1> QED
  BY <1>1, StoreInvariant, PTL

\* No transition of a store leaves behind a subscriber that it can serve.
THEOREM StoreWaitsOnlyForWhatIsMissing == Spec => []WaitsOnlyForWhatIsMissing
<1>1. IInv => WaitsOnlyForWhatIsMissing
  BY DEF IInv
<1> QED
  BY <1>1, StoreInvariant, PTL

\* A peer marked outstanding has one request on its way, any other none.
THEOREM StoreOneRequestOutstanding == Spec => []OneRequestOutstanding
<1>1. ASSUME IInv
      PROVE  OneRequestOutstanding
  <2> SUFFICES ASSUME NEW l \in Link
               PROVE  Len(command[l]) + Len(received[l]) + (IF initiator[l].stage = "Command" THEN 0 ELSE 1)
                        = IF outgoing[l] = "Outstanding" THEN 1 ELSE 0
    BY DEF OneRequestOutstanding
  <2>1. RequestOK(outgoing[l], Len(command[l]), Len(received[l]), initiator[l].stage)
    BY <1>1 DEF IInv, RequestsOK
  <2> DEFINE awaited == IF initiator[l].stage = "Command" THEN 0 ELSE 1
  <2>2. CASE outgoing[l] # "Outstanding"
    <3>1. Len(command[l]) = 0 /\ Len(received[l]) = 0 /\ awaited = 0
      BY <2>1, <2>2 DEF RequestOK
    <3> HIDE DEF awaited
    <3>2. Len(command[l]) + Len(received[l]) + awaited = 0
      BY <3>1
    <3> QED
      BY <2>2, <3>2 DEF awaited
  <2>3. CASE outgoing[l] = "Outstanding"
    <3>1. \/ Len(command[l]) = 1 /\ Len(received[l]) = 0 /\ awaited = 0
          \/ Len(command[l]) = 0 /\ Len(received[l]) = 0 /\ awaited = 1
          \/ Len(command[l]) = 0 /\ Len(received[l]) = 1 /\ awaited = 0
      BY <2>1, <2>3 DEF RequestOK
    <3> HIDE DEF awaited
    <3>2. Len(command[l]) + Len(received[l]) + awaited = 1
      <4>1. CASE Len(command[l]) = 1 /\ Len(received[l]) = 0 /\ awaited = 0
        BY <4>1
      <4>2. CASE Len(command[l]) = 0 /\ Len(received[l]) = 0 /\ awaited = 1
        BY <4>2
      <4>3. CASE Len(command[l]) = 0 /\ Len(received[l]) = 1 /\ awaited = 0
        BY <4>3
      <4> QED
        BY <3>1, <4>1, <4>2, <4>3
    <3> QED
      BY <2>3, <3>2 DEF awaited
  <2> QED
    BY <2>2, <2>3
<1> QED
  BY <1>1, StoreInvariant, PTL

\* A stream carries one exchange at a time, and the response the initiator
\* takes for the answer to its request is the answer to it.
THEOREM StoreOneExchangePerStream == Spec => []OneExchangePerStream
<1>1. IInv => OneExchangePerStream
  BY DEF IInv
<1> QED
  BY <1>1, StoreInvariant, PTL
=============================================================================
