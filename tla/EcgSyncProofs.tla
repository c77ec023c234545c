--------------------------- MODULE EcgSyncProofs ---------------------------
(***************************************************************************)
(* Theorems about the synchronisation of graphs (modules EcgSync and       *)
(* EcgSyncSent), for every set of devices, links and headers.              *)
(*                                                                         *)
(* The first part is about the exchange a link carries, whatever a         *)
(* responder delivers and proposes.  The second is about a turn of the     *)
(* responder: what its queues and loops make of what it knows.  The third  *)
(* puts both together: what the ends of a link have, say and believe.      *)
(***************************************************************************)
EXTENDS EcgSyncSent, SequenceTheorems, HeaderGraphProofs

WaitMsg == [type |-> "Wait"]
Single(seq) == \E x : seq = <<x>>

(***************************************************************************)
(* What the steps of the exchange below look at in the states of tasks.    *)
(***************************************************************************)
TasksOK ==
  /\ outgoing = [l \in Link |-> outgoing[l]]
  /\ command = [l \in Link |-> command[l]]
  /\ initiator = [l \in Link |-> initiator[l]]
  /\ request = [l \in Link |-> request[l]]
  /\ response = [l \in Link |-> response[l]]
  /\ received = [l \in Link |-> received[l]]
  /\ responder = [l \in Link |-> responder[l]]
TaskOK(l) ==
  /\ {"stage", "started", "have"} \subseteq DOMAIN initiator[l]
  /\ {"stage", "snapshot", "tips", "known", "firstRun", "sentHaves"} \subseteq DOMAIN responder[l]
  /\ responder[l].stage = "Receive" => responder[l].firstRun = TRUE

(***************************************************************************)
(* A link carries one exchange.  Its way: a command to the initiator's     *)
(* task, a request on the stream, a turn or more of the responder, its     *)
(* response, the operations handed to the initiator's store.               *)
(***************************************************************************)

\* Neither task owes the other anything; the last proposals are with both.
AtRest(l) ==
  /\ initiator[l].stage = "Command" /\ responder[l].stage = "Receive"
  /\ request[l] = <<>> /\ response[l] = <<>>
  /\ initiator[l].started => initiator[l].have = responder[l].sentHaves

Idle(l) ==
  /\ outgoing[l] \in {"Initializing", "Ready"}
  /\ AtRest(l) /\ command[l] = <<>> /\ received[l] = <<>>

Commanded(l) == AtRest(l) /\ Single(command[l]) /\ received[l] = <<>>

Requested(l) ==
  /\ initiator[l].stage = "Response" /\ responder[l].stage = "Receive"
  /\ Single(request[l]) /\ response[l] = <<>>
  /\ command[l] = <<>> /\ received[l] = <<>>

\* The initiator is told once to wait, at the end of the first turn.
Answering(l) ==
  /\ responder[l].stage # "Receive"
  /\ \/ /\ responder[l].firstRun = TRUE
        /\ initiator[l].stage = "Response" /\ response[l] = <<>>
     \/ /\ responder[l].firstRun = FALSE
        /\ initiator[l].stage = "Response" /\ response[l] = <<WaitMsg>>
     \/ /\ responder[l].firstRun = FALSE
        /\ initiator[l].stage = "ResponseAfterWait" /\ response[l] = <<>>
  /\ request[l] = <<>> /\ command[l] = <<>> /\ received[l] = <<>>

Answered(l) ==
  /\ responder[l].stage = "Receive"
  /\ \E r : /\ r.type = "Response" /\ r.have = responder[l].sentHaves
            /\ \/ initiator[l].stage = "Response" /\ response[l] = <<WaitMsg, r>>
               \/ initiator[l].stage \in {"Response", "ResponseAfterWait"} /\ response[l] = <<r>>
  /\ request[l] = <<>> /\ command[l] = <<>> /\ received[l] = <<>>

Delivered(l) == AtRest(l) /\ command[l] = <<>> /\ Single(received[l])

Exchange(l) ==
  \/ Idle(l)
  \/ /\ outgoing[l] = "Outstanding"
     /\ Commanded(l) \/ Requested(l) \/ Answering(l) \/ Answered(l) \/ Delivered(l)

LinkOK(l) == TaskOK(l) /\ Exchange(l)
IInv == TasksOK /\ \A l \in Link : LinkOK(l)
-----------------------------------------------------------------------------
\* Queues of one or two, which is all there are.
LEMMA ShortQueues ==
  /\ \A x : /\ Append(<<>>, x) = <<x>> /\ <<x>> # <<>> /\ Len(<<x>>) = 1
            /\ Head(<<x>>) = x /\ Tail(<<x>>) = <<>>
  /\ \A x, y : /\ Append(<<x>>, y) = <<x, y>> /\ <<x, y>> # <<>>
               /\ Head(<<x, y>>) = x /\ Tail(<<x, y>>) = <<y>>
  /\ Len(<<>>) = 0
<1>1. \A x : <<x>> \in Seq({x}) /\ <<>> \in Seq({x})
  OBVIOUS
<1>2. \A x : /\ Append(<<>>, x) = <<x>> /\ <<x>> # <<>> /\ Len(<<x>>) = 1
             /\ Head(<<x>>) = x /\ Tail(<<x>>) = <<>>
  BY <1>1
<1>3. \A x, y : /\ Append(<<x>>, y) = <<x, y>> /\ <<x, y>> # <<>>
                /\ Head(<<x, y>>) = x /\ Tail(<<x, y>>) = <<y>>
  <2> SUFFICES ASSUME NEW x, NEW y
               PROVE  /\ Append(<<x>>, y) = <<x, y>> /\ <<x, y>> # <<>>
                      /\ Head(<<x, y>>) = x /\ Tail(<<x, y>>) = <<y>>
    OBVIOUS
  <2>1. <<x>> \in Seq({x, y}) /\ <<x, y>> \in Seq({x, y})
    OBVIOUS
  <2>2. Append(<<x>>, y) = <<x, y>>
    <3> DEFINE q == Append(<<x>>, y)
    <3>1. q \in Seq({x, y}) /\ Len(q) = 2 /\ q[1] = x /\ q[2] = y
      BY <2>1
    <3> HIDE DEF q
    <3>2. <<x, y>>[1] = x /\ <<x, y>>[2] = y /\ Len(<<x, y>>) = 2
      OBVIOUS
    <3>3. \A i \in 1 .. 2 : q[i] = <<x, y>>[i]
      BY <3>1, <3>2
    <3>4. q = <<x, y>>
      BY <2>1, <3>1, <3>2, <3>3, SeqEqual
    <3> QED
      BY <3>4 DEF q
  <2>3. Head(<<x, y>>) = x /\ <<x, y>> # <<>>
    BY <2>1
  <2>4. Tail(<<x, y>>) = <<y>>
    BY <2>1
  <2> QED
    BY <2>2, <2>3, <2>4
<1> QED
  BY <1>2, <1>3

\* What a step of a store means for a link it does not act on: its peer may
\* be asked for updates, its responder may be woken.
Told(l) ==
  \/ outgoing'[l] = outgoing[l] /\ command'[l] = command[l]
  \/ /\ outgoing[l] = "Ready" /\ outgoing'[l] = "Outstanding"
     /\ \E g : command'[l] = Append(command[l], g)
Woken(l) ==
  \/ responder'[l] = responder[l]
  \/ /\ responder[l].stage = "Subscribed"
     /\ \E g : responder'[l] = [responder[l] EXCEPT !.stage = "Updated", !.snapshot = g]
Same(l) ==
  /\ initiator'[l] = initiator[l] /\ request'[l] = request[l]
  /\ response'[l] = response[l] /\ received'[l] = received[l]

LEMMA Bystander ==
  ASSUME NEW l \in Link, LinkOK(l), Told(l), Woken(l), Same(l)
  PROVE  LinkOK(l)'
<1>1. TaskOK(l)'
  BY DEF LinkOK, TaskOK, Woken, Same
<1>2. CASE outgoing'[l] = outgoing[l] /\ command'[l] = command[l]
  <2>1. CASE responder'[l] = responder[l]
    BY <1>1, <1>2, <2>1 DEF LinkOK, Same, Exchange, Idle, AtRest, Commanded, Requested, Answering,
      Answered, Delivered
  <2>2. CASE responder'[l] # responder[l]
    <3>1. /\ responder[l].stage = "Subscribed"
          /\ responder'[l].stage = "Updated" /\ responder'[l].firstRun = responder[l].firstRun
      BY <2>2 DEF Woken, LinkOK, TaskOK
    <3>2. Answering(l) /\ outgoing[l] = "Outstanding"
      BY <3>1 DEF LinkOK, Exchange, Idle, AtRest, Commanded, Requested, Answered, Delivered
    <3>3. Answering(l)'
      BY <1>2, <3>1, <3>2 DEF Answering, Same
    <3> QED
      BY <1>1, <1>2, <3>2, <3>3 DEF LinkOK, Exchange
  <2> QED
    BY <2>1, <2>2
<1>3. CASE outgoing[l] = "Ready" /\ outgoing'[l] = "Outstanding" /\ \E g : command'[l] = Append(command[l], g)
  <2>1. Idle(l)
    BY <1>3 DEF LinkOK, Exchange
  <2>2. responder'[l] = responder[l]
    BY <2>1 DEF Idle, AtRest, Woken
  <2>3. Single(command'[l])
    BY <1>3, <2>1, ShortQueues DEF Idle, Single
  <2>4. Commanded(l)'
    BY <2>1, <2>2, <2>3 DEF Idle, AtRest, Commanded, Same
  <2> QED
    BY <1>1, <1>3, <2>4 DEF LinkOK, Exchange
<1> QED
  BY <1>2, <1>3 DEF Told

\* So a step is right if it is for the link it acts on.
LEMMA OneLink ==
  ASSUME IInv, NEW l \in Link, TasksOK', LinkOK(l)',
         \A k \in Link : k # l => Told(k) /\ Woken(k) /\ Same(k)
  PROVE  IInv'
<1>1. \A k \in Link : LinkOK(k)'
  <2> SUFFICES ASSUME NEW k \in Link PROVE LinkOK(k)'
    OBVIOUS
  <2>1. CASE k # l
    <3>1. LinkOK(k)
      BY DEF IInv
    <3>2. Told(k) /\ Woken(k) /\ Same(k)
      BY <2>1
    <3> QED
      BY <3>1, <3>2, Bystander
  <2> QED
    BY <2>1
<1> QED
  BY <1>1 DEF IInv
-----------------------------------------------------------------------------
\* What the store task does to all links of its device.
LEMMA SendFacts ==
  ASSUME TasksOK, NEW d, NEW out, NEW graph, out = [l \in Link |-> out[l]], SendSyncRequests(d, out, graph)
  PROVE  /\ outgoing' = [l \in Link |-> outgoing'[l]] /\ command' = [l \in Link |-> command'[l]]
         /\ \A l \in Link : IF Initiator(l) = d /\ out[l] = "Ready"
                            THEN outgoing'[l] = "Outstanding" /\ command'[l] = Append(command[l], graph)
                            ELSE outgoing'[l] = out[l] /\ command'[l] = command[l]
BY DEF SendSyncRequests

\* update_listeners wakes who is subscribed, and nobody else.
LEMMA ListenerFacts ==
  ASSUME NEW d, NEW graph, NEW from, responder' = UpdateListeners(d, graph, from)
  PROVE  responder' = [l \in Link |-> responder'[l]] /\ \A l \in Link : Woken(l)
BY DEF UpdateListeners, Woken

\* The first request is sent as soon as the initiator's task is up.
LEMMA RegisterOutgoingStep ==
  ASSUME IInv, NEW l \in Link, RegisterOutgoing(l)
  PROVE  IInv'
<1> DEFINE out == [outgoing EXCEPT ![l] = "Ready"]
<1>1. TasksOK /\ LinkOK(l) /\ outgoing[l] = "Initializing"
  BY DEF IInv, RegisterOutgoing
<1>2. Idle(l)
  BY <1>1 DEF LinkOK, Exchange
<1>3. /\ out = [k \in Link |-> out[k]] /\ out[l] = "Ready"
      /\ \A k \in Link : k # l => out[k] = outgoing[k]
  BY <1>1 DEF TasksOK
<1>4. SendSyncRequests(Initiator(l), out, ecg[Initiator(l)])
  BY DEF RegisterOutgoing
<1>5. UNCHANGED <<initiator, request, response, received, responder>>
  BY DEF RegisterOutgoing
<1> HIDE DEF out
<1>6. /\ outgoing' = [k \in Link |-> outgoing'[k]] /\ command' = [k \in Link |-> command'[k]]
      /\ \A k \in Link : IF Initiator(k) = Initiator(l) /\ out[k] = "Ready"
                         THEN outgoing'[k] = "Outstanding" /\ command'[k] = Append(command[k], ecg[Initiator(l)])
                         ELSE outgoing'[k] = out[k] /\ command'[k] = command[k]
  BY <1>1, <1>3, <1>4, SendFacts
<1>7. TasksOK'
  BY <1>1, <1>5, <1>6 DEF TasksOK
<1>8. outgoing'[l] = "Outstanding" /\ Single(command'[l])
  BY <1>2, <1>3, <1>6, ShortQueues DEF Idle, Single
<1>9. LinkOK(l)'
  BY <1>1, <1>2, <1>5, <1>8 DEF LinkOK, TaskOK, Exchange, Idle, AtRest, Commanded
<1>10. \A k \in Link : k # l => Told(k) /\ Woken(k) /\ Same(k)
  BY <1>3, <1>5, <1>6 DEF Told, Woken, Same
<1> QED
  BY <1>7, <1>9, <1>10, OneLink

\* The operations have arrived: the exchange is over and the next is begun.
LEMMA StoreReceivesStep ==
  ASSUME IInv, NEW l \in Link, StoreReceives(l)
  PROVE  IInv'
<1> DEFINE d == Initiator(l)
           out == [outgoing EXCEPT ![l] = "Ready"]
<1>1. TasksOK /\ LinkOK(l) /\ received[l] # <<>>
  BY DEF IInv, StoreReceives
<1>2. Delivered(l)
  BY <1>1 DEF LinkOK, Exchange, Idle, Commanded, Requested, Answering, Answered
<1>3. /\ out = [k \in Link |-> out[k]] /\ out[l] = "Ready"
      /\ \A k \in Link : k # l => out[k] = outgoing[k]
  BY <1>1 DEF TasksOK
<1>4. PICK graph : responder' = UpdateListeners(d, graph, {Responder(l)}) /\ SendSyncRequests(d, out, graph)
  BY DEF StoreReceives
<1>5. received' = [received EXCEPT ![l] = Tail(@)] /\ UNCHANGED <<initiator, request, response>>
  BY DEF StoreReceives
<1> HIDE DEF out
<1>6. /\ outgoing' = [k \in Link |-> outgoing'[k]] /\ command' = [k \in Link |-> command'[k]]
      /\ \A k \in Link : IF Initiator(k) = d /\ out[k] = "Ready"
                         THEN outgoing'[k] = "Outstanding" /\ command'[k] = Append(command[k], graph)
                         ELSE outgoing'[k] = out[k] /\ command'[k] = command[k]
  BY <1>1, <1>3, <1>4, SendFacts
<1>7. responder' = [k \in Link |-> responder'[k]] /\ \A k \in Link : Woken(k)
  BY <1>4, ListenerFacts
<1>8. /\ received' = [k \in Link |-> received'[k]] /\ received'[l] = <<>>
      /\ \A k \in Link : k # l => received'[k] = received[k]
  BY <1>1, <1>2, <1>5, ShortQueues DEF TasksOK, Delivered, Single
<1>9. TasksOK'
  BY <1>1, <1>5, <1>6, <1>7, <1>8 DEF TasksOK
<1>10. outgoing'[l] = "Outstanding" /\ Single(command'[l])
  BY <1>2, <1>3, <1>6, ShortQueues DEF Delivered, Single
<1>11. responder'[l] = responder[l]
  BY <1>2, <1>7 DEF Delivered, AtRest, Woken
<1>12. LinkOK(l)'
  BY <1>1, <1>2, <1>5, <1>8, <1>10, <1>11 DEF LinkOK, TaskOK, Exchange, Delivered, AtRest, Commanded
<1>13. \A k \in Link : k # l => Told(k) /\ Woken(k) /\ Same(k)
  BY <1>3, <1>5, <1>6, <1>7, <1>8 DEF Told, Same
<1> QED
  BY <1>9, <1>12, <1>13, OneLink

\* An application's header wakes subscribers and asks nothing of a peer.
LEMMA ApplyStep ==
  ASSUME IInv, NEW h \in HeaderId, Apply(h)
  PROVE  IInv'
<1>1. /\ responder' = UpdateListeners(Author[h], ecg[Author[h]] \cup {h}, {})
      /\ UNCHANGED <<outgoing, command, initiator, request, response, received>>
  BY DEF Apply
<1>2. responder' = [k \in Link |-> responder'[k]] /\ \A k \in Link : Woken(k)
  BY <1>1, ListenerFacts
<1>3. TasksOK'
  BY <1>1, <1>2 DEF IInv, TasksOK
<1>4. \A k \in Link : LinkOK(k) /\ Told(k) /\ Woken(k) /\ Same(k)
  BY <1>1, <1>2 DEF IInv, Told, Same
<1>5. \A k \in Link : LinkOK(k)'
  BY <1>4, Bystander
<1> QED
  BY <1>3, <1>5 DEF IInv
-----------------------------------------------------------------------------
\* A step that acts on one link only.
Alone(l) ==
  /\ TasksOK'
  /\ \A k \in Link : k # l =>
       /\ outgoing'[k] = outgoing[k] /\ command'[k] = command[k] /\ responder'[k] = responder[k]
       /\ Same(k)

LEMMA AloneStep ==
  ASSUME IInv, NEW l \in Link, LinkOK(l)', Alone(l)
  PROVE  IInv'
BY OneLink DEF Alone, Told, Woken

\* The initiator's task turns the command into a request.
LEMMA InitiatorRequestsStep ==
  ASSUME IInv, NEW l \in Link, InitiatorRequests(l)
  PROVE  IInv'
<1>1. TasksOK /\ LinkOK(l) /\ initiator[l].stage = "Command" /\ command[l] # <<>>
  BY DEF IInv, InitiatorRequests
<1>2. Commanded(l) /\ outgoing[l] = "Outstanding"
  BY <1>1 DEF LinkOK, Exchange, Idle, Requested, Answering, Answered, Delivered
<1>3. PICK req : request' = [request EXCEPT ![l] = Append(@, req)]
  BY DEF InitiatorRequests
<1>4. /\ command' = [command EXCEPT ![l] = Tail(@)]
      /\ initiator' = [initiator EXCEPT ![l].stage = "Response"]
      /\ UNCHANGED <<outgoing, response, received, responder>>
  BY DEF InitiatorRequests
<1>5. Alone(l)
  BY <1>1, <1>3, <1>4 DEF Alone, Same, TasksOK
<1>6. Single(request'[l]) /\ command'[l] = <<>>
  BY <1>1, <1>2, <1>3, <1>4, ShortQueues DEF TasksOK, Commanded, AtRest, Single
<1>7. /\ initiator'[l].stage = "Response"
      /\ DOMAIN initiator'[l] = DOMAIN initiator[l]
  BY <1>1, <1>4 DEF TasksOK, LinkOK, TaskOK
<1>8. Requested(l)'
  BY <1>2, <1>4, <1>6, <1>7 DEF Commanded, AtRest, Requested
<1>9. LinkOK(l)'
  BY <1>1, <1>2, <1>4, <1>7, <1>8 DEF LinkOK, TaskOK, Exchange
<1> QED
  BY <1>5, <1>9, AloneStep

\* It takes the Wait, and the response is still to come.
LEMMA InitiatorWaitsStep ==
  ASSUME IInv, NEW l \in Link, InitiatorWaits(l)
  PROVE  IInv'
<1>1. /\ TasksOK /\ LinkOK(l)
      /\ initiator[l].stage = "Response" /\ response[l] # <<>> /\ Head(response[l]).type = "Wait"
  BY DEF IInv, InitiatorWaits
<1>2. /\ response' = [response EXCEPT ![l] = Tail(@)]
      /\ initiator' = [initiator EXCEPT ![l].stage = "ResponseAfterWait"]
      /\ UNCHANGED <<outgoing, command, request, received, responder>>
  BY DEF InitiatorWaits
<1>3. Alone(l)
  BY <1>1, <1>2 DEF Alone, Same, TasksOK
<1>4. /\ initiator'[l].stage = "ResponseAfterWait"
      /\ DOMAIN initiator'[l] = DOMAIN initiator[l]
      /\ response'[l] = Tail(response[l])
  BY <1>1, <1>2 DEF TasksOK, LinkOK, TaskOK
<1>5. TaskOK(l)'
  BY <1>1, <1>2, <1>4 DEF LinkOK, TaskOK
<1>6. outgoing[l] = "Outstanding" /\ (Answering(l) \/ Answered(l))
  BY <1>1 DEF LinkOK, Exchange, Idle, AtRest, Commanded, Requested, Delivered
<1>7. ASSUME Answering(l) PROVE LinkOK(l)'
  <2>1. responder[l].firstRun = FALSE /\ response[l] = <<WaitMsg>>
    BY <1>1, <1>7 DEF Answering
  <2>2. response'[l] = <<>>
    BY <1>4, <2>1, ShortQueues
  <2>3. Answering(l)'
    BY <1>2, <1>4, <1>7, <2>1, <2>2 DEF Answering
  <2> QED
    BY <1>2, <1>5, <1>6, <2>3 DEF LinkOK, Exchange
<1>8. ASSUME Answered(l) PROVE LinkOK(l)'
  <2>1. PICK r : /\ r.type = "Response" /\ r.have = responder[l].sentHaves
                 /\ \/ response[l] = <<WaitMsg, r>>
                    \/ response[l] = <<r>>
    BY <1>8 DEF Answered
  <2>2. response'[l] = <<r>>
    <3>1. CASE response[l] = <<WaitMsg, r>>
      <4>1. Tail(<<WaitMsg, r>>) = <<r>>
        BY ShortQueues
      <4> QED
        BY <1>4, <3>1, <4>1
    <3>2. CASE response[l] = <<r>>
      <4>1. Head(<<r>>) = r
        BY ShortQueues
      <4> QED
        BY <1>1, <2>1, <3>2, <4>1
    <3> QED
      BY <2>1, <3>1, <3>2
  <2>3. Answered(l)'
    BY <1>2, <1>4, <1>8, <2>1, <2>2 DEF Answered
  <2> QED
    BY <1>2, <1>5, <1>6, <2>3 DEF LinkOK, Exchange
<1>9. LinkOK(l)'
  BY <1>6, <1>7, <1>8
<1> QED
  BY <1>3, <1>9, AloneStep

\* It takes the response: both ends now have the same proposals.
LEMMA InitiatorReceivesStep ==
  ASSUME IInv, NEW l \in Link, InitiatorReceives(l)
  PROVE  IInv'
<1>1. /\ TasksOK /\ LinkOK(l)
      /\ initiator[l].stage # "Command" /\ response[l] # <<>> /\ Head(response[l]).type = "Response"
  BY DEF IInv, InitiatorReceives
<1>2. /\ initiator' = [initiator EXCEPT ![l] =
                         [stage |-> "Command", started |-> TRUE, have |-> Head(response[l]).have]]
      /\ received' = [received EXCEPT ![l] = Append(@, Head(response[l]).operations)]
      /\ response' = [response EXCEPT ![l] = Tail(@)]
      /\ UNCHANGED <<outgoing, command, request, responder>>
  BY DEF InitiatorReceives
<1>3. Alone(l)
  BY <1>1, <1>2 DEF Alone, Same, TasksOK
<1>4. outgoing[l] = "Outstanding" /\ Answered(l)
  BY <1>1, ShortQueues DEF LinkOK, Exchange, Idle, AtRest, Commanded, Requested, Answering, Delivered, WaitMsg
<1>5. PICK r : /\ r.type = "Response" /\ r.have = responder[l].sentHaves
               /\ \/ response[l] = <<WaitMsg, r>>
                  \/ response[l] = <<r>>
  BY <1>4 DEF Answered
<1>6. response[l] = <<r>>
  BY <1>1, <1>5, ShortQueues DEF WaitMsg
<1>7. response'[l] = <<>> /\ initiator'[l] = [stage |-> "Command", started |-> TRUE, have |-> r.have]
  BY <1>1, <1>2, <1>6, ShortQueues DEF TasksOK
<1>8. Single(received'[l])
  BY <1>1, <1>2, <1>4, ShortQueues DEF TasksOK, Answered, Single
<1>9. Delivered(l)'
  BY <1>2, <1>4, <1>5, <1>7, <1>8 DEF Answered, Delivered, AtRest
<1>10. LinkOK(l)'
  BY <1>1, <1>2, <1>4, <1>7, <1>9 DEF LinkOK, TaskOK, Exchange
<1> QED
  BY <1>3, <1>10, AloneStep
-----------------------------------------------------------------------------
\* The responder's task takes the request and begins its first turn.
LEMMA ResponderReceivesStep ==
  ASSUME IInv, NEW l \in Link, ResponderReceives(l)
  PROVE  IInv'
<1>1. TasksOK /\ LinkOK(l) /\ responder[l].stage = "Receive" /\ request[l] # <<>>
  BY DEF IInv, ResponderReceives
<1>2. Requested(l) /\ outgoing[l] = "Outstanding"
  BY <1>1 DEF LinkOK, Exchange, Idle, AtRest, Commanded, Answering, Answered, Delivered
<1> DEFINE req == Head(request[l])
           rs == IF req.initial THEN NewResponder ELSE responder[l]
           tips == req.tips
           known == req.known
<1>3. /\ rs = NewResponder \/ rs = responder[l]
      /\ responder' = [responder EXCEPT ![l] =
                         [rs EXCEPT !.stage = "RequestState", !.tips = tips, !.known = known]]
  BY DEF ResponderReceives
<1>4. request' = [request EXCEPT ![l] = Tail(@)] /\ UNCHANGED <<outgoing, command, initiator, response, received>>
  BY DEF ResponderReceives
<1>5. Alone(l)
  BY <1>1, <1>3, <1>4 DEF Alone, Same, TasksOK
<1> HIDE DEF rs, tips, known
<1>6. /\ {"stage", "snapshot", "tips", "known", "firstRun", "sentHaves"} \subseteq DOMAIN rs
      /\ rs.firstRun = TRUE
  BY <1>1, <1>3 DEF LinkOK, TaskOK, NewResponder
<1>7. /\ responder'[l].stage = "RequestState" /\ responder'[l].firstRun = TRUE
      /\ DOMAIN responder'[l] = DOMAIN rs
  BY <1>1, <1>3, <1>6 DEF TasksOK
<1>8. request'[l] = <<>>
  BY <1>1, <1>2, <1>4, ShortQueues DEF TasksOK, Requested, Single
<1>9. Answering(l)'
  BY <1>2, <1>4, <1>7, <1>8 DEF Requested, Answering
<1> QED
  <2>1. LinkOK(l)'
    BY <1>1, <1>2, <1>4, <1>6, <1>7, <1>9 DEF LinkOK, TaskOK, Exchange
  <2> QED
    BY <1>5, <2>1, AloneStep

\* A responder that asks its store, or is answered, goes on with its turn.
LEMMA TurnStep ==
  ASSUME IInv, NEW l \in Link, responder[l].stage # "Receive",
         NEW new, new.stage # "Receive", new.firstRun = responder[l].firstRun,
         DOMAIN new = DOMAIN responder[l], responder' = [responder EXCEPT ![l] = new],
         UNCHANGED <<outgoing, command, initiator, request, response, received>>
  PROVE  IInv'
<1>1. TasksOK /\ LinkOK(l)
  BY DEF IInv
<1>2. Alone(l)
  BY <1>1 DEF Alone, Same, TasksOK
<1>3. responder'[l] = new
  BY <1>1 DEF TasksOK
<1>4. Answering(l) /\ outgoing[l] = "Outstanding"
  BY <1>1 DEF LinkOK, Exchange, Idle, AtRest, Commanded, Requested, Answered, Delivered
<1>5. Answering(l)'
  BY <1>3, <1>4 DEF Answering
<1>6. LinkOK(l)'
  BY <1>1, <1>3, <1>4, <1>5 DEF LinkOK, TaskOK, Exchange
<1> QED
  BY <1>2, <1>6, AloneStep

\* SubscribeECG without tips.
LEMMA StoreSharesStateStep ==
  ASSUME IInv, NEW l \in Link, StoreSharesState(l)
  PROVE  IInv'
<1> DEFINE new == [responder[l] EXCEPT !.stage = "HaveState", !.snapshot = ecg[Responder(l)]]
<1>1. responder' = [responder EXCEPT ![l] = new]
  BY DEF StoreSharesState, IInv, TasksOK
<1>2. new.stage # "Receive" /\ new.firstRun = responder[l].firstRun /\ DOMAIN new = DOMAIN responder[l]
  BY DEF IInv, LinkOK, TaskOK
<1>3. /\ responder[l].stage # "Receive"
      /\ UNCHANGED <<outgoing, command, initiator, request, response, received>>
  BY DEF StoreSharesState
<1> HIDE DEF new
<1> QED
  BY <1>1, <1>2, <1>3, TurnStep

\* SubscribeECG with tips, answered or not.
LEMMA StoreSubscribesStep ==
  ASSUME IInv, NEW l \in Link, StoreSubscribes(l)
  PROVE  IInv'
<1> DEFINE updated == [responder[l] EXCEPT !.stage = "Updated", !.snapshot = ecg[Responder(l)]]
           subscribed == [responder[l] EXCEPT !.stage = "Subscribed"]
<1>1. \/ responder' = [responder EXCEPT ![l] = updated]
      \/ responder' = [responder EXCEPT ![l] = subscribed]
  BY DEF StoreSubscribes, IInv, TasksOK
<1>2. /\ updated.stage # "Receive" /\ updated.firstRun = responder[l].firstRun
      /\ DOMAIN updated = DOMAIN responder[l]
      /\ subscribed.stage # "Receive" /\ subscribed.firstRun = responder[l].firstRun
      /\ DOMAIN subscribed = DOMAIN responder[l]
  BY DEF IInv, LinkOK, TaskOK
<1>3. /\ responder[l].stage # "Receive"
      /\ UNCHANGED <<outgoing, command, initiator, request, response, received>>
  BY DEF StoreSubscribes
<1> HIDE DEF updated, subscribed
<1> QED
  BY <1>1, <1>2, <1>3, TurnStep

\* Whatever a turn has found, it ends with a response or a subscription.
LEMMA RespondStep ==
  ASSUME IInv, NEW l \in Link, responder[l].stage # "Receive", NEW rs, NEW ops, Respond(l, rs, ops),
         UNCHANGED <<outgoing, command, initiator, request, received>>
  PROVE  IInv'
<1> DEFINE done == RoundDone(rs)
           r == [type |-> "Response", have |-> rs.sentHaves, operations |-> ops]
           after == [done EXCEPT !.stage = "Subscribe", !.firstRun = FALSE,
                       !.snapshot = rs.snapshot, !.tips = rs.tips, !.known = rs.known]
<1>1. TasksOK /\ LinkOK(l)
  BY DEF IInv
<1>2. Answering(l) /\ outgoing[l] = "Outstanding"
  BY <1>1 DEF LinkOK, Exchange, Idle, AtRest, Commanded, Requested, Answered, Delivered
<1>3. /\ {"stage", "snapshot", "tips", "known", "firstRun", "sentHaves"} \subseteq DOMAIN done
      /\ done.stage = "Receive" /\ done.firstRun = TRUE /\ done.sentHaves = rs.sentHaves
  BY DEF RoundDone, NewResponder
<1>4. r.type = "Response" /\ r.have = rs.sentHaves
  OBVIOUS
<1> HIDE DEF done, r
<1>5. CASE ops # <<>> \/ rs.sentHaves # <<>>
  <2>1. response' = [response EXCEPT ![l] = Append(@, r)] /\ responder' = [responder EXCEPT ![l] = done]
    BY <1>5 DEF Respond, done, r
  <2>2. Alone(l)
    BY <1>1, <2>1 DEF Alone, Same, TasksOK
  <2>3. responder'[l] = done /\ response'[l] = Append(response[l], r)
    BY <1>1, <2>1 DEF TasksOK
  <2>4. \/ initiator[l].stage = "Response" /\ response'[l] = <<WaitMsg, r>>
        \/ initiator[l].stage \in {"Response", "ResponseAfterWait"} /\ response'[l] = <<r>>
    BY <1>2, <2>3, ShortQueues DEF Answering
  <2>5. Answered(l)'
    BY <1>2, <1>3, <1>4, <2>3, <2>4 DEF Answering, Answered
  <2>6. LinkOK(l)'
    BY <1>1, <1>2, <1>3, <2>3, <2>5 DEF LinkOK, TaskOK, Exchange
  <2> QED
    BY <2>2, <2>6, AloneStep
<1>6. CASE ~(ops # <<>> \/ rs.sentHaves # <<>>)
  <2>1. /\ responder' = [responder EXCEPT ![l] = after]
        /\ response' = IF responder[l].firstRun
                       THEN [response EXCEPT ![l] = Append(@, WaitMsg)] ELSE response
    BY <1>6 DEF Respond, done, WaitMsg
  <2>2. /\ {"stage", "snapshot", "tips", "known", "firstRun", "sentHaves"} \subseteq DOMAIN after
        /\ after.stage = "Subscribe" /\ after.firstRun = FALSE
    BY <1>3
  <2> HIDE DEF after
  <2>3. Alone(l)
    BY <1>1, <2>1 DEF Alone, Same, TasksOK
  <2>4. responder'[l] = after
    BY <1>1, <2>1 DEF TasksOK
  <2>5. Answering(l)'
    <3>1. CASE responder[l].firstRun = TRUE
      <4>1. response[l] = <<>> /\ initiator[l].stage = "Response"
        BY <1>2, <3>1 DEF Answering
      <4>2. response'[l] = <<WaitMsg>>
        BY <1>1, <2>1, <3>1, <4>1, ShortQueues DEF TasksOK
      <4> QED
        BY <1>2, <2>2, <2>4, <4>1, <4>2 DEF Answering
    <3>2. CASE responder[l].firstRun = FALSE
      BY <1>2, <2>1, <2>2, <2>4, <3>2 DEF Answering
    <3> QED
      BY <1>2, <3>1, <3>2 DEF Answering
  <2>6. LinkOK(l)'
    BY <1>1, <1>2, <2>2, <2>4, <2>5 DEF LinkOK, TaskOK, Exchange
  <2> QED
    BY <2>3, <2>6, AloneStep
<1> QED
  BY <1>5, <1>6

\* A first or a further turn, with whatever was prepared in it.
LEMMA ResponderRunsStep ==
  ASSUME IInv, NEW l \in Link, ResponderRuns(l) \/ ResponderReruns(l)
  PROVE  IInv'
<1>1. PICK rs, ops : Respond(l, rs, ops)
  BY DEF ResponderRuns, ResponderReruns, Turn
<1>2. responder[l].stage # "Receive" /\ UNCHANGED <<outgoing, command, initiator, request, received>>
  BY DEF ResponderRuns, ResponderReruns
<1> QED
  BY <1>1, <1>2, RespondStep
-----------------------------------------------------------------------------
\* Each link carries one exchange in every run, in one stage of its way at a
\* time (run_server and run_client with the stores they talk to).
THEOREM SyncInvariant == Spec => []IInv
<1>1. Init => IInv
  BY DEF Init, NewResponder, IInv, TasksOK, LinkOK, TaskOK, Exchange, Idle, AtRest
<1>2. IInv /\ [Next]_vars => IInv'
  <2> SUFFICES ASSUME IInv, [Next]_vars PROVE IInv'
    OBVIOUS
  <2>1. ASSUME NEW l \in Link, TaskStep(l) PROVE IInv'
    BY <2>1, RegisterOutgoingStep, InitiatorRequestsStep, InitiatorWaitsStep, InitiatorReceivesStep,
      StoreReceivesStep, ResponderReceivesStep, StoreSharesStateStep, ResponderRunsStep, StoreSubscribesStep
      DEF TaskStep
  <2>2. ASSUME NEW h \in HeaderId, Apply(h) PROVE IInv'
    BY <2>2, ApplyStep
  <2>3. CASE UNCHANGED vars
    BY <2>3 DEF vars, IInv, TasksOK, LinkOK, TaskOK, Exchange, Idle, AtRest, Commanded, Requested,
      Answering, Answered, Delivered
  <2> QED
    BY <2>1, <2>2, <2>3 DEF Next
<1> QED
  BY <1>1, <1>2, PTL DEF Spec

(***************************************************************************)
(* A peer marked outstanding has one request in some stage of its way, any *)
(* other none, so a store never asks a peer while an answer of it is still *)
(* under way (send_sync_requests), and the bitmap of a request answers the *)
(* headers its responder proposed last (handle_their_known).               *)
(***************************************************************************)
THEOREM SyncOneRequestOutstanding == Spec => []OneRequestOutstanding
<1>1. IInv => OneRequestOutstanding
  <2> SUFFICES ASSUME IInv, NEW l \in Link
               PROVE  LET asked == Len(command[l]) + Len(received[l])
                                     + (IF initiator[l].stage = "Command" THEN 0 ELSE 1)
                          answering == responder[l].stage # "Receive"
                      IN  /\ asked = IF outgoing[l] = "Outstanding" THEN 1 ELSE 0
                          /\ (request[l] # <<>> \/ answering) => initiator[l].stage # "Command"
                          /\ initiator[l].stage = "Command" /\ initiator[l].started =>
                               initiator[l].have = responder[l].sentHaves
    BY DEF OneRequestOutstanding
  <2>1. Exchange(l)
    BY DEF IInv, LinkOK
  <2>2. /\ Len(<<>>) = 0
        /\ Single(command[l]) => Len(command[l]) = 1
        /\ Single(received[l]) => Len(received[l]) = 1
    BY ShortQueues DEF Single
  <2>3. CASE Idle(l)
    BY <2>2, <2>3 DEF Idle, AtRest
  <2>4. CASE outgoing[l] = "Outstanding" /\ Commanded(l)
    BY <2>2, <2>4 DEF Commanded, AtRest
  <2>5. CASE outgoing[l] = "Outstanding" /\ (Requested(l) \/ Answering(l) \/ Answered(l))
    <3>1. /\ initiator[l].stage # "Command" /\ outgoing[l] = "Outstanding"
          /\ command[l] = <<>> /\ received[l] = <<>>
      BY <2>5 DEF Requested, Answering, Answered
    <3> QED
      BY <2>2, <3>1
  <2>6. CASE outgoing[l] = "Outstanding" /\ Delivered(l)
    BY <2>2, <2>6 DEF Delivered, AtRest
  <2> QED
    BY <2>1, <2>3, <2>4, <2>5, <2>6 DEF Exchange
<1> QED
  BY <1>1, SyncInvariant, PTL
-----------------------------------------------------------------------------
(***************************************************************************)
(* A turn of the responder.  Its loops are recursive functions of their    *)
(* state; each is shown to end, and then what holds at its end.            *)
(***************************************************************************)
\* Queues, and what is in them.
LEMMA QueueFacts ==
  ASSUME NEW E, NEW q \in Queue(E)
  PROVE  /\ Held(q) \in SUBSET E /\ \A e \in E : q[e] \in Nat /\ (e \in Held(q) <=> q[e] > 0)
         /\ \A es : Push(q, es) \in Queue(E) /\ Held(Push(q, es)) = Held(q) \cup (es \cap E)
         /\ \A e \in Held(q) : Pop(q, e) \in Queue(E) /\ Held(Pop(q, e)) \subseteq Held(q)
         /\ \A e \in Held(q) : Held(q) \ {e} \subseteq Held(Pop(q, e))
<1>1. Held(q) \in SUBSET E /\ \A e \in E : q[e] \in Nat /\ (e \in Held(q) <=> q[e] > 0)
  BY DEF Queue, Held
<1>2. ASSUME NEW es PROVE Push(q, es) \in Queue(E) /\ Held(Push(q, es)) = Held(q) \cup (es \cap E)
  <2>1. Push(q, es) = [e \in E |-> IF e \in es THEN q[e] + 1 ELSE q[e]]
    BY DEF Push, Queue
  <2>2. \A e \in E : q[e] \in Nat
    BY DEF Queue
  <2>3. Push(q, es) \in Queue(E)
    BY <2>1, <2>2 DEF Queue
  <2>4. \A e \in E : Push(q, es)[e] > 0 <=> q[e] > 0 \/ e \in es
    BY <2>1, <2>2
  <2>5. DOMAIN q = E /\ DOMAIN Push(q, es) = E
    BY <2>1 DEF Queue
  <2> QED
    BY <2>3, <2>4, <2>5 DEF Held
<1>3. ASSUME NEW e \in Held(q)
      PROVE  /\ Pop(q, e) \in Queue(E) /\ Held(Pop(q, e)) \subseteq Held(q)
             /\ Held(q) \ {e} \subseteq Held(Pop(q, e))
  <2>1. e \in E /\ q[e] \in Nat /\ q[e] > 0
    BY DEF Queue, Held
  <2>2. Pop(q, e) = [q EXCEPT ![e] = q[e] - 1] /\ q[e] - 1 \in Nat
    BY <2>1 DEF Pop
  <2>3. Pop(q, e) \in Queue(E)
    BY <2>1, <2>2 DEF Queue
  <2>4. \A x \in E : Pop(q, e)[x] = IF x = e THEN q[e] - 1 ELSE q[x]
    BY <2>1, <2>2 DEF Queue
  <2>5. DOMAIN q = E /\ DOMAIN Pop(q, e) = E
    BY <2>3 DEF Queue
  <2>6. \A x \in E : (Pop(q, e)[x] > 0 => q[x] > 0) /\ (q[x] > 0 /\ x # e => Pop(q, e)[x] > 0)
    BY <2>1, <2>4
  <2> QED
    BY <2>3, <2>5, <2>6 DEF Held
<1> QED
  BY <1>1, <1>2, <1>3

LEMMA EmptyQueueFacts ==
  ASSUME NEW E
  PROVE  EmptyQueue(E) \in Queue(E) /\ Held(EmptyQueue(E)) = {}
BY DEF EmptyQueue, Queue, Held

\* How many copies of an element a queue holds after one is taken and some put in.
LEMMA PoppedThenPushed ==
  ASSUME NEW E, NEW q \in Queue(E), NEW taken \in Held(q), NEW es
  PROVE  \A e \in E : e \notin es =>
           /\ Push(Pop(q, taken), es)[e] = Pop(q, taken)[e]
           /\ Pop(q, taken)[e] <= q[e]
           /\ e = taken => Pop(q, taken)[e] < q[e]
<1>1. taken \in E /\ \A e \in E : q[e] \in Nat
  BY DEF Queue, Held
<1>2. \A e \in E : Pop(q, taken)[e] = IF e = taken THEN q[e] - 1 ELSE q[e]
  BY <1>1 DEF Pop, Queue
<1>3. DOMAIN Pop(q, taken) = E
  BY QueueFacts DEF Queue
<1>4. \A e \in E : e \notin es => Push(Pop(q, taken), es)[e] = Pop(q, taken)[e]
  BY <1>3 DEF Push
<1> QED
  BY <1>1, <1>2, <1>4

LEMMA ChildrenCounts ==
  ASSUME NEW q \in Queue(HeaderId), NEW graph \in SUBSET HeaderId, NEW hs \in SUBSET HeaderId
  PROVE  \E r : /\ r = ChildrenPushed(q, graph, hs) /\ r = [c \in HeaderId |-> r[c]]
                /\ \A c \in HeaderId :
                     /\ r[c] \in Nat
                     /\ r[c] > 0 <=> q[c] > 0 \/ (c \in graph /\ ParentIds[c] \cap hs # {})
                     /\ ParentIds[c] \cap hs = {} => r[c] = q[c]
<1> DEFINE r == ChildrenPushed(q, graph, hs)
<1>1. \A c \in HeaderId : /\ Cardinality(ParentIds[c] \cap hs) \in Nat
                          /\ Cardinality(ParentIds[c] \cap hs) = 0 <=> ParentIds[c] \cap hs = {}
  <2> SUFFICES ASSUME NEW c \in HeaderId
               PROVE  /\ Cardinality(ParentIds[c] \cap hs) \in Nat
                      /\ Cardinality(ParentIds[c] \cap hs) = 0 <=> ParentIds[c] \cap hs = {}
    OBVIOUS
  <2>1. ParentIds[c] \cap hs \in SUBSET HeaderId /\ IsFiniteSet(HeaderId)
    BY HeaderAssumption
  <2>2. IsFiniteSet(ParentIds[c] \cap hs)
    BY <2>1, FS_Subset
  <2> QED
    BY <2>2, FS_CardinalityType, FS_EmptySet
<1>2. \A c \in HeaderId : q[c] \in Nat
  BY DEF Queue
<1>3. /\ \A c \in HeaderId : r[c] = IF c \in graph THEN q[c] + Cardinality(ParentIds[c] \cap hs) ELSE q[c]
      /\ r = [c \in HeaderId |-> r[c]]
  BY DEF ChildrenPushed
<1> DEFINE n == [c \in HeaderId |-> Cardinality(ParentIds[c] \cap hs)]
<1>4. \A c \in HeaderId : n[c] \in Nat /\ (n[c] = 0 <=> ParentIds[c] \cap hs = {})
  BY <1>1
<1>5. \A c \in HeaderId : r[c] = IF c \in graph THEN q[c] + n[c] ELSE q[c]
  BY <1>3
<1> HIDE DEF r, n
<1>8. \A c \in HeaderId : ParentIds[c] \cap hs = {} => r[c] = q[c]
  BY <1>2, <1>4, <1>5
<1>9. \A c \in HeaderId : r[c] \in Nat /\ (r[c] > 0 <=> q[c] > 0 \/ (c \in graph /\ ParentIds[c] \cap hs # {}))
  BY <1>2, <1>4, <1>5
<1>10. \E x : /\ x = r /\ x = [c \in HeaderId |-> x[c]]
             /\ \A c \in HeaderId :
                  /\ x[c] \in Nat
                  /\ x[c] > 0 <=> q[c] > 0 \/ (c \in graph /\ ParentIds[c] \cap hs # {})
                  /\ ParentIds[c] \cap hs = {} => x[c] = q[c]
  BY <1>3, <1>8, <1>9
<1> QED
  BY <1>10 DEF r

LEMMA ChildrenQueue ==
  ASSUME NEW q \in Queue(HeaderId), NEW graph \in SUBSET HeaderId, NEW hs \in SUBSET HeaderId
  PROVE  ChildrenPushed(q, graph, hs) \in Queue(HeaderId)
<1>1. PICK r : /\ r = ChildrenPushed(q, graph, hs) /\ r = [c \in HeaderId |-> r[c]]
               /\ \A c \in HeaderId : r[c] \in Nat
  BY ChildrenCounts
<1>2. r \in Queue(HeaderId)
  BY <1>1 DEF Queue
<1> QED
  BY <1>1, <1>2

LEMMA ChildrenHeld ==
  ASSUME NEW q \in Queue(HeaderId), NEW graph \in SUBSET HeaderId, NEW hs \in SUBSET HeaderId
  PROVE  \A c : c \in Held(ChildrenPushed(q, graph, hs)) <=>
                  c \in Held(q) \/ (c \in graph /\ ParentIds[c] \cap hs # {})
<1>1. PICK r : /\ r = ChildrenPushed(q, graph, hs) /\ r = [c \in HeaderId |-> r[c]]
               /\ \A c \in HeaderId :
                    r[c] > 0 <=> q[c] > 0 \/ (c \in graph /\ ParentIds[c] \cap hs # {})
  BY ChildrenCounts
<1>2. DOMAIN q = HeaderId /\ DOMAIN r = HeaderId
  BY <1>1 DEF Queue
<1>3. \A c : c \in Held(r) <=> c \in Held(q) \/ (c \in graph /\ ParentIds[c] \cap hs # {})
  BY <1>1, <1>2 DEF Held
<1> QED
  BY <1>1, <1>3

LEMMA ChildrenElse ==
  ASSUME NEW q \in Queue(HeaderId), NEW graph \in SUBSET HeaderId, NEW hs \in SUBSET HeaderId,
         NEW c \in HeaderId, ParentIds[c] \cap hs = {}
  PROVE  ChildrenPushed(q, graph, hs)[c] = q[c]
<1>1. PICK r : /\ r = ChildrenPushed(q, graph, hs)
               /\ \A x \in HeaderId : ParentIds[x] \cap hs = {} => r[x] = q[x]
  BY ChildrenCounts
<1> QED
  BY <1>1
-----------------------------------------------------------------------------
\* mark_as_known_helper is a loop, and it ends: the queue runs dry.
MarkDone == {s \in MarkState : Held(s.queue) = {}}
MarkStep == [s \in MarkState |-> IF s \in MarkDone THEN s ELSE MarkNext(s)]

LEMMA MarkNextFacts ==
  ASSUME NEW s \in MarkState, s \notin MarkDone
  PROVE  \E h \in Held(s.queue) :
           /\ MarkNext(s) \in MarkState
           /\ MarkNext(s).known = s.known \cup {h}
           /\ \/ h \in s.known /\ MarkNext(s).queue = Push(Pop(s.queue, h), ParentIds[h])
              \/ h \notin s.known /\ MarkNext(s).queue = Pop(s.queue, h)
           /\ h = CHOOSE x \in Held(s.queue) : TRUE
<1> DEFINE h == CHOOSE x \in Held(s.queue) : TRUE
<1>1. s.queue \in Queue(HeaderId) /\ s.known \in SUBSET HeaderId /\ Held(s.queue) # {}
  BY DEF MarkState, MarkDone
<1>2. h \in Held(s.queue) /\ h \in HeaderId
  BY <1>1, QueueFacts
<1>3. Pop(s.queue, h) \in Queue(HeaderId)
  BY <1>1, <1>2, QueueFacts
<1>4. Push(Pop(s.queue, h), ParentIds[h]) \in Queue(HeaderId)
  BY <1>3, QueueFacts
<1>5. MarkNext(s) = IF h \in s.known
                    THEN [s EXCEPT !.queue = Push(Pop(s.queue, h), ParentIds[h])]
                    ELSE [known |-> s.known \cup {h}, queue |-> Pop(s.queue, h)]
  BY DEF MarkNext, MarkState
<1> HIDE DEF h
<1> SUFFICES /\ MarkNext(s) \in MarkState
             /\ MarkNext(s).known = s.known \cup {h}
             /\ \/ h \in s.known /\ MarkNext(s).queue = Push(Pop(s.queue, h), ParentIds[h])
                \/ h \notin s.known /\ MarkNext(s).queue = Pop(s.queue, h)
  BY <1>2 DEF h
<1> QED
  BY <1>1, <1>2, <1>3, <1>4, <1>5 DEF MarkState

LEMMA MarkIsLoop == MarkStep \in [MarkState -> MarkState] /\ IsLoop(Mark, MarkState, MarkDone, MarkStep)
<1>1. MarkStep \in [MarkState -> MarkState]
  BY MarkNextFacts DEF MarkStep
<1>2. PICK f : IsLoop(f, MarkState, MarkDone, MarkStep)
  BY <1>1, LoopIsDefined
<1>3. \A g : [s \in MarkState |-> IF s \in MarkDone THEN s ELSE g[MarkStep[s]]]
             = [s \in MarkState |-> IF Held(s.queue) = {} THEN s ELSE g[MarkNext(s)]]
  BY DEF MarkStep, MarkDone
<1>4. \E g : g = [s \in MarkState |-> IF Held(s.queue) = {} THEN s ELSE g[MarkNext(s)]]
  BY <1>2, <1>3 DEF IsLoop
<1>5. Mark = [s \in MarkState |-> IF Held(s.queue) = {} THEN s ELSE Mark[MarkNext(s)]]
  BY <1>4 DEF Mark
<1>6. Mark = [s \in MarkState |-> IF s \in MarkDone THEN s ELSE Mark[MarkStep[s]]]
  BY <1>3, <1>5
<1> QED
  BY <1>1, <1>6 DEF IsLoop

LEMMA MarkEnds == ASSUME NEW P \in SUBSET MarkState PROVE LoopEndsIn(P, MarkDone, MarkStep)
<1> SUFFICES ASSUME NEW run \in [Nat -> P],
                    \A n \in Nat : run[n] \notin MarkDone /\ run[n + 1] = MarkStep[run[n]]
             PROVE  FALSE
  BY DEF LoopEndsIn
<1> DEFINE q == [n \in Nat |-> run[n].queue]
           taken == [n \in Nat |-> CHOOSE x \in Held(run[n].queue) : TRUE]
<1>1. \A n \in Nat : /\ run[n] \in MarkState /\ run[n] \notin MarkDone
                     /\ run[n + 1] = MarkNext(run[n])
  BY DEF MarkStep
<1>2. ASSUME NEW n \in Nat
      PROVE  /\ q[n] \in Queue(HeaderId) /\ taken[n] \in Held(q[n])
             /\ \/ q[n + 1] = Push(Pop(q[n], taken[n]), ParentIds[taken[n]])
                \/ q[n + 1] = Pop(q[n], taken[n])
  <2>1. run[n].queue \in Queue(HeaderId)
    BY <1>1 DEF MarkState
  <2>2. PICK h \in Held(run[n].queue) :
          /\ \/ run[n + 1].queue = Push(Pop(run[n].queue, h), ParentIds[h])
             \/ run[n + 1].queue = Pop(run[n].queue, h)
          /\ h = CHOOSE x \in Held(run[n].queue) : TRUE
    BY <1>1, MarkNextFacts
  <2> QED
    BY <2>1, <2>2
<1> HIDE DEF q, taken
<1>3. q \in [Nat -> [HeaderId -> Nat]] /\ taken \in [Nat -> HeaderId]
  <2>1. \A n \in Nat : q[n] \in [HeaderId -> Nat] /\ taken[n] \in HeaderId
    BY <1>2, QueueFacts DEF Queue
  <2> QED
    BY <2>1 DEF q, taken
<1>4. TakesAndSpawns(HeaderId, ParentsOf, q, taken)
  <2> SUFFICES ASSUME NEW n \in Nat, NEW e \in HeaderId, e \notin ParentsOf[taken[n]]
               PROVE  q[n + 1][e] <= q[n][e] /\ (e = taken[n] => q[n + 1][e] < q[n][e])
    BY DEF TakesAndSpawns
  <2>1. e \notin ParentIds[taken[n]]
    BY <1>3 DEF ParentsOf
  <2>2. /\ Push(Pop(q[n], taken[n]), ParentIds[taken[n]])[e] = Pop(q[n], taken[n])[e]
        /\ Pop(q[n], taken[n])[e] <= q[n][e]
        /\ e = taken[n] => Pop(q[n], taken[n])[e] < q[n][e]
    BY <1>2, <2>1, PoppedThenPushed
  <2> QED
    BY <1>2, <2>2
<1> QED
  BY <1>3, <1>4, HeaderAssumption, GraphIsAcyclic, QueueRunsDry

\* What is marked: at least what it is called for, at most what a closed set
\* with that and what was known has.
LEMMA MarkedFacts ==
  ASSUME NEW known \in SUBSET HeaderId, NEW hs \in SUBSET HeaderId
  PROVE  /\ Marked(known, hs) \in SUBSET HeaderId
         /\ known \cup hs \subseteq Marked(known, hs)
         /\ \A G \in SUBSET HeaderId :
              ParentClosed(G) /\ known \cup hs \subseteq G => Marked(known, hs) \subseteq G
<1> DEFINE start == [known |-> known, queue |-> Push(EmptyQueue(HeaderId), hs)]
           P(G) == {s \in MarkState : /\ known \subseteq s.known /\ hs \subseteq s.known \cup Held(s.queue)
                                      /\ s.known \cup Held(s.queue) \subseteq G}
<1>1. start \in MarkState /\ start.known = known /\ Held(start.queue) = hs
  <2>1. EmptyQueue(HeaderId) \in Queue(HeaderId) /\ Held(EmptyQueue(HeaderId)) = {}
    BY EmptyQueueFacts
  <2>2. /\ Push(EmptyQueue(HeaderId), hs) \in Queue(HeaderId)
        /\ Held(Push(EmptyQueue(HeaderId), hs)) = Held(EmptyQueue(HeaderId)) \cup (hs \cap HeaderId)
    BY <2>1, QueueFacts
  <2> QED
    BY <2>1, <2>2 DEF MarkState
<1>2. Marked(known, hs) = Mark[start].known
  BY DEF Marked
<1> HIDE DEF start
<1>3. ASSUME NEW G \in SUBSET HeaderId, ParentClosed(G), known \cup hs \subseteq G
      PROVE  /\ Mark[start] \in MarkState /\ known \cup hs \subseteq Mark[start].known
             /\ Mark[start].known \subseteq G
  <2>1. start \in P(G) /\ P(G) \in SUBSET MarkState
    BY <1>1, <1>3
  <2>2. ASSUME NEW s \in P(G), s \notin MarkDone PROVE MarkStep[s] \in P(G)
    <3>1. s \in MarkState /\ MarkStep[s] = MarkNext(s) /\ s.queue \in Queue(HeaderId)
      BY <2>2 DEF MarkStep, MarkState
    <3>2. PICK h \in Held(s.queue) :
            /\ MarkNext(s) \in MarkState
            /\ MarkNext(s).known = s.known \cup {h}
            /\ \/ h \in s.known /\ MarkNext(s).queue = Push(Pop(s.queue, h), ParentIds[h])
               \/ h \notin s.known /\ MarkNext(s).queue = Pop(s.queue, h)
      BY <2>2, <3>1, MarkNextFacts
    <3>3. /\ Pop(s.queue, h) \in Queue(HeaderId)
          /\ Held(s.queue) \ {h} \subseteq Held(Pop(s.queue, h))
          /\ Held(Pop(s.queue, h)) \subseteq Held(s.queue)
      BY <3>1, QueueFacts
    <3>4. Held(Push(Pop(s.queue, h), ParentIds[h])) = Held(Pop(s.queue, h)) \cup (ParentIds[h] \cap HeaderId)
      BY <3>3, QueueFacts
    <3>5. h \in G /\ ParentIds[h] \subseteq G
      BY <1>3, <2>2 DEF ParentClosed
    <3>6. /\ Held(s.queue) \ {h} \subseteq Held(MarkNext(s).queue)
          /\ Held(MarkNext(s).queue) \subseteq G
      BY <2>2, <3>2, <3>3, <3>4, <3>5
    <3> QED
      BY <2>2, <3>1, <3>2, <3>5, <3>6
  <2>3. Mark[start] \in P(G) /\ Mark[start] \in MarkDone
    <3> HIDE DEF P
    <3> QED
      BY <2>1, <2>2, MarkIsLoop, MarkEnds, LoopResult
  <2> QED
    BY <2>3 DEF MarkDone
<1>4. HeaderId \in SUBSET HeaderId /\ ParentClosed(HeaderId)
  BY HeaderAssumption DEF ParentClosed
<1> QED
  BY <1>2, <1>3, <1>4 DEF MarkState
-----------------------------------------------------------------------------
\* Finitely many numbers have a greatest and a least.
LEMMA GreatestValue ==
  ASSUME NEW E, IsFiniteSet(E), E # {}, NEW f \in [E -> Nat]
  PROVE  \E e \in E : \A x \in E : f[x] <= f[e]
<1>1. PICK B \in Nat : \A e \in E : f[e] <= B
  BY CommonBound
<1> DEFINE N == {B - f[e] : e \in E}
<1>2. N \in SUBSET Nat /\ N # {}
  <2>1. \A e \in E : B - f[e] \in Nat
    BY <1>1
  <2> QED
    BY <2>1
<1>3. PICK n \in N : \A m \in N : n <= m
  <2> HIDE DEF N
  <2> QED
    BY <1>2, LeastIsMember
<1>4. PICK e \in E : n = B - f[e]
  OBVIOUS
<1>5. \A x \in E : B - f[e] <= B - f[x]
  BY <1>3, <1>4
<1>6. \A x \in E : f[x] \in Nat
  OBVIOUS
<1>7. \A x \in E : f[x] <= f[e]
  BY <1>1, <1>5, <1>6
<1> QED
  BY <1>7

LEMMA LeastValue ==
  ASSUME NEW E, E # {}, NEW f \in [E -> Nat]
  PROVE  \E e \in E : \A x \in E : f[e] <= f[x]
<1> DEFINE N == {f[e] : e \in E}
<1>1. N \in SUBSET Nat /\ N # {}
  OBVIOUS
<1>2. PICK n \in N : \A m \in N : n <= m
  <2> HIDE DEF N
  <2> QED
    BY <1>1, LeastIsMember
<1> QED
  BY <1>2
-----------------------------------------------------------------------------
\* What leaves send_queue is in it.
LEMMA NextToSendFacts ==
  ASSUME NEW q \in Queue(HeaderId), Held(q) # {}
  PROVE  NextToSend(q) \in Held(q)
<1>1. Held(q) \in SUBSET HeaderId /\ HeaderId \subseteq Nat /\ IsFiniteSet(HeaderId)
  BY QueueFacts, HeaderAssumption
<1>2. \A h \in Held(q) : Depth[h] \in Nat /\ h \in Nat
  BY <1>1, DepthType
<1> DEFINE f == [h \in Held(q) |-> Depth[h]]
<1>3. PICK a \in Held(q) : \A x \in Held(q) : Depth[a] <= Depth[x]
  <2>1. f \in [Held(q) -> Nat]
    BY <1>2
  <2> HIDE DEF f
  <2>2. PICK a \in Held(q) : \A x \in Held(q) : f[a] <= f[x]
    BY <2>1, LeastValue
  <2> QED
    BY <2>2 DEF f
<1> DEFINE D == {h \in Held(q) : Depth[h] = Depth[a]}
           g == [h \in D |-> h]
<1>4. PICK b \in D : \A x \in D : x <= b
  <2>1. g \in [D -> Nat] /\ D \subseteq HeaderId /\ D # {}
    BY <1>1, <1>2
  <2>2. IsFiniteSet(D)
    <3> HIDE DEF D
    <3> QED
      BY <1>1, <2>1, FS_Subset
  <2> HIDE DEF g
  <2>3. PICK b \in D : \A x \in D : g[x] <= g[b]
    <3> HIDE DEF D
    <3> QED
      BY <2>1, <2>2, GreatestValue
  <2> QED
    BY <2>3 DEF g
<1>5. \A k \in Held(q) : Depth[b] < Depth[k] \/ (Depth[b] = Depth[k] /\ k <= b)
  BY <1>2, <1>3, <1>4
<1>6. \E h \in Held(q) : \A k \in Held(q) : Depth[h] < Depth[k] \/ (Depth[h] = Depth[k] /\ k <= h)
  BY <1>4, <1>5
<1> QED
  BY <1>6 DEF NextToSend

\* What leaves haves_queue is in it.
LEMMA NextToProposeFacts ==
  ASSUME NEW q \in Queue(HaveEntry), Held(q) # {}
  PROVE  NextToPropose(q) \in Held(q)
<1>1. Held(q) \in SUBSET HaveEntry /\ HeaderId \subseteq Nat /\ IsFiniteSet(HeaderId)
  BY QueueFacts, HeaderAssumption
<1>2. Cardinality(HeaderId) \in Nat
  BY <1>1, FS_CardinalityType
<1>3. \A a \in Held(q) : a[1] \in Nat /\ a[2] \in Nat /\ Depth[a[1]] \in Nat
  <2>1. \A a \in HaveEntry : a[1] \in HeaderId /\ a[2] \in 0 .. Cardinality(HeaderId)
    BY DEF HaveEntry
  <2>2. \A a \in Held(q) : a[1] \in HeaderId /\ a[2] \in Nat
    BY <1>1, <1>2, <2>1
  <2> QED
    BY <1>1, <2>2, DepthType
<1>4. IsFiniteSet(Held(q))
  <2>1. IsFiniteSet(0 .. Cardinality(HeaderId))
    BY <1>2, FS_Interval
  <2>2. IsFiniteSet(HaveEntry)
    BY <1>1, <2>1, FS_Product DEF HaveEntry
  <2> QED
    BY <1>1, <2>2, FS_Subset
<1> DEFINE Tips == {a \in Held(q) : a[2] = 0}
           A == IF Tips = {} THEN Held(q) ELSE Tips
           fA == [a \in A |-> Depth[a[1]]]
<1>5. A \subseteq Held(q) /\ A # {} /\ IsFiniteSet(A) /\ fA \in [A -> Nat]
  <2>1. A \subseteq Held(q) /\ A # {} /\ fA \in [A -> Nat]
    BY <1>3
  <2> HIDE DEF A
  <2> QED
    BY <1>4, <2>1, FS_Subset
<1>6. PICK a \in A : \A x \in A : Depth[x[1]] <= Depth[a[1]]
  <2> HIDE DEF A, fA
  <2>1. PICK a \in A : \A x \in A : fA[x] <= fA[a]
    BY <1>5, GreatestValue
  <2> QED
    BY <2>1 DEF fA
<1> DEFINE B == {x \in A : Depth[x[1]] = Depth[a[1]]}
           fB == [x \in B |-> x[1]]
<1>7. B \subseteq A /\ B # {} /\ IsFiniteSet(B) /\ fB \in [B -> Nat]
  <2> HIDE DEF A
  <2>1. B \subseteq A /\ B # {} /\ fB \in [B -> Nat]
    BY <1>3, <1>5
  <2> HIDE DEF B
  <2> QED
    BY <1>5, <2>1, FS_Subset
<1>8. PICK b \in B : \A x \in B : x[1] <= b[1]
  <2> HIDE DEF B, fB
  <2>1. PICK b \in B : \A x \in B : fB[x] <= fB[b]
    BY <1>7, GreatestValue
  <2> QED
    BY <2>1 DEF fB
<1> DEFINE D == {x \in B : x[1] = b[1]}
           fD == [x \in D |-> x[2]]
<1>9. D \subseteq B /\ D # {} /\ IsFiniteSet(D) /\ fD \in [D -> Nat]
  <2> HIDE DEF A, B
  <2>1. D \subseteq B /\ D # {} /\ fD \in [D -> Nat]
    BY <1>3, <1>5, <1>7
  <2> HIDE DEF D
  <2> QED
    BY <1>7, <2>1, FS_Subset
<1>10. PICK c \in D : \A x \in D : x[2] <= c[2]
  <2> HIDE DEF D, fD
  <2>1. PICK c \in D : \A x \in D : fD[x] <= fD[c]
    BY <1>9, GreatestValue
  <2> QED
    BY <2>1 DEF fD
<1> HIDE DEF fA, fB, fD
<1>11. ASSUME NEW x \in Held(q) PROVE NotAfter(c, x)
  <2>1. /\ c \in Held(q) /\ c \in A /\ Depth[c[1]] = Depth[a[1]] /\ c[1] = b[1]
        /\ (c[2] = 0) # (x[2] = 0) => c[2] = 0
    BY <1>5, <1>7, <1>9, <1>11
  <2>2. CASE (c[2] = 0) # (x[2] = 0)
    BY <2>1, <2>2 DEF NotAfter
  <2>3. CASE (c[2] = 0) = (x[2] = 0)
    <3>1. x \in A
      BY <1>11, <2>1, <2>3
    <3>2. Depth[x[1]] <= Depth[c[1]]
      BY <1>6, <2>1, <3>1
    <3>3. Depth[x[1]] = Depth[c[1]] => x \in B
      BY <2>1, <3>1
    <3>4. Depth[x[1]] = Depth[c[1]] => x[1] <= c[1]
      BY <1>8, <2>1, <3>3
    <3>5. Depth[x[1]] = Depth[c[1]] /\ x[1] = c[1] => x[2] <= c[2]
      BY <1>10, <2>1, <3>3
    <3>6. /\ Depth[x[1]] \in Nat /\ Depth[c[1]] \in Nat
          /\ x[1] \in Nat /\ c[1] \in Nat /\ x[2] \in Nat /\ c[2] \in Nat
      BY <1>3, <1>11, <2>1
    <3> HIDE DEF A, B, D
    <3> QED
      BY <2>3, <3>2, <3>4, <3>5, <3>6 DEF NotAfter
  <2> QED
    BY <2>2, <2>3
<1>12. \E e \in Held(q) : \A x \in Held(q) : NotAfter(e, x)
  <2>1. c \in Held(q)
    BY <1>5, <1>7, <1>9
  <2> QED
    BY <1>11, <2>1
<1> QED
  BY <1>12 DEF NextToPropose
-----------------------------------------------------------------------------
\* A header that was not known is marked, and nothing else.
LEMMA MarkedNew ==
  ASSUME NEW known \in SUBSET HeaderId, NEW h \in HeaderId, h \notin known
  PROVE  Marked(known, {h}) = known \cup {h}
<1> DEFINE start == [known |-> known, queue |-> Push(EmptyQueue(HeaderId), {h})]
<1>1. /\ EmptyQueue(HeaderId) \in Queue(HeaderId) /\ Held(EmptyQueue(HeaderId)) = {}
      /\ start.queue \in Queue(HeaderId) /\ Held(start.queue) = {h}
  BY EmptyQueueFacts, QueueFacts
<1>2. start \in MarkState /\ start.known = known /\ Held(start.queue) = {h} /\ start.queue[h] = 1
  BY <1>1 DEF MarkState, Push, EmptyQueue
<1>3. Marked(known, {h}) = Mark[start].known
  BY DEF Marked
<1> HIDE DEF start
<1>4. PICK x \in Held(start.queue) :
        /\ MarkNext(start) \in MarkState /\ MarkNext(start).known = start.known \cup {x}
        /\ \/ x \in start.known
           \/ x \notin start.known /\ MarkNext(start).queue = Pop(start.queue, x)
  BY <1>2, MarkNextFacts DEF MarkDone
<1>5. x = h /\ MarkNext(start).queue = Pop(start.queue, h) /\ MarkNext(start).known = known \cup {h}
  BY <1>2, <1>4
<1>6. Held(Pop(start.queue, h)) = {}
  <2>1. Pop(start.queue, h)[h] = 0
    BY <1>2 DEF Pop, MarkState, Queue
  <2>2. Held(Pop(start.queue, h)) \subseteq {h}
    BY <1>2, QueueFacts DEF MarkState
  <2> QED
    BY <2>1, <2>2 DEF Held
<1>7. MarkNext(start) \in MarkDone /\ start \notin MarkDone /\ MarkStep[start] = MarkNext(start)
  BY <1>2, <1>4, <1>5, <1>6 DEF MarkDone, MarkStep
<1>8. Mark[start] = MarkNext(start)
  <2>1. \A s \in MarkState : Mark[s] = IF s \in MarkDone THEN s ELSE Mark[MarkStep[s]]
    BY MarkIsLoop DEF IsLoop
  <2> QED
    BY <1>2, <1>4, <1>7, <2>1
<1> QED
  BY <1>3, <1>5, <1>8
-----------------------------------------------------------------------------
\* prepare_operations is a loop, and it ends.
SendDone == {s \in SendState : Held(s.queue) = {} \/ Len(s.ops) = MaxDeliver}
SendStep == [s \in SendState |-> IF s \in SendDone THEN s ELSE SendNext(s)]

LEMMA SendNextFacts ==
  ASSUME NEW s \in SendState, s \notin SendDone
  PROVE  \E h \in Held(s.queue) :
           /\ h \in HeaderId /\ SendNext(s) \in SendState
           /\ SendNext(s).graph = s.graph /\ SendNext(s).unknown = s.unknown
           /\ SendNext(s).queue = ChildrenPushed(Pop(s.queue, h), s.graph, {h})
           /\ \/ /\ h \in s.known \cup s.unknown
                 /\ SendNext(s).known = s.known /\ SendNext(s).ops = s.ops
              \/ /\ h \notin s.known \cup s.unknown
                 /\ SendNext(s).known = s.known \cup {h} /\ SendNext(s).ops = Append(s.ops, h)
           /\ h = NextToSend(s.queue)
<1> DEFINE h == NextToSend(s.queue)
           queue == ChildrenPushed(Pop(s.queue, h), s.graph, {h})
<1>1. /\ s.queue \in Queue(HeaderId) /\ s.known \in SUBSET HeaderId /\ s.unknown \in SUBSET HeaderId
      /\ s.graph \in SUBSET HeaderId /\ s.ops \in Seq(HeaderId) /\ Held(s.queue) # {}
  BY DEF SendState, SendDone
<1>2. h \in Held(s.queue) /\ h \in HeaderId
  BY <1>1, NextToSendFacts, QueueFacts
<1>3. queue \in Queue(HeaderId)
  <2>1. Pop(s.queue, h) \in Queue(HeaderId)
    BY <1>1, <1>2, QueueFacts
  <2> QED
    BY <1>1, <1>2, <2>1, ChildrenQueue
<1>4. SendNext(s) = LET next == [s EXCEPT !.queue = queue]
                    IN  IF h \in s.known \cup s.unknown THEN next
                        ELSE [next EXCEPT !.known = Marked(@, {h}), !.ops = Append(@, h)]
  BY DEF SendNext, TheyKnow, SendState
<1> HIDE DEF h, queue
<1>5. CASE h \in s.known \cup s.unknown
  <2>1. SendNext(s) = [s EXCEPT !.queue = queue]
    BY <1>4, <1>5
  <2>2. /\ SendNext(s) \in SendState /\ SendNext(s).graph = s.graph /\ SendNext(s).unknown = s.unknown
        /\ SendNext(s).queue = queue /\ SendNext(s).known = s.known /\ SendNext(s).ops = s.ops
    BY <1>1, <1>3, <2>1 DEF SendState
  <2> QED
    BY <1>2, <1>5, <2>2 DEF h, queue
<1>6. CASE h \notin s.known \cup s.unknown
  <2>1. Marked(s.known, {h}) = s.known \cup {h}
    BY <1>1, <1>2, <1>6, MarkedNew
  <2>2. Append(s.ops, h) \in Seq(HeaderId)
    BY <1>1, <1>2
  <2>3. SendNext(s) = [s EXCEPT !.queue = queue, !.known = s.known \cup {h}, !.ops = Append(s.ops, h)]
    BY <1>4, <1>6, <2>1 DEF SendState
  <2>4. /\ SendNext(s) \in SendState /\ SendNext(s).graph = s.graph /\ SendNext(s).unknown = s.unknown
        /\ SendNext(s).queue = queue /\ SendNext(s).known = s.known \cup {h}
        /\ SendNext(s).ops = Append(s.ops, h)
    BY <1>1, <1>2, <1>3, <2>2, <2>3 DEF SendState
  <2> QED
    BY <1>2, <1>6, <2>4 DEF h, queue
<1> QED
  BY <1>5, <1>6

LEMMA SendIsLoop == SendStep \in [SendState -> SendState] /\ IsLoop(Send, SendState, SendDone, SendStep)
<1>1. SendStep \in [SendState -> SendState]
  BY SendNextFacts DEF SendStep
<1>2. PICK f : IsLoop(f, SendState, SendDone, SendStep)
  BY <1>1, LoopIsDefined
<1>3. \A g : [s \in SendState |-> IF s \in SendDone THEN s ELSE g[SendStep[s]]]
             = [s \in SendState |-> IF Held(s.queue) = {} \/ Len(s.ops) = MaxDeliver THEN s ELSE g[SendNext(s)]]
  BY DEF SendStep, SendDone
<1>4. \E g : g = [s \in SendState |-> IF Held(s.queue) = {} \/ Len(s.ops) = MaxDeliver THEN s ELSE g[SendNext(s)]]
  <2>1. f = [s \in SendState |-> IF s \in SendDone THEN s ELSE f[SendStep[s]]]
    BY <1>2 DEF IsLoop
  <2>2. f = [s \in SendState |-> IF Held(s.queue) = {} \/ Len(s.ops) = MaxDeliver THEN s ELSE f[SendNext(s)]]
    BY <1>3, <2>1
  <2> QED
    BY <2>2
<1>5. Send = [s \in SendState |-> IF Held(s.queue) = {} \/ Len(s.ops) = MaxDeliver THEN s ELSE Send[SendNext(s)]]
  BY <1>4 DEF Send
<1>6. Send = [s \in SendState |-> IF s \in SendDone THEN s ELSE Send[SendStep[s]]]
  BY <1>3, <1>5
<1> QED
  BY <1>1, <1>6 DEF IsLoop

LEMMA SendEnds == ASSUME NEW P \in SUBSET SendState PROVE LoopEndsIn(P, SendDone, SendStep)
<1> SUFFICES ASSUME NEW run \in [Nat -> P],
                    \A n \in Nat : run[n] \notin SendDone /\ run[n + 1] = SendStep[run[n]]
             PROVE  FALSE
  BY DEF LoopEndsIn
<1> DEFINE q == [n \in Nat |-> run[n].queue]
           taken == [n \in Nat |-> NextToSend(run[n].queue)]
<1>1. \A n \in Nat : /\ run[n] \in SendState /\ run[n] \notin SendDone
                     /\ run[n + 1] = SendNext(run[n])
  BY DEF SendStep
<1>2. ASSUME NEW n \in Nat
      PROVE  /\ q[n] \in Queue(HeaderId) /\ taken[n] \in Held(q[n])
             /\ q[n + 1] = ChildrenPushed(Pop(q[n], taken[n]), run[n].graph, {taken[n]})
  <2>1. run[n].queue \in Queue(HeaderId)
    BY <1>1 DEF SendState
  <2>2. PICK h \in Held(run[n].queue) :
          /\ run[n + 1].queue = ChildrenPushed(Pop(run[n].queue, h), run[n].graph, {h})
          /\ h = NextToSend(run[n].queue)
    BY <1>1, SendNextFacts
  <2> QED
    BY <2>1, <2>2
<1> HIDE DEF q, taken
<1>3. q \in [Nat -> [HeaderId -> Nat]] /\ taken \in [Nat -> HeaderId]
  <2>1. \A n \in Nat : q[n] \in [HeaderId -> Nat] /\ taken[n] \in HeaderId
    BY <1>2, QueueFacts DEF Queue
  <2> QED
    BY <2>1 DEF q, taken
<1>4. TakesAndSpawns(HeaderId, ChildrenOf, q, taken)
  <2> SUFFICES ASSUME NEW n \in Nat, NEW e \in HeaderId, e \notin ChildrenOf[taken[n]]
               PROVE  q[n + 1][e] <= q[n][e] /\ (e = taken[n] => q[n + 1][e] < q[n][e])
    BY DEF TakesAndSpawns
  <2>1. ParentIds[e] \cap {taken[n]} = {}
    BY <1>3 DEF ChildrenOf
  <2>2. /\ Pop(q[n], taken[n])[e] <= q[n][e]
        /\ e = taken[n] => Pop(q[n], taken[n])[e] < q[n][e]
    <3>1. e \notin {}
      OBVIOUS
    <3> QED
      BY <1>2, <3>1, PoppedThenPushed
  <2>3. Pop(q[n], taken[n]) \in Queue(HeaderId) /\ run[n].graph \in SUBSET HeaderId /\ {taken[n]} \in SUBSET HeaderId
    <3>1. Pop(q[n], taken[n]) \in Queue(HeaderId)
      BY <1>2, QueueFacts
    <3>2. run[n].graph \in SUBSET HeaderId
      BY <1>1 DEF SendState
    <3>3. {taken[n]} \in SUBSET HeaderId
      <4>1. taken[n] \in HeaderId
        BY <1>3
      <4> QED
        BY <4>1, Zenon
    <3> QED
      BY <3>1, <3>2, <3>3, Zenon
  <2>4. ChildrenPushed(Pop(q[n], taken[n]), run[n].graph, {taken[n]})[e] = Pop(q[n], taken[n])[e]
    <3> DEFINE rest == Pop(q[n], taken[n])
               graph == run[n].graph
               hs == {taken[n]}
    <3>1. rest \in Queue(HeaderId) /\ graph \in SUBSET HeaderId /\ hs \in SUBSET HeaderId
      BY <2>3
    <3>2. ParentIds[e] \cap hs = {}
      BY <2>1
    <3> HIDE DEF rest, graph, hs
    <3>3. ChildrenPushed(rest, graph, hs)[e] = rest[e]
      BY <3>1, <3>2, ChildrenElse
    <3> QED
      BY <3>3 DEF rest, graph, hs
  <2> QED
    BY <1>2, <2>2, <2>4
<1> QED
  <2>1. IsFiniteSet(HeaderId) /\ ChildrenOf \in [HeaderId -> SUBSET HeaderId]
    BY HeaderAssumption DEF ChildrenOf
  <2> QED
    BY <1>3, <1>4, <2>1, GraphIsAcyclic, QueueRunsDry
-----------------------------------------------------------------------------
\* Operations in an order in which a replica that has S can take them.
InOrder(S, ops) ==
  \A k \in DOMAIN ops : ParentIds[ops[k]] \subseteq S \cup {ops[j] : j \in 1 .. k - 1}

\* A header has one parent at most.
Forest == \A h \in HeaderId : \A p, q \in ParentIds[h] : p = q

LEMMA AppendFacts ==
  ASSUME NEW ops \in Seq(HeaderId), NEW h \in HeaderId
  PROVE  /\ SeqToSet(ops) \in SUBSET HeaderId
         /\ SeqToSet(Append(ops, h)) = SeqToSet(ops) \cup {h}
         /\ \A S : InOrder(S, ops) /\ ParentIds[h] \subseteq S \cup SeqToSet(ops) => InOrder(S, Append(ops, h))
         /\ IsInjective(ops) /\ h \notin SeqToSet(ops) => IsInjective(Append(ops, h))
<1> DEFINE long == Append(ops, h)
           n == Len(ops)
<1>1. /\ n \in Nat /\ DOMAIN ops = 1 .. n /\ DOMAIN long = 1 .. n + 1
      /\ \A k \in 1 .. n : ops[k] \in HeaderId /\ long[k] = ops[k]
      /\ long[n + 1] = h
  OBVIOUS
<1> HIDE DEF long, n
<1>2. SeqToSet(ops) \in SUBSET HeaderId
  BY <1>1 DEF SeqToSet
<1>3. SeqToSet(long) = SeqToSet(ops) \cup {h}
  <2>1. \A k \in 1 .. n + 1 : k \in 1 .. n \/ k = n + 1
    BY <1>1
  <2>2. n + 1 \in 1 .. n + 1 /\ \A k \in 1 .. n : k \in 1 .. n + 1
    BY <1>1
  <2> QED
    BY <1>1, <2>1, <2>2 DEF SeqToSet
<1>4. ASSUME NEW S, InOrder(S, ops), ParentIds[h] \subseteq S \cup SeqToSet(ops)
      PROVE  InOrder(S, long)
  <2> SUFFICES ASSUME NEW k \in 1 .. n + 1
               PROVE  ParentIds[long[k]] \subseteq S \cup {long[j] : j \in 1 .. k - 1}
    BY <1>1 DEF InOrder
  <2>1. CASE k \in 1 .. n
    <3>1. long[k] = ops[k] /\ ParentIds[ops[k]] \subseteq S \cup {ops[j] : j \in 1 .. k - 1}
      BY <1>1, <1>4, <2>1 DEF InOrder
    <3>2. \A j \in 1 .. k - 1 : ops[j] = long[j]
      BY <1>1, <2>1
    <3> QED
      BY <3>1, <3>2
  <2>2. CASE k = n + 1
    <3>1. k - 1 = n /\ \A j \in 1 .. n : ops[j] = long[j]
      BY <1>1, <2>2
    <3>2. SeqToSet(ops) = {long[j] : j \in 1 .. k - 1}
      BY <1>1, <3>1 DEF SeqToSet
    <3> QED
      BY <1>1, <1>4, <2>2, <3>2
  <2> QED
    BY <1>1, <2>1, <2>2
<1>5. ASSUME IsInjective(ops), h \notin SeqToSet(ops) PROVE IsInjective(long)
  <2> SUFFICES ASSUME NEW i \in 1 .. n + 1, NEW j \in 1 .. n + 1, long[i] = long[j] PROVE i = j
    BY <1>1 DEF IsInjective
  <2>1. \A k \in 1 .. n : long[k] # h
    BY <1>1, <1>5 DEF SeqToSet
  <2>2. i \in 1 .. n /\ j \in 1 .. n => i = j
    BY <1>1, <1>5 DEF IsInjective
  <2> QED
    BY <1>1, <2>1, <2>2
<1> QED
  BY <1>2, <1>3, <1>4, <1>5 DEF long

\* What a queue of headers to send is sure of: their parents are known.
ParentsKnown(queue, known) == \A h \in Held(queue) : ParentIds[h] \subseteq known

\* What prepare_operations delivers: headers of the graph that the initiator
\* does not know, of which it knows from then on.  On a forest they come after
\* their parents.
LEMMA SendResult ==
  ASSUME NEW s \in SendState, s.ops = <<>>, s.known \subseteq s.graph, Held(s.queue) \subseteq s.graph
  PROVE  /\ Send[s] \in SendState
         /\ SeqToSet(Send[s].ops) \subseteq s.graph \ (s.known \cup s.unknown)
         /\ Send[s].known = s.known \cup SeqToSet(Send[s].ops) /\ IsInjective(Send[s].ops)
         /\ Held(Send[s].queue) \subseteq s.graph
         /\ Forest /\ ParentsKnown(s.queue, s.known) /\ s.unknown \cap s.graph = {} =>
              InOrder(s.known, Send[s].ops) /\ ParentsKnown(Send[s].queue, Send[s].known)
<1> DEFINE Tree == Forest /\ ParentsKnown(s.queue, s.known) /\ s.unknown \cap s.graph = {}
           P == {t \in SendState :
                   /\ t.graph = s.graph /\ t.unknown = s.unknown
                   /\ SeqToSet(t.ops) \subseteq s.graph \ (s.known \cup s.unknown)
                   /\ t.known = s.known \cup SeqToSet(t.ops) /\ IsInjective(t.ops)
                   /\ Held(t.queue) \subseteq s.graph
                   /\ Tree => InOrder(s.known, t.ops) /\ ParentsKnown(t.queue, t.known)}
<1>1. s \in P
  <2>1. SeqToSet(<<>>) = {} /\ InOrder(s.known, <<>>) /\ IsInjective(<<>>)
    BY DEF SeqToSet, InOrder, IsInjective
  <2> QED
    BY <2>1
<1>2. ASSUME NEW t \in P, t \notin SendDone PROVE SendStep[t] \in P
  <2> DEFINE u == SendNext(t)
  <2>1. t \in SendState /\ SendStep[t] = u
    BY <1>2 DEF SendStep
  <2>2. PICK h \in Held(t.queue) :
           /\ h \in HeaderId /\ u \in SendState
           /\ u.graph = t.graph /\ u.unknown = t.unknown
           /\ u.queue = ChildrenPushed(Pop(t.queue, h), t.graph, {h})
           /\ \/ /\ h \in t.known \cup t.unknown
                 /\ u.known = t.known /\ u.ops = t.ops
              \/ /\ h \notin t.known \cup t.unknown
                 /\ u.known = t.known \cup {h} /\ u.ops = Append(t.ops, h)
    BY <1>2, <2>1, SendNextFacts
  <2> HIDE DEF u
  <2>3. t.queue \in Queue(HeaderId) /\ t.graph \in SUBSET HeaderId /\ t.ops \in Seq(HeaderId)
    BY <2>1 DEF SendState
  <2>4. Held(Pop(t.queue, h)) \subseteq Held(t.queue) /\ Pop(t.queue, h) \in Queue(HeaderId)
    BY <2>2, <2>3, QueueFacts
  <2>5. \A c : c \in Held(u.queue) <=>
                 c \in Held(Pop(t.queue, h)) \/ (c \in t.graph /\ ParentIds[c] \cap {h} # {})
    <3> DEFINE q == Pop(t.queue, h)
               hs == {h}
    <3>1. hs \in SUBSET HeaderId /\ q \in Queue(HeaderId) /\ u.queue = ChildrenPushed(q, t.graph, hs)
      BY <2>2, <2>4
    <3> HIDE DEF q, hs
    <3>2. \A c : c \in Held(ChildrenPushed(q, t.graph, hs)) <=>
                   c \in Held(q) \/ (c \in t.graph /\ ParentIds[c] \cap hs # {})
      BY <2>3, <3>1, ChildrenHeld
    <3> QED
      BY <3>1, <3>2 DEF q, hs
  <2>6. h \in s.graph /\ t.graph = s.graph /\ t.unknown = s.unknown
    BY <2>2
  <2>7. Held(u.queue) \subseteq s.graph
    BY <2>4, <2>5, <2>6
  <2>8. /\ SeqToSet(u.ops) \subseteq s.graph \ (s.known \cup s.unknown)
        /\ u.known = s.known \cup SeqToSet(u.ops) /\ t.known \subseteq u.known
        /\ h \in u.known \/ h \in s.unknown
        /\ IsInjective(u.ops)
    <3>1. /\ SeqToSet(Append(t.ops, h)) = SeqToSet(t.ops) \cup {h}
          /\ IsInjective(t.ops) /\ h \notin SeqToSet(t.ops) => IsInjective(Append(t.ops, h))
      BY <2>2, <2>3, AppendFacts
    <3> QED
      BY <2>2, <2>6, <3>1
  <2>9. ASSUME Tree PROVE InOrder(s.known, u.ops) /\ ParentsKnown(u.queue, u.known)
    <3>1. InOrder(s.known, t.ops) /\ ParentsKnown(t.queue, t.known) /\ h \in u.known
      BY <2>6, <2>8, <2>9
    <3>2. ParentIds[h] \subseteq s.known \cup SeqToSet(t.ops)
      BY <2>2, <3>1 DEF ParentsKnown
    <3>3. InOrder(s.known, u.ops)
      <4>1. InOrder(s.known, Append(t.ops, h))
        BY <2>2, <2>3, <3>1, <3>2, AppendFacts
      <4> QED
        BY <2>2, <3>1, <4>1
    <3>4. ASSUME NEW c \in Held(u.queue) PROVE ParentIds[c] \subseteq u.known
      <4>1. CASE c \in Held(t.queue)
        BY <2>8, <3>1, <4>1 DEF ParentsKnown
      <4>2. CASE c \in t.graph /\ h \in ParentIds[c]
        <5>1. c \in HeaderId
          BY <2>3, <4>2
        <5>2. ParentIds[c] \subseteq {h}
          BY <2>9, <4>2, <5>1 DEF Forest
        <5> QED
          BY <3>1, <5>2
      <4> QED
        BY <2>4, <2>5, <3>4, <4>1, <4>2
    <3> QED
      BY <3>3, <3>4 DEF ParentsKnown
  <2> QED
    BY <2>1, <2>2, <2>6, <2>7, <2>8, <2>9
<1>3. Send[s] \in P
  <2>1. P \in SUBSET SendState
    OBVIOUS
  <2> HIDE DEF P
  <2> QED
    BY <1>1, <1>2, <2>1, SendIsLoop, SendEnds, LoopResult
<1> QED
  BY <1>3
-----------------------------------------------------------------------------
\* prepare_sent_haves is a loop, and it ends.
ProposeDone == {s \in ProposeState : Held(s.queue) = {} \/ Len(s.haves) = MaxHave}
ProposeStep == [s \in ProposeState |-> IF s \in ProposeDone THEN s ELSE ProposeNext(s)]

LEMMA ProposeNextFacts ==
  ASSUME NEW s \in ProposeState, s \notin ProposeDone
  PROVE  \E e \in Held(s.queue) :
           /\ e \in HaveEntry /\ ProposeNext(s) \in ProposeState
           /\ ProposeNext(s).known = s.known /\ ProposeNext(s).unknown = s.unknown
           /\ \/ /\ e[1] \in s.known \cup s.unknown
                 /\ ProposeNext(s).queue = Pop(s.queue, e) /\ ProposeNext(s).haves = s.haves
              \/ /\ e[1] \notin s.known \cup s.unknown
                 /\ ProposeNext(s).queue = Push(Pop(s.queue, e), ParentIds[e[1]] \X {e[2] + 1})
                 /\ \/ ProposeNext(s).haves = Append(s.haves, e[1])
                    \/ e[2] # 0 /\ ProposeNext(s).haves = s.haves
           /\ e = NextToPropose(s.queue)
<1> DEFINE e == NextToPropose(s.queue)
           rest == Pop(s.queue, e)
           more == Push(rest, ParentIds[e[1]] \X {e[2] + 1})
           prop == IF IsPowerOfTwo(e[2]) \/ Depth[e[1]] = 1 THEN Append(s.haves, e[1]) ELSE s.haves
<1>1. /\ s.queue \in Queue(HaveEntry) /\ s.known \in SUBSET HeaderId /\ s.unknown \in SUBSET HeaderId
      /\ s.haves \in Seq(HeaderId) /\ Held(s.queue) # {}
  BY DEF ProposeState, ProposeDone
<1>2. e \in Held(s.queue) /\ e \in HaveEntry
  BY <1>1, NextToProposeFacts, QueueFacts
<1>3. rest \in Queue(HaveEntry)
  BY <1>1, <1>2, QueueFacts
<1>4. more \in Queue(HaveEntry)
  BY <1>3, QueueFacts
<1>5. e[1] \in HeaderId
  BY <1>2 DEF HaveEntry
<1>6. prop \in Seq(HeaderId) /\ (prop = Append(s.haves, e[1]) \/ (e[2] # 0 /\ prop = s.haves))
  <2>1. e[2] = 0 => IsPowerOfTwo(e[2])
    BY DEF IsPowerOfTwo
  <2>2. Append(s.haves, e[1]) \in Seq(HeaderId)
    BY <1>1, <1>5
  <2> QED
    BY <1>1, <2>1, <2>2
<1>7. ProposeNext(s) = IF e[1] \in s.known \cup s.unknown THEN [s EXCEPT !.queue = rest]
                       ELSE [s EXCEPT !.haves = prop, !.queue = more]
  BY DEF ProposeNext, TheyKnow, ProposeState
<1> HIDE DEF e, rest, more, prop
<1>8. CASE e[1] \in s.known \cup s.unknown
  <2>1. ProposeNext(s) = [s EXCEPT !.queue = rest]
    BY <1>7, <1>8
  <2>2. /\ ProposeNext(s) \in ProposeState /\ ProposeNext(s).known = s.known
        /\ ProposeNext(s).unknown = s.unknown /\ ProposeNext(s).queue = rest
        /\ ProposeNext(s).haves = s.haves
    BY <1>1, <1>3, <2>1 DEF ProposeState
  <2> QED
    BY <1>2, <1>8, <2>2 DEF e, rest
<1>9. CASE e[1] \notin s.known \cup s.unknown
  <2>1. ProposeNext(s) = [s EXCEPT !.haves = prop, !.queue = more]
    BY <1>7, <1>9
  <2>2. /\ ProposeNext(s) \in ProposeState /\ ProposeNext(s).known = s.known
        /\ ProposeNext(s).unknown = s.unknown /\ ProposeNext(s).queue = more
        /\ ProposeNext(s).haves = prop
    BY <1>1, <1>4, <1>6, <2>1 DEF ProposeState
  <2> QED
    BY <1>2, <1>6, <1>9, <2>2 DEF e, rest, more
<1> QED
  BY <1>8, <1>9
-----------------------------------------------------------------------------
LEMMA ProposeIsLoop ==
  ProposeStep \in [ProposeState -> ProposeState] /\ IsLoop(Propose, ProposeState, ProposeDone, ProposeStep)
<1>1. ProposeStep \in [ProposeState -> ProposeState]
  BY ProposeNextFacts DEF ProposeStep
<1>2. PICK f : IsLoop(f, ProposeState, ProposeDone, ProposeStep)
  BY <1>1, LoopIsDefined
<1>3. \A g : [s \in ProposeState |-> IF s \in ProposeDone THEN s ELSE g[ProposeStep[s]]]
             = [s \in ProposeState |->
                  IF Held(s.queue) = {} \/ Len(s.haves) = MaxHave THEN s ELSE g[ProposeNext(s)]]
  BY DEF ProposeStep, ProposeDone
<1>4. \E g : g = [s \in ProposeState |->
                    IF Held(s.queue) = {} \/ Len(s.haves) = MaxHave THEN s ELSE g[ProposeNext(s)]]
  <2>1. f = [s \in ProposeState |-> IF s \in ProposeDone THEN s ELSE f[ProposeStep[s]]]
    BY <1>2 DEF IsLoop
  <2>2. f = [s \in ProposeState |->
               IF Held(s.queue) = {} \/ Len(s.haves) = MaxHave THEN s ELSE f[ProposeNext(s)]]
    BY <1>3, <2>1
  <2> QED
    BY <2>2
<1>5. Propose = [s \in ProposeState |->
                   IF Held(s.queue) = {} \/ Len(s.haves) = MaxHave THEN s ELSE Propose[ProposeNext(s)]]
  BY <1>4 DEF Propose
<1>6. Propose = [s \in ProposeState |-> IF s \in ProposeDone THEN s ELSE Propose[ProposeStep[s]]]
  BY <1>3, <1>5
<1> QED
  BY <1>1, <1>6 DEF IsLoop

\* An entry gives rise to entries of larger distance, and distances are bounded.
FurtherEntries == [e \in HaveEntry |-> (ParentIds[e[1]] \X {e[2] + 1}) \cap HaveEntry]
LEMMA EntriesAreFinite == IsFiniteSet(HaveEntry) /\ Acyclic(HaveEntry, FurtherEntries)
<1>1. IsFiniteSet(HeaderId)
  BY HeaderAssumption
<1>2. Cardinality(HeaderId) \in Nat
  BY <1>1, FS_CardinalityType
<1>3. IsFiniteSet(HaveEntry)
  <2>1. IsFiniteSet(0 .. Cardinality(HeaderId))
    BY <1>2, FS_Interval
  <2> QED
    BY <1>1, <2>1, FS_Product DEF HaveEntry
<1>4. ASSUME NEW D \in SUBSET HaveEntry, D # {}
      PROVE  \E e \in D : \A c \in D : e \notin FurtherEntries[c]
  <2>1. \A e \in D : e[2] \in Nat
    BY <1>2 DEF HaveEntry
  <2> DEFINE f == [e \in D |-> e[2]]
  <2>2. PICK e \in D : \A x \in D : e[2] <= x[2]
    <3>1. f \in [D -> Nat]
      BY <2>1
    <3> HIDE DEF f
    <3>2. PICK e \in D : \A x \in D : f[e] <= f[x]
      BY <1>4, <3>1, LeastValue
    <3> QED
      BY <3>2 DEF f
  <2>3. ASSUME NEW c \in D, e \in FurtherEntries[c] PROVE FALSE
    <3>1. e[2] = c[2] + 1
      BY <2>3 DEF FurtherEntries
    <3> QED
      BY <2>1, <2>2, <3>1
  <2> QED
    BY <2>3
<1> QED
  BY <1>3, <1>4 DEF Acyclic

LEMMA ProposeEnds == ASSUME NEW P \in SUBSET ProposeState PROVE LoopEndsIn(P, ProposeDone, ProposeStep)
<1> SUFFICES ASSUME NEW run \in [Nat -> P],
                    \A n \in Nat : run[n] \notin ProposeDone /\ run[n + 1] = ProposeStep[run[n]]
             PROVE  FALSE
  BY DEF LoopEndsIn
<1> DEFINE q == [n \in Nat |-> run[n].queue]
           taken == [n \in Nat |-> NextToPropose(run[n].queue)]
<1>1. \A n \in Nat : /\ run[n] \in ProposeState /\ run[n] \notin ProposeDone
                     /\ run[n + 1] = ProposeNext(run[n])
  BY DEF ProposeStep
<1>2. ASSUME NEW n \in Nat
      PROVE  /\ q[n] \in Queue(HaveEntry) /\ taken[n] \in Held(q[n]) /\ taken[n] \in HaveEntry
             /\ \/ q[n + 1] = Pop(q[n], taken[n])
                \/ q[n + 1] = Push(Pop(q[n], taken[n]), ParentIds[taken[n][1]] \X {taken[n][2] + 1})
  <2>1. run[n].queue \in Queue(HaveEntry)
    BY <1>1 DEF ProposeState
  <2>2. PICK e \in Held(run[n].queue) :
          /\ e \in HaveEntry
          /\ \/ run[n + 1].queue = Pop(run[n].queue, e)
             \/ run[n + 1].queue = Push(Pop(run[n].queue, e), ParentIds[e[1]] \X {e[2] + 1})
          /\ e = NextToPropose(run[n].queue)
    BY <1>1, ProposeNextFacts
  <2>3. q[n] = run[n].queue /\ q[n + 1] = run[n + 1].queue /\ taken[n] = NextToPropose(run[n].queue)
    OBVIOUS
  <2> HIDE DEF q, taken
  <2> QED
    BY <2>1, <2>2, <2>3
<1> HIDE DEF q, taken
<1>3. q \in [Nat -> [HaveEntry -> Nat]] /\ taken \in [Nat -> HaveEntry]
  <2>1. \A n \in Nat : q[n] \in [HaveEntry -> Nat] /\ taken[n] \in HaveEntry
    BY <1>2 DEF Queue
  <2> QED
    BY <2>1 DEF q, taken
<1>4. TakesAndSpawns(HaveEntry, FurtherEntries, q, taken)
  <2> SUFFICES ASSUME NEW n \in Nat, NEW e \in HaveEntry, e \notin FurtherEntries[taken[n]]
               PROVE  q[n + 1][e] <= q[n][e] /\ (e = taken[n] => q[n + 1][e] < q[n][e])
    BY DEF TakesAndSpawns
  <2> DEFINE es == ParentIds[taken[n][1]] \X {taken[n][2] + 1}
  <2>1. e \notin es
    BY <1>2 DEF FurtherEntries
  <2>2. q[n + 1] = Pop(q[n], taken[n]) \/ q[n + 1] = Push(Pop(q[n], taken[n]), es)
    BY <1>2
  <2> HIDE DEF es
  <2>3. /\ Push(Pop(q[n], taken[n]), es)[e] = Pop(q[n], taken[n])[e]
        /\ Pop(q[n], taken[n])[e] <= q[n][e]
        /\ e = taken[n] => Pop(q[n], taken[n])[e] < q[n][e]
    BY <1>2, <2>1, PoppedThenPushed
  <2> QED
    BY <2>2, <2>3
<1> QED
  BY <1>3, <1>4, EntriesAreFinite, QueueRunsDry

\* The headers of a queue of entries.
HeadersIn(queue) == {entry[1] : entry \in Held(queue)}

\* What prepare_sent_haves proposes, at most MaxHave headers of the graph; and
\* if it proposes none, every tip it was to begin with is known.
LEMMA ProposeResult ==
  ASSUME NEW s \in ProposeState, s.haves = <<>>, NEW G \in SUBSET HeaderId, ParentClosed(G),
         HeadersIn(s.queue) \subseteq G, NEW tips \in SUBSET HeaderId, tips \X {0} \subseteq Held(s.queue)
  PROVE  /\ Propose[s] \in ProposeState
         /\ Propose[s].known = s.known /\ Propose[s].unknown = s.unknown
         /\ SeqToSet(Propose[s].haves) \cup HeadersIn(Propose[s].queue) \subseteq G
         /\ Len(Propose[s].haves) <= MaxHave
         /\ Propose[s].haves = <<>> => tips \subseteq s.known \cup s.unknown
<1> DEFINE P == {t \in ProposeState :
                   /\ t.known = s.known /\ t.unknown = s.unknown
                   /\ SeqToSet(t.haves) \cup HeadersIn(t.queue) \subseteq G
                   /\ Len(t.haves) <= MaxHave
                   /\ t.haves = <<>> =>
                        \A h \in tips : <<h, 0>> \in Held(t.queue) \/ h \in s.known \cup s.unknown}
<1>1. MaxHave \in Nat /\ MaxHave # 0
  BY SyncAssumption
<1>2. s \in P
  <2>1. SeqToSet(<<>>) = {} /\ Len(<<>>) = 0
    BY DEF SeqToSet
  <2>2. \A h \in tips : <<h, 0>> \in Held(s.queue)
    OBVIOUS
  <2> QED
    BY <1>1, <2>1, <2>2
<1>3. ASSUME NEW t \in P, t \notin ProposeDone PROVE ProposeStep[t] \in P
  <2> DEFINE u == ProposeNext(t)
  <2>1. t \in ProposeState /\ ProposeStep[t] = u
    BY <1>3 DEF ProposeStep
  <2>2. PICK e \in Held(t.queue) :
          /\ e \in HaveEntry /\ u \in ProposeState /\ u.known = t.known /\ u.unknown = t.unknown
          /\ \/ /\ e[1] \in t.known \cup t.unknown
                /\ u.queue = Pop(t.queue, e) /\ u.haves = t.haves
             \/ /\ e[1] \notin t.known \cup t.unknown
                /\ u.queue = Push(Pop(t.queue, e), ParentIds[e[1]] \X {e[2] + 1})
                /\ \/ u.haves = Append(t.haves, e[1])
                   \/ e[2] # 0 /\ u.haves = t.haves
    BY <1>3, <2>1, ProposeNextFacts
  <2> HIDE DEF u
  <2>3. t.queue \in Queue(HaveEntry) /\ t.haves \in Seq(HeaderId) /\ e[1] \in HeaderId
    BY <2>1, <2>2 DEF ProposeState, HaveEntry
  <2>4. /\ Pop(t.queue, e) \in Queue(HaveEntry) /\ Held(Pop(t.queue, e)) \subseteq Held(t.queue)
        /\ Held(t.queue) \ {e} \subseteq Held(Pop(t.queue, e))
    BY <2>2, <2>3, QueueFacts
  <2> DEFINE es == ParentIds[e[1]] \X {e[2] + 1}
  <2>5. Held(Push(Pop(t.queue, e), es)) = Held(Pop(t.queue, e)) \cup (es \cap HaveEntry)
    BY <2>4, QueueFacts
  <2>6. u.queue = Pop(t.queue, e) \/ u.queue = Push(Pop(t.queue, e), es)
    BY <2>2
  <2>7. e[1] \in G /\ ParentIds[e[1]] \subseteq G
    <3>1. e[1] \in HeadersIn(t.queue)
      BY <2>2 DEF HeadersIn
    <3> QED
      BY <1>3, <3>1 DEF ParentClosed
  <2>8. \A x \in es : x[1] \in ParentIds[e[1]]
    OBVIOUS
  <2> HIDE DEF es
  <2>9. HeadersIn(u.queue) \subseteq G /\ Held(t.queue) \ {e} \subseteq Held(u.queue)
    <3>1. \A x \in Held(t.queue) : x[1] \in G
      BY <1>3 DEF HeadersIn
    <3>2. \A x \in Held(u.queue) : x \in Held(t.queue) \/ x \in es
      BY <2>4, <2>5, <2>6
    <3>3. \A x \in Held(u.queue) : x[1] \in G
      BY <2>7, <2>8, <3>1, <3>2
    <3> QED
      BY <2>4, <2>5, <2>6, <3>3 DEF HeadersIn
  <2>10. Len(t.haves) < MaxHave /\ Len(t.haves) \in Nat
    BY <1>1, <1>3, <2>1, <2>3 DEF ProposeDone
  <2>11. /\ SeqToSet(Append(t.haves, e[1])) = SeqToSet(t.haves) \cup {e[1]}
         /\ Len(Append(t.haves, e[1])) = Len(t.haves) + 1 /\ Append(t.haves, e[1]) # <<>>
    BY <2>3, AppendFacts
  <2>12. SeqToSet(u.haves) \subseteq G /\ Len(u.haves) <= MaxHave
    <3>1. u.haves = t.haves \/ u.haves = Append(t.haves, e[1])
      BY <2>2
    <3>2. SeqToSet(t.haves) \subseteq G /\ Len(t.haves) <= MaxHave
      BY <1>3
    <3>3. Len(t.haves) + 1 <= MaxHave
      BY <1>1, <2>10
    <3> HIDE DEF P
    <3>4. CASE u.haves = t.haves
      BY <3>2, <3>4
    <3>5. CASE u.haves = Append(t.haves, e[1])
      <4>1. SeqToSet(u.haves) = SeqToSet(t.haves) \cup {e[1]} /\ Len(u.haves) = Len(t.haves) + 1
        BY <2>11, <3>5
      <4> QED
        BY <2>7, <3>2, <3>3, <4>1
    <3> QED
      BY <3>1, <3>4, <3>5
  <2>13. ASSUME u.haves = <<>>, NEW h \in tips
         PROVE  <<h, 0>> \in Held(u.queue) \/ h \in s.known \cup s.unknown
    <3>1. t.haves = <<>> /\ (e[1] \in s.known \cup s.unknown \/ e[2] # 0)
      BY <1>3, <2>2, <2>11, <2>13
    <3>2. <<h, 0>> \in Held(t.queue) \/ h \in s.known \cup s.unknown
      BY <1>3, <3>1
    <3>3. CASE e = <<h, 0>>
      BY <3>1, <3>3
    <3>4. CASE e # <<h, 0>>
      BY <2>9, <3>2, <3>4
    <3> QED
      BY <3>3, <3>4
  <2> QED
    BY <1>3, <2>1, <2>2, <2>9, <2>12, <2>13
<1>4. Propose[s] \in P /\ Propose[s] \in ProposeDone
  <2>1. P \in SUBSET ProposeState
    OBVIOUS
  <2> HIDE DEF P
  <2>2. LoopEndsIn(P, ProposeDone, ProposeStep)
    BY <2>1, ProposeEnds
  <2>3. IsLoop(Propose, ProposeState, ProposeDone, ProposeStep)
    BY ProposeIsLoop
  <2>4. \A t \in P : t \notin ProposeDone => ProposeStep[t] \in P
    BY <1>3
  <2>5. \A t \in P : Propose[t] \in P /\ Propose[t] \in ProposeDone
    BY <2>1, <2>2, <2>3, <2>4, LoopResult
  <2> QED
    BY <1>2, <2>5
<1>5. ASSUME Propose[s].haves = <<>> PROVE tips \subseteq s.known \cup s.unknown
  <2>1. Len(<<>>) = 0
    OBVIOUS
  <2>2. Held(Propose[s].queue) = {}
    BY <1>1, <1>4, <1>5, <2>1 DEF ProposeDone
  <2> QED
    BY <1>4, <1>5, <2>2
<1> QED
  BY <1>4, <1>5
-----------------------------------------------------------------------------
\* What the handlers of a request leave alone.
Fixed(rs, new) ==
  /\ new.stage = rs.stage /\ new.snapshot = rs.snapshot /\ new.tips = rs.tips /\ new.known = rs.known
  /\ new.firstRun = rs.firstRun /\ new.sentHaves = rs.sentHaves /\ new.havesQueue = rs.havesQueue

\* What they go by: they refer to headers of the graph only.
WorkOK(rs) ==
  /\ rs \in ResponderState /\ ParentClosed(rs.snapshot)
  /\ rs.theirKnown \cup Held(rs.sendQueue) \subseteq rs.snapshot

\* And they are right about an initiator that has the headers theirs.
WorkTrue(rs, theirs) == rs.theirKnown \subseteq theirs /\ ParentsKnown(rs.sendQueue, rs.theirKnown)

\* A handler turns rs into new, given that the initiator has the headers told.
Works(rs, new, told) ==
  /\ WorkOK(new) /\ Fixed(rs, new) /\ rs.theirKnown \subseteq new.theirKnown
  /\ \A theirs \in SUBSET HeaderId :
       Forest /\ ParentClosed(theirs) /\ told \subseteq theirs /\ WorkTrue(rs, theirs) => WorkTrue(new, theirs)

LEMMA MarkAsKnownWorks ==
  ASSUME NEW rs, WorkOK(rs), NEW hs \in SUBSET rs.snapshot
  PROVE  /\ Works(rs, MarkAsKnown(rs, hs), hs) /\ hs \subseteq MarkAsKnown(rs, hs).theirKnown
         /\ MarkAsKnown(rs, hs).ourUnknown = rs.ourUnknown
         /\ MarkAsKnown(rs, hs).sendQueue = rs.sendQueue
<1> DEFINE marked == Marked(rs.theirKnown, hs)
           new == MarkAsKnown(rs, hs)
<1>1. rs \in ResponderState /\ rs.theirKnown \in SUBSET HeaderId /\ rs.snapshot \in SUBSET HeaderId
  BY DEF WorkOK, ResponderState
<1>2. hs \in SUBSET HeaderId
  BY <1>1
<1>3. /\ marked \in SUBSET HeaderId /\ rs.theirKnown \cup hs \subseteq marked
      /\ \A G \in SUBSET HeaderId :
           ParentClosed(G) /\ rs.theirKnown \cup hs \subseteq G => marked \subseteq G
  BY <1>1, <1>2, MarkedFacts
<1>4. new = [rs EXCEPT !.theirKnown = marked]
  BY DEF MarkAsKnown
<1> HIDE DEF marked, new
<1>5. /\ new \in ResponderState /\ Fixed(rs, new) /\ new.theirKnown = marked
      /\ new.ourUnknown = rs.ourUnknown /\ new.sendQueue = rs.sendQueue
  BY <1>1, <1>3, <1>4 DEF ResponderState, Fixed
<1>6. marked \subseteq rs.snapshot
  BY <1>1, <1>3 DEF WorkOK
<1>7. WorkOK(new)
  BY <1>5, <1>6 DEF WorkOK, Fixed
<1>8. ASSUME NEW theirs \in SUBSET HeaderId, ParentClosed(theirs), hs \subseteq theirs, WorkTrue(rs, theirs)
      PROVE  WorkTrue(new, theirs)
  BY <1>3, <1>5, <1>8 DEF WorkTrue, ParentsKnown
<1> QED
  BY <1>3, <1>5, <1>7, <1>8 DEF Works, new

\* Children of what they know can be sent.
LEMMA SendChildrenWorks ==
  ASSUME NEW rs, WorkOK(rs), NEW hs \in SUBSET rs.theirKnown
  PROVE  Works(rs, SendChildren(rs, hs), {}) /\ SendChildren(rs, hs).ourUnknown = rs.ourUnknown
<1> DEFINE queue == ChildrenPushed(rs.sendQueue, rs.snapshot, hs)
           new == SendChildren(rs, hs)
<1>1. /\ rs \in ResponderState /\ rs.theirKnown \in SUBSET HeaderId /\ rs.snapshot \in SUBSET HeaderId
      /\ rs.sendQueue \in Queue(HeaderId)
  BY DEF WorkOK, ResponderState
<1>2. hs \in SUBSET HeaderId
  BY <1>1
<1>3. queue \in Queue(HeaderId)
  BY <1>1, <1>2, ChildrenQueue
<1>4. \A c : c \in Held(queue) <=> c \in Held(rs.sendQueue) \/ (c \in rs.snapshot /\ ParentIds[c] \cap hs # {})
  BY <1>1, <1>2, ChildrenHeld
<1>5. new = [rs EXCEPT !.sendQueue = queue]
  BY DEF SendChildren
<1> HIDE DEF queue, new
<1>6. /\ new \in ResponderState /\ Fixed(rs, new) /\ new.theirKnown = rs.theirKnown
      /\ new.ourUnknown = rs.ourUnknown /\ new.sendQueue = queue
  BY <1>1, <1>3, <1>5 DEF ResponderState, Fixed
<1>7. WorkOK(new)
  BY <1>4, <1>6 DEF WorkOK, Fixed
<1>8. ASSUME NEW theirs, Forest, WorkTrue(rs, theirs) PROVE WorkTrue(new, theirs)
  <2>1. ASSUME NEW c \in Held(queue) PROVE ParentIds[c] \subseteq rs.theirKnown
    <3>1. CASE c \in Held(rs.sendQueue)
      BY <1>8, <3>1 DEF WorkTrue, ParentsKnown
    <3>2. CASE c \in rs.snapshot /\ ParentIds[c] \cap hs # {}
      <4>1. c \in HeaderId
        BY <1>1, <3>2
      <4>2. ParentIds[c] \subseteq hs
        BY <1>8, <3>2, <4>1 DEF Forest
      <4> QED
        BY <4>2
    <3> QED
      BY <1>4, <2>1, <3>1, <3>2
  <2> QED
    BY <1>6, <1>8, <2>1 DEF WorkTrue, ParentsKnown
<1> QED
  BY <1>6, <1>7, <1>8 DEF Works, new

LEMMA WorksThenWorks ==
  ASSUME NEW rs, NEW mid, NEW new, NEW told, NEW more, Works(rs, mid, told), Works(mid, new, more)
  PROVE  Works(rs, new, told \cup more)
<1>1. WorkOK(new) /\ Fixed(rs, new) /\ rs.theirKnown \subseteq new.theirKnown
  BY DEF Works, Fixed
<1>2. ASSUME NEW theirs \in SUBSET HeaderId, Forest, ParentClosed(theirs), told \cup more \subseteq theirs,
             WorkTrue(rs, theirs)
      PROVE  WorkTrue(new, theirs)
  <2>1. told \subseteq theirs /\ more \subseteq theirs
    BY <1>2
  <2>2. WorkTrue(mid, theirs)
    BY <1>2, <2>1 DEF Works
  <2> QED
    BY <1>2, <2>1, <2>2 DEF Works
<1> QED
  BY <1>1, <1>2 DEF Works

\* A header they say they have.
LEMMA MarkAndSend ==
  ASSUME NEW rs, WorkOK(rs), NEW hs \in SUBSET rs.snapshot
  PROVE  /\ Works(rs, SendChildren(MarkAsKnown(rs, hs), hs), hs)
         /\ SendChildren(MarkAsKnown(rs, hs), hs).ourUnknown = rs.ourUnknown
<1> DEFINE mid == MarkAsKnown(rs, hs)
           new == SendChildren(mid, hs)
<1>1. Works(rs, mid, hs) /\ hs \subseteq mid.theirKnown /\ mid.ourUnknown = rs.ourUnknown
  BY MarkAsKnownWorks
<1> HIDE DEF mid
<1>2. Works(mid, new, {}) /\ new.ourUnknown = mid.ourUnknown
  BY <1>1, SendChildrenWorks DEF Works
<1> HIDE DEF new
<1>3. Works(rs, new, hs \cup {})
  BY <1>1, <1>2, WorksThenWorks
<1>4. hs \cup {} = hs
  OBVIOUS
<1>5. Works(rs, new, hs) /\ new.ourUnknown = rs.ourUnknown
  BY <1>1, <1>2, <1>3, <1>4
<1> QED
  BY <1>5 DEF new, mid

\* Headers put in the queue whose parents they know.
LEMMA PushWorks ==
  ASSUME NEW rs, WorkOK(rs), NEW hs \in SUBSET rs.snapshot, \A h \in hs : ParentIds[h] \subseteq rs.theirKnown
  PROVE  /\ Works(rs, [rs EXCEPT !.sendQueue = Push(@, hs)], {})
         /\ [rs EXCEPT !.sendQueue = Push(@, hs)].ourUnknown = rs.ourUnknown
<1> DEFINE queue == Push(rs.sendQueue, hs)
           new == [rs EXCEPT !.sendQueue = Push(@, hs)]
<1>1. rs \in ResponderState /\ rs.snapshot \in SUBSET HeaderId /\ rs.sendQueue \in Queue(HeaderId)
  BY DEF WorkOK, ResponderState
<1>2. queue \in Queue(HeaderId) /\ Held(queue) = Held(rs.sendQueue) \cup (hs \cap HeaderId)
  BY <1>1, QueueFacts
<1>3. new = [rs EXCEPT !.sendQueue = queue]
  BY <1>1 DEF ResponderState
<1> HIDE DEF queue, new
<1>4. /\ new \in ResponderState /\ Fixed(rs, new) /\ new.theirKnown = rs.theirKnown
      /\ new.ourUnknown = rs.ourUnknown /\ new.sendQueue = queue
  BY <1>1, <1>2, <1>3 DEF ResponderState, Fixed
<1>5. WorkOK(new)
  BY <1>2, <1>4 DEF WorkOK, Fixed
<1>6. ASSUME NEW theirs, WorkTrue(rs, theirs) PROVE WorkTrue(new, theirs)
  BY <1>2, <1>4, <1>6 DEF WorkTrue, ParentsKnown
<1>7. Works(rs, new, {}) /\ new.ourUnknown = rs.ourUnknown
  BY <1>4, <1>5, <1>6 DEF Works
<1> QED
  BY <1>7 DEF new

LEMMA NothingWorks == ASSUME NEW rs, WorkOK(rs) PROVE Works(rs, rs, {})
BY DEF Works, Fixed

\* ourUnknown is no part of it.
LEMMA UnknownWorks ==
  ASSUME NEW rs, NEW new, NEW told, Works(rs, new, told), NEW unknown \in SUBSET HeaderId
  PROVE  /\ Works(rs, [new EXCEPT !.ourUnknown = unknown], told)
         /\ [new EXCEPT !.ourUnknown = unknown].ourUnknown = unknown
<1> DEFINE next == [new EXCEPT !.ourUnknown = unknown]
<1>1. new \in ResponderState
  BY DEF Works, WorkOK
<1>2. /\ next \in ResponderState /\ Fixed(new, next) /\ next.theirKnown = new.theirKnown
      /\ next.ourUnknown = unknown /\ next.sendQueue = new.sendQueue
  BY <1>1 DEF ResponderState, Fixed
<1> HIDE DEF next
<1>3. WorkOK(next) /\ Fixed(rs, next) /\ rs.theirKnown \subseteq next.theirKnown
  BY <1>2 DEF Works, WorkOK, Fixed
<1>4. \A theirs : WorkTrue(new, theirs) => WorkTrue(next, theirs)
  BY <1>2 DEF WorkTrue
<1>5. Works(rs, next, told) /\ next.ourUnknown = unknown
  BY <1>2, <1>3, <1>4 DEF Works
<1> QED
  BY <1>5 DEF next
-----------------------------------------------------------------------------
LEMMA UpdateOurUnknownWorks ==
  ASSUME NEW rs, WorkOK(rs)
  PROVE  /\ Works(rs, UpdateOurUnknown(rs), rs.ourUnknown)
         /\ UpdateOurUnknown(rs).ourUnknown = rs.ourUnknown \ rs.snapshot
<1> DEFINE now == rs.ourUnknown \cap rs.snapshot
           mid == MarkAsKnown(rs, now)
<1>1. Works(rs, mid, now) /\ mid.ourUnknown = rs.ourUnknown /\ rs.ourUnknown \in SUBSET HeaderId
  BY MarkAsKnownWorks DEF WorkOK, ResponderState
<1>2. Works(rs, mid, rs.ourUnknown)
  BY <1>1 DEF Works
<1>3. UpdateOurUnknown(rs) = [mid EXCEPT !.ourUnknown = mid.ourUnknown \ now]
  BY <1>1 DEF UpdateOurUnknown, Works, WorkOK, ResponderState
<1>4. mid.ourUnknown \ now = rs.ourUnknown \ rs.snapshot /\ rs.ourUnknown \ rs.snapshot \in SUBSET HeaderId
  BY <1>1
<1> HIDE DEF now, mid
<1> QED
  BY <1>2, <1>3, <1>4, UnknownWorks

LEMMA HandleTheirTipsWorks ==
  ASSUME NEW rs, WorkOK(rs)
  PROVE  /\ Works(rs, HandleTheirTips(rs), rs.tips)
         /\ HandleTheirTips(rs).ourUnknown = rs.ourUnknown \cup (rs.tips \ rs.snapshot)
<1> DEFINE ours == rs.tips \cap rs.snapshot
           begun == IF rs.tips = {} THEN SendRoots(rs) ELSE rs
           queued == SendChildren(MarkAsKnown(begun, ours), ours)
<1>1. Works(rs, begun, {}) /\ begun.ourUnknown = rs.ourUnknown
  <2>1. RootsOf(rs.snapshot) \in SUBSET rs.snapshot /\ \A h \in RootsOf(rs.snapshot) : ParentIds[h] \subseteq rs.theirKnown
    BY DEF RootsOf
  <2>2. SendRoots(rs) = [rs EXCEPT !.sendQueue = Push(@, RootsOf(rs.snapshot))]
    BY DEF SendRoots
  <2>3. Works(rs, SendRoots(rs), {}) /\ SendRoots(rs).ourUnknown = rs.ourUnknown
    BY <2>1, <2>2, PushWorks
  <2> QED
    BY <2>3, NothingWorks
<1>2. /\ HandleTheirTips(rs) = [queued EXCEPT !.ourUnknown = @ \cup (rs.tips \ ours)]
      /\ rs.ourUnknown \in SUBSET HeaderId /\ rs.tips \in SUBSET HeaderId
  BY DEF HandleTheirTips, WorkOK, ResponderState
<1> HIDE DEF begun
<1>3. ours \in SUBSET begun.snapshot /\ WorkOK(begun)
  BY <1>1 DEF Works, Fixed
<1> HIDE DEF ours
<1>4. Works(begun, queued, ours) /\ queued.ourUnknown = rs.ourUnknown
  BY <1>1, <1>3, MarkAndSend
<1> HIDE DEF queued
<1>5. Works(rs, queued, {} \cup ours)
  BY <1>1, <1>4, WorksThenWorks
<1>6. Works(rs, queued, rs.tips)
  BY <1>5 DEF Works, ours
<1>7. HandleTheirTips(rs) = [queued EXCEPT !.ourUnknown = rs.ourUnknown \cup (rs.tips \ rs.snapshot)]
  BY <1>2, <1>4, <1>6 DEF Works, WorkOK, ResponderState, ours
<1>8. rs.ourUnknown \cup (rs.tips \ rs.snapshot) \in SUBSET HeaderId
  BY <1>2
<1> QED
  BY <1>6, <1>7, <1>8, UnknownWorks

LEMMA HandleHaveWorks ==
  ASSUME NEW rs, WorkOK(rs), NEW h \in rs.snapshot, NEW theyHave \in BOOLEAN
  PROVE  /\ Works(rs, HandleHave(rs, h, theyHave), IF theyHave THEN {h} ELSE {})
         /\ HandleHave(rs, h, theyHave).ourUnknown = rs.ourUnknown
<1>1. {h} \in SUBSET rs.snapshot
  OBVIOUS
<1>2. CASE theyHave
  <2>1. HandleHave(rs, h, theyHave) = SendChildren(MarkAsKnown(rs, {h}), {h})
    BY <1>2 DEF HandleHave
  <2> QED
    BY <1>1, <1>2, <2>1, MarkAndSend
<1>3. CASE ~theyHave /\ ParentIds[h] \subseteq rs.theirKnown
  <2>1. HandleHave(rs, h, theyHave) = [rs EXCEPT !.sendQueue = Push(@, {h})]
    BY <1>3 DEF HandleHave
  <2> QED
    BY <1>1, <1>3, <2>1, PushWorks
<1>4. CASE ~theyHave /\ ~(ParentIds[h] \subseteq rs.theirKnown)
  <2>1. HandleHave(rs, h, theyHave) = rs
    BY <1>4 DEF HandleHave
  <2> QED
    BY <1>4, <2>1, NothingWorks
<1> QED
  BY <1>2, <1>3, <1>4
-----------------------------------------------------------------------------
\* The headers proposed that the bits of a request say they have.
SaidToHave(rs) == {rs.sentHaves[k] : k \in rs.known \cap DOMAIN rs.sentHaves}

LEMMA HandleTheirKnownWorks ==
  ASSUME NEW rs, WorkOK(rs), SeqToSet(rs.sentHaves) \subseteq rs.snapshot
  PROVE  /\ Works(rs, HandleTheirKnown(rs), SaidToHave(rs))
         /\ HandleTheirKnown(rs).ourUnknown = rs.ourUnknown
<1> DEFINE N == Len(rs.sentHaves)
           told == SaidToHave(rs)
           T == {x \in ResponderState : Works(rs, x, told) /\ x.ourUnknown = rs.ourUnknown}
           step == [p \in (1 .. N) \X T |-> HandleHave(p[2], rs.sentHaves[p[1]], p[1] \in rs.known)]
           After[n \in 0 .. Len(rs.sentHaves)] ==
             IF n = 0 THEN rs ELSE HandleHave(After[n - 1], rs.sentHaves[n], n \in rs.known)
<1>1. N \in Nat /\ DOMAIN rs.sentHaves = 1 .. N
  BY DEF WorkOK, ResponderState
<1>2. HandleTheirKnown(rs) = After[N]
  BY DEF HandleTheirKnown
<1>3. rs \in T
  BY NothingWorks DEF Works, WorkOK
<1>4. ASSUME NEW n \in 1 .. N, NEW x \in T PROVE HandleHave(x, rs.sentHaves[n], n \in rs.known) \in T
  <2> DEFINE h == rs.sentHaves[n]
             theyHave == (n \in rs.known)
             y == HandleHave(x, h, theyHave)
             said == IF theyHave THEN {h} ELSE {}
  <2>1. h \in rs.snapshot /\ theyHave \in BOOLEAN /\ said \subseteq told
    BY <1>1 DEF SeqToSet, SaidToHave
  <2>2. Works(rs, x, told) /\ x.ourUnknown = rs.ourUnknown /\ h \in x.snapshot /\ WorkOK(x)
    BY <2>1 DEF Works, Fixed
  <2> HIDE DEF h, theyHave, T
  <2>3. Works(x, y, said) /\ y.ourUnknown = x.ourUnknown
    BY <2>1, <2>2, HandleHaveWorks
  <2> HIDE DEF y, said, told
  <2>4. Works(rs, y, told \cup said)
    BY <2>2, <2>3, WorksThenWorks
  <2>5. told \cup said = told
    BY <2>1
  <2>6. Works(rs, y, told) /\ y.ourUnknown = rs.ourUnknown /\ y \in ResponderState
    BY <2>2, <2>3, <2>4, <2>5 DEF Works, WorkOK
  <2> QED
    BY <2>6 DEF T, y, h, theyHave
<1>5. step \in [(1 .. N) \X T -> T]
  <2> HIDE DEF T, N
  <2> QED
    BY <1>4
<1>6. \A n \in 1 .. N, x \in T : step[<<n, x>>] = HandleHave(x, rs.sentHaves[n], n \in rs.known)
  <2> HIDE DEF T, N
  <2> QED
    OBVIOUS
<1> HIDE DEF T, step
<1>7. PICK f \in [0 .. N -> T] : IsCount(f, N, rs, step)
  <2> HIDE DEF N
  <2> QED
    BY <1>1, <1>3, <1>5, CountedIsDefined
<1>8. f = [n \in 0 .. N |-> IF n = 0 THEN rs ELSE HandleHave(f[n - 1], rs.sentHaves[n], n \in rs.known)]
  <2> HIDE DEF N
  <2>1. \A n \in 0 .. N : n # 0 => n \in 1 .. N /\ n - 1 \in 0 .. N
    BY <1>1
  <2>2. \A n \in 0 .. N : n # 0 => f[n] = HandleHave(f[n - 1], rs.sentHaves[n], n \in rs.known)
    BY <1>6, <1>7, <2>1 DEF IsCount
  <2> QED
    BY <1>7, <2>2 DEF IsCount
<1>9. \E g : g = [n \in 0 .. Len(rs.sentHaves) |->
                    IF n = 0 THEN rs ELSE HandleHave(g[n - 1], rs.sentHaves[n], n \in rs.known)]
  BY <1>8
<1>10. After = [n \in 0 .. Len(rs.sentHaves) |->
                  IF n = 0 THEN rs ELSE HandleHave(After[n - 1], rs.sentHaves[n], n \in rs.known)]
  BY <1>9
<1> HIDE DEF After
<1> DEFINE D == {n \in 0 .. N : After[n] \in T}
<1>11. 0 \in D
  BY <1>1, <1>3, <1>10
<1>12. ASSUME NEW n \in D, n \in 0 .. N - 1 PROVE n + 1 \in D
  <2>1. n + 1 \in 1 .. N /\ n + 1 \in 0 .. N /\ (n + 1) - 1 = n /\ n + 1 # 0
    BY <1>1, <1>12
  <2>2. After[n + 1] = HandleHave(After[n], rs.sentHaves[n + 1], n + 1 \in rs.known)
    BY <1>10, <2>1
  <2>3. After[n] \in T
    OBVIOUS
  <2> HIDE DEF N
  <2>4. After[n + 1] \in T
    BY <1>4, <2>1, <2>2, <2>3
  <2> QED
    BY <2>1, <2>4
<1>13. After[N] \in T
  <2> HIDE DEF D, N
  <2>1. 0 .. N \subseteq D
    BY <1>1, <1>11, <1>12, StepsUpTo
  <2> QED
    BY <1>1, <2>1 DEF D
<1> QED
  BY <1>2, <1>13 DEF T
-----------------------------------------------------------------------------
\* insert_header for a list of operations.
LEMMA InsertHeadersFacts ==
  ASSUME NEW S \in SUBSET HeaderId, NEW ops \in Seq(HeaderId), ParentClosed(S)
  PROVE  /\ InsertHeaders(S, ops) \in SUBSET HeaderId /\ ParentClosed(InsertHeaders(S, ops))
         /\ S \subseteq InsertHeaders(S, ops) /\ InsertHeaders(S, ops) \subseteq S \cup SeqToSet(ops)
         /\ InOrder(S, ops) => InsertHeaders(S, ops) = S \cup SeqToSet(ops)
<1> DEFINE N == Len(ops)
           T == SUBSET HeaderId
           step == [p \in (1 .. N) \X T |-> InsertHeader(p[2], ops[p[1]])]
           After[n \in 0 .. Len(ops)] == IF n = 0 THEN S ELSE InsertHeader(After[n - 1], ops[n])
<1>1. N \in Nat /\ DOMAIN ops = 1 .. N /\ \A n \in 1 .. N : ops[n] \in HeaderId
  OBVIOUS
<1>2. InsertHeaders(S, ops) = After[N]
  BY DEF InsertHeaders
<1>3. S \in T
  OBVIOUS
<1>4. ASSUME NEW n \in 1 .. N, NEW x \in T PROVE InsertHeader(x, ops[n]) \in T
  BY <1>1 DEF InsertHeader
<1>5. step \in [(1 .. N) \X T -> T]
  <2> HIDE DEF T, N
  <2> QED
    BY <1>4
<1>6. \A n \in 1 .. N, x \in T : step[<<n, x>>] = InsertHeader(x, ops[n])
  <2> HIDE DEF T, N
  <2> QED
    OBVIOUS
<1> HIDE DEF T, step
<1>7. PICK f \in [0 .. N -> T] : IsCount(f, N, S, step)
  <2> HIDE DEF N
  <2> QED
    BY <1>1, <1>3, <1>5, CountedIsDefined
<1>8. f = [n \in 0 .. N |-> IF n = 0 THEN S ELSE InsertHeader(f[n - 1], ops[n])]
  <2> HIDE DEF N
  <2>1. \A n \in 0 .. N : n # 0 => n \in 1 .. N /\ n - 1 \in 0 .. N
    BY <1>1
  <2>2. \A n \in 0 .. N : n # 0 => f[n] = InsertHeader(f[n - 1], ops[n])
    BY <1>6, <1>7, <2>1 DEF IsCount
  <2> QED
    BY <1>7, <2>2 DEF IsCount
<1>9. \E g : g = [n \in 0 .. Len(ops) |-> IF n = 0 THEN S ELSE InsertHeader(g[n - 1], ops[n])]
  BY <1>8
<1>10. After = [n \in 0 .. Len(ops) |-> IF n = 0 THEN S ELSE InsertHeader(After[n - 1], ops[n])]
  BY <1>9
<1> HIDE DEF After
<1> DEFINE first(n) == {ops[j] : j \in 1 .. n}
           D == {n \in 0 .. N : /\ After[n] \in SUBSET HeaderId /\ ParentClosed(After[n])
                                /\ S \subseteq After[n] /\ After[n] \subseteq S \cup first(n)
                                /\ InOrder(S, ops) => After[n] = S \cup first(n)}
<1>11. 0 \in D
  <2>1. After[0] = S /\ 0 \in 0 .. N
    BY <1>1, <1>10
  <2>2. first(0) = {}
    OBVIOUS
  <2> QED
    BY <2>1, <2>2
<1>12. ASSUME NEW n \in D, n \in 0 .. N - 1 PROVE n + 1 \in D
  <2>1. n + 1 \in 1 .. N /\ n + 1 \in 0 .. N /\ (n + 1) - 1 = n /\ n + 1 # 0 /\ n \in Nat
    BY <1>1, <1>12
  <2> DEFINE h == ops[n + 1]
  <2>2. After[n + 1] = IF ParentIds[h] \subseteq After[n] THEN After[n] \cup {h} ELSE After[n]
    BY <1>10, <2>1 DEF InsertHeader
  <2>3. h \in HeaderId
    BY <1>1, <2>1
  <2>4. first(n + 1) = first(n) \cup {h}
    <3>1. \A j \in 1 .. n + 1 : j \in 1 .. n \/ j = n + 1
      BY <2>1
    <3>2. n + 1 \in 1 .. n + 1 /\ \A j \in 1 .. n : j \in 1 .. n + 1
      BY <2>1
    <3> QED
      BY <3>1, <3>2
  <2>5. InOrder(S, ops) => ParentIds[h] \subseteq S \cup first(n)
    BY <1>1, <2>1 DEF InOrder
  <2> HIDE DEF h, first
  <2>6. /\ After[n] \in SUBSET HeaderId /\ ParentClosed(After[n])
        /\ S \subseteq After[n] /\ After[n] \subseteq S \cup first(n)
        /\ InOrder(S, ops) => After[n] = S \cup first(n)
    OBVIOUS
  <2>7. ParentClosed(After[n + 1])
    BY <2>2, <2>6 DEF ParentClosed
  <2> QED
    BY <2>1, <2>2, <2>3, <2>4, <2>5, <2>6, <2>7
<1>13. N \in D
  <2> HIDE DEF D, N
  <2>1. 0 .. N \subseteq D
    BY <1>1, <1>11, <1>12, StepsUpTo
  <2> QED
    BY <1>1, <2>1
<1>14. first(N) = SeqToSet(ops)
  BY <1>1 DEF SeqToSet
<1> QED
  BY <1>2, <1>13, <1>14
-----------------------------------------------------------------------------
\* What a responder refers to, its graph has.
StateOK(rs) ==
  /\ WorkOK(rs) /\ Len(rs.sentHaves) <= MaxHave
  /\ SeqToSet(rs.sentHaves) \cup HeadersIn(rs.havesQueue) \subseteq rs.snapshot

LEMMA InOrderGrows == ASSUME NEW S, NEW T, S \subseteq T, NEW ops, InOrder(S, ops) PROVE InOrder(T, ops)
BY DEF InOrder

\* The second half of a turn: operations, then proposals.
LEMMA TurnResult ==
  ASSUME NEW l, NEW rs, WorkOK(rs), HeadersIn(rs.havesQueue) \subseteq rs.snapshot, Turn(l, rs)
  PROVE  \E done, ops :
           /\ Respond(l, done, ops) /\ StateOK(done) /\ ops \in Seq(HeaderId)
           /\ done.snapshot = rs.snapshot /\ done.tips = rs.tips /\ done.known = rs.known
           /\ done.ourUnknown = rs.ourUnknown
           /\ SeqToSet(ops) \subseteq rs.snapshot \ (rs.theirKnown \cup rs.ourUnknown)
           /\ done.theirKnown = rs.theirKnown \cup SeqToSet(ops) /\ IsInjective(ops)
           /\ Forest /\ ParentsKnown(rs.sendQueue, rs.theirKnown) /\ rs.ourUnknown \cap rs.snapshot = {} =>
                InOrder(rs.theirKnown, ops) /\ ParentsKnown(done.sendQueue, done.theirKnown)
           /\ done.sentHaves = <<>> => TipsOf(rs.snapshot) \subseteq done.theirKnown \cup done.ourUnknown
<1>1. /\ rs \in ResponderState /\ ParentClosed(rs.snapshot)
      /\ rs.theirKnown \subseteq rs.snapshot /\ Held(rs.sendQueue) \subseteq rs.snapshot
  BY DEF WorkOK
<1>2. /\ rs.snapshot \in SUBSET HeaderId /\ rs.theirKnown \in SUBSET HeaderId
      /\ rs.ourUnknown \in SUBSET HeaderId /\ rs.sendQueue \in Queue(HeaderId)
      /\ rs.havesQueue \in Queue(HaveEntry)
  BY <1>1 DEF ResponderState
<1> DEFINE start == [graph |-> rs.snapshot, unknown |-> rs.ourUnknown, known |-> rs.theirKnown,
                     queue |-> rs.sendQueue, ops |-> <<>>]
           batch == Send[start]
<1>3. /\ start \in SendState /\ start.ops = <<>> /\ start.graph = rs.snapshot /\ start.known = rs.theirKnown
      /\ start.unknown = rs.ourUnknown /\ start.queue = rs.sendQueue
  BY <1>2 DEF SendState
<1>4. PrepareOperations(rs) = batch
  BY DEF PrepareOperations
<1> HIDE DEF start
<1>5. /\ batch \in SendState
      /\ SeqToSet(batch.ops) \subseteq rs.snapshot \ (rs.theirKnown \cup rs.ourUnknown)
      /\ batch.known = rs.theirKnown \cup SeqToSet(batch.ops) /\ IsInjective(batch.ops)
      /\ Held(batch.queue) \subseteq rs.snapshot
      /\ Forest /\ ParentsKnown(rs.sendQueue, rs.theirKnown) /\ rs.ourUnknown \cap rs.snapshot = {} =>
           InOrder(rs.theirKnown, batch.ops) /\ ParentsKnown(batch.queue, batch.known)
  BY <1>1, <1>3, SendResult
<1> HIDE DEF batch
<1>6. batch.known \in SUBSET HeaderId /\ batch.queue \in Queue(HeaderId) /\ batch.ops \in Seq(HeaderId)
  BY <1>5 DEF SendState
<1> DEFINE tips == TipsOf(rs.snapshot)
           haves == Push(rs.havesQueue, tips \X {0})
           after == [PrepareOurTips(rs) EXCEPT !.theirKnown = batch.known, !.sendQueue = batch.queue]
<1>7. /\ haves \in Queue(HaveEntry) /\ tips \in SUBSET HeaderId /\ tips \subseteq rs.snapshot
      /\ Held(haves) = Held(rs.havesQueue) \cup ((tips \X {0}) \cap HaveEntry)
  BY <1>2, QueueFacts DEF TipsOf
<1>8. tips \X {0} \subseteq Held(haves) /\ HeadersIn(haves) \subseteq rs.snapshot
  <2>1. IsFiniteSet(HeaderId)
    BY HeaderAssumption
  <2>2. 0 \in 0 .. Cardinality(HeaderId)
    BY <2>1, FS_CardinalityType
  <2> HIDE DEF haves, tips
  <2>3. tips \X {0} \subseteq HaveEntry
    BY <1>7, <2>2 DEF HaveEntry
  <2>4. \A x \in tips \X {0} : x[1] \in rs.snapshot
    BY <1>7
  <2>5. \A x \in Held(rs.havesQueue) : x[1] \in rs.snapshot
    BY DEF HeadersIn
  <2> QED
    BY <1>7, <2>3, <2>4, <2>5 DEF HeadersIn
<1>9. PrepareOurTips(rs) = [rs EXCEPT !.havesQueue = haves]
  BY <1>1 DEF PrepareOurTips, ResponderState
<1> HIDE DEF haves, tips
<1>10. after = [rs EXCEPT !.havesQueue = haves, !.theirKnown = batch.known, !.sendQueue = batch.queue]
  BY <1>1, <1>9 DEF ResponderState
<1> DEFINE begin == [known |-> batch.known, unknown |-> rs.ourUnknown, queue |-> haves, haves |-> <<>>]
           proposed == Propose[begin]
<1>11. begin \in ProposeState /\ begin.haves = <<>> /\ begin.queue = haves /\ begin.known = batch.known
       /\ begin.unknown = rs.ourUnknown
  BY <1>2, <1>6, <1>7 DEF ProposeState
<1>12. after.theirKnown = batch.known /\ after.ourUnknown = rs.ourUnknown /\ after.havesQueue = haves
  BY <1>1, <1>10 DEF ResponderState
<1>13. PrepareSentHaves(after) = proposed
  BY <1>12 DEF PrepareSentHaves
<1> HIDE DEF begin
<1>14. /\ proposed \in ProposeState
       /\ SeqToSet(proposed.haves) \cup HeadersIn(proposed.queue) \subseteq rs.snapshot
       /\ Len(proposed.haves) <= MaxHave
       /\ proposed.haves = <<>> => tips \subseteq batch.known \cup rs.ourUnknown
  <2> DEFINE G == rs.snapshot
  <2>1. G \in SUBSET HeaderId /\ ParentClosed(G) /\ HeadersIn(begin.queue) \subseteq G
    BY <1>1, <1>2, <1>8, <1>11
  <2>2. tips \X {0} \subseteq Held(begin.queue) /\ tips \in SUBSET HeaderId
    BY <1>7, <1>8, <1>11
  <2> HIDE DEF G
  <2>3. /\ proposed \in ProposeState
        /\ SeqToSet(proposed.haves) \cup HeadersIn(proposed.queue) \subseteq G
        /\ Len(proposed.haves) <= MaxHave
        /\ proposed.haves = <<>> => tips \subseteq begin.known \cup begin.unknown
    BY <1>11, <2>1, <2>2, ProposeResult
  <2> QED
    BY <1>11, <2>3 DEF G
<1> HIDE DEF proposed
<1>15. proposed.haves \in Seq(HeaderId) /\ proposed.queue \in Queue(HaveEntry)
  BY <1>14 DEF ProposeState
<1> DEFINE done == [after EXCEPT !.sentHaves = proposed.haves, !.havesQueue = proposed.queue]
<1>16. Respond(l, done, batch.ops)
  BY <1>4, <1>13 DEF Turn
<1>17. /\ done \in ResponderState /\ done.snapshot = rs.snapshot /\ done.tips = rs.tips
       /\ done.known = rs.known /\ done.ourUnknown = rs.ourUnknown /\ done.theirKnown = batch.known
       /\ done.sendQueue = batch.queue /\ done.sentHaves = proposed.haves /\ done.havesQueue = proposed.queue
  BY <1>1, <1>6, <1>10, <1>15 DEF ResponderState
<1> HIDE DEF after, done
<1>18. StateOK(done)
  BY <1>1, <1>5, <1>14, <1>17 DEF StateOK, WorkOK
<1>19. done.sentHaves = <<>> => TipsOf(rs.snapshot) \subseteq done.theirKnown \cup done.ourUnknown
  BY <1>14, <1>17 DEF tips
<1>20. Forest /\ ParentsKnown(rs.sendQueue, rs.theirKnown) /\ rs.ourUnknown \cap rs.snapshot = {} =>
         InOrder(rs.theirKnown, batch.ops) /\ ParentsKnown(done.sendQueue, done.theirKnown)
  BY <1>5, <1>17
<1>21. /\ SeqToSet(batch.ops) \subseteq rs.snapshot \ (rs.theirKnown \cup rs.ourUnknown)
       /\ done.theirKnown = rs.theirKnown \cup SeqToSet(batch.ops) /\ IsInjective(batch.ops)
  BY <1>5, <1>17
<1> QED
  BY <1>6, <1>16, <1>17, <1>18, <1>19, <1>20, <1>21
-----------------------------------------------------------------------------
\* What a responder has been told that the initiator has.
SaidSoFar(rs) == rs.ourUnknown \cup rs.tips \cup (IF rs.stage = "HaveState" THEN SaidToHave(rs) ELSE {})

\* What a turn makes of the responder rs and the operations it delivers.
Outcome(rs, done, ops) ==
  /\ StateOK(done) /\ ops \in Seq(HeaderId)
  /\ done.snapshot = rs.snapshot /\ done.tips = rs.tips /\ done.known = rs.known
  /\ done.ourUnknown \subseteq rs.ourUnknown \cup rs.tips
  /\ SeqToSet(ops) \subseteq rs.snapshot \ rs.theirKnown /\ IsInjective(ops)
  /\ rs.theirKnown \cup SeqToSet(ops) \subseteq done.theirKnown
  /\ \A theirs \in SUBSET HeaderId :
       Forest /\ ParentClosed(theirs) /\ SaidSoFar(rs) \subseteq theirs /\ WorkTrue(rs, theirs) =>
         /\ done.theirKnown \subseteq theirs \cup SeqToSet(ops)
         /\ InOrder(theirs, ops) /\ ParentsKnown(done.sendQueue, done.theirKnown)
         /\ ops = <<>> /\ done.sentHaves = <<>> => rs.snapshot \subseteq theirs

LEMMA TurnOutcome ==
  ASSUME NEW l, StateOK(responder[l]), ResponderRuns(l) \/ ResponderReruns(l)
  PROVE  \E done, ops : Respond(l, done, ops) /\ Outcome(responder[l], done, ops)
<1> DEFINE old == responder[l]
           said == IF old.stage = "HaveState" THEN SaidToHave(old) ELSE {}
           current == UpdateOurUnknown(old)
           begun == HandleTheirTips(current)
<1>1. WorkOK(old) /\ SeqToSet(old.sentHaves) \subseteq old.snapshot
  BY DEF StateOK
<1>2. Works(old, current, old.ourUnknown) /\ current.ourUnknown = old.ourUnknown \ old.snapshot
  BY <1>1, UpdateOurUnknownWorks
<1>3. PICK rs : Turn(l, rs) /\ (rs = begun \/ (old.stage = "HaveState" /\ rs = HandleTheirKnown(begun)))
  BY DEF ResponderRuns, ResponderReruns
<1> HIDE DEF current
<1>4. /\ Works(current, begun, current.tips)
      /\ begun.ourUnknown = current.ourUnknown \cup (current.tips \ current.snapshot)
  BY <1>2, HandleTheirTipsWorks DEF Works
<1> HIDE DEF begun, old
<1>5. /\ Works(old, begun, old.ourUnknown \cup old.tips)
      /\ begun.ourUnknown = (old.ourUnknown \cup old.tips) \ old.snapshot
  <2>1. current.tips = old.tips /\ current.snapshot = old.snapshot
    BY <1>2 DEF Works, Fixed
  <2> QED
    BY <1>2, <1>4, <2>1, WorksThenWorks
<1>6. /\ Works(old, rs, SaidSoFar(old))
      /\ rs.ourUnknown = (old.ourUnknown \cup old.tips) \ old.snapshot
  <2>1. CASE rs = begun
    <3>1. old.ourUnknown \cup old.tips \subseteq SaidSoFar(old)
      BY DEF SaidSoFar
    <3> QED
      BY <1>5, <2>1, <3>1 DEF Works
  <2>2. CASE old.stage = "HaveState" /\ rs = HandleTheirKnown(begun)
    <3>1. /\ begun.snapshot = old.snapshot /\ begun.known = old.known /\ begun.sentHaves = old.sentHaves
          /\ WorkOK(begun)
      BY <1>5 DEF Works, Fixed
    <3>2. Works(begun, rs, SaidToHave(begun)) /\ rs.ourUnknown = begun.ourUnknown
      BY <1>1, <2>2, <3>1, HandleTheirKnownWorks
    <3>3. Works(old, rs, (old.ourUnknown \cup old.tips) \cup SaidToHave(begun))
      BY <1>5, <3>2, WorksThenWorks
    <3>4. (old.ourUnknown \cup old.tips) \cup SaidToHave(begun) = SaidSoFar(old)
      BY <2>2, <3>1 DEF SaidSoFar, SaidToHave
    <3> QED
      BY <1>5, <3>2, <3>3, <3>4
  <2> QED
    BY <1>3, <2>1, <2>2
<1>7. /\ WorkOK(rs) /\ rs.snapshot = old.snapshot /\ rs.tips = old.tips /\ rs.known = old.known
      /\ rs.havesQueue = old.havesQueue /\ old.theirKnown \subseteq rs.theirKnown
  BY <1>6 DEF Works, Fixed
<1>8. HeadersIn(rs.havesQueue) \subseteq rs.snapshot
  BY <1>7 DEF StateOK, old
<1>9. PICK done, ops :
           /\ Respond(l, done, ops) /\ StateOK(done) /\ ops \in Seq(HeaderId)
           /\ done.snapshot = rs.snapshot /\ done.tips = rs.tips /\ done.known = rs.known
           /\ done.ourUnknown = rs.ourUnknown
           /\ SeqToSet(ops) \subseteq rs.snapshot \ (rs.theirKnown \cup rs.ourUnknown)
           /\ done.theirKnown = rs.theirKnown \cup SeqToSet(ops) /\ IsInjective(ops)
           /\ Forest /\ ParentsKnown(rs.sendQueue, rs.theirKnown) /\ rs.ourUnknown \cap rs.snapshot = {} =>
                InOrder(rs.theirKnown, ops) /\ ParentsKnown(done.sendQueue, done.theirKnown)
           /\ done.sentHaves = <<>> => TipsOf(rs.snapshot) \subseteq done.theirKnown \cup done.ourUnknown
  BY <1>3, <1>7, <1>8, TurnResult
<1>10. ASSUME NEW theirs \in SUBSET HeaderId, Forest, ParentClosed(theirs), SaidSoFar(old) \subseteq theirs,
              WorkTrue(old, theirs)
       PROVE  /\ done.theirKnown \subseteq theirs \cup SeqToSet(ops)
              /\ InOrder(theirs, ops) /\ ParentsKnown(done.sendQueue, done.theirKnown)
              /\ ops = <<>> /\ done.sentHaves = <<>> => old.snapshot \subseteq theirs
  <2>1. WorkTrue(rs, theirs)
    BY <1>6, <1>10 DEF Works
  <2>2. rs.theirKnown \subseteq theirs /\ ParentsKnown(rs.sendQueue, rs.theirKnown)
    BY <2>1 DEF WorkTrue
  <2>3. rs.ourUnknown \cap rs.snapshot = {}
    BY <1>6, <1>7
  <2>4. InOrder(rs.theirKnown, ops) /\ ParentsKnown(done.sendQueue, done.theirKnown)
    BY <1>9, <1>10, <2>2, <2>3
  <2>5. InOrder(theirs, ops)
    BY <2>2, <2>4, InOrderGrows
  <2>6. done.theirKnown \subseteq theirs \cup SeqToSet(ops)
    BY <1>9, <2>2
  <2>7. ASSUME ops = <<>>, done.sentHaves = <<>> PROVE old.snapshot \subseteq theirs
    <3>1. SeqToSet(ops) = {}
      BY <2>7 DEF SeqToSet
    <3>2. TipsOf(old.snapshot) \subseteq done.theirKnown \cup done.ourUnknown /\ TipsOf(old.snapshot) \subseteq old.snapshot
      BY <1>7, <1>9, <2>7 DEF TipsOf
    <3>3. done.ourUnknown \cap old.snapshot = {}
      BY <1>6, <1>9
    <3>4. TipsOf(old.snapshot) \subseteq theirs
      BY <2>6, <3>1, <3>2, <3>3
    <3>5. old.snapshot \in SUBSET HeaderId
      BY <1>1 DEF WorkOK, ResponderState
    <3> QED
      BY <1>10, <3>4, <3>5, TipsCover
  <2> QED
    BY <2>4, <2>5, <2>6, <2>7
<1>11. done.ourUnknown \subseteq old.ourUnknown \cup old.tips
  BY <1>6, <1>9
<1>12. /\ SeqToSet(ops) \subseteq old.snapshot \ old.theirKnown /\ IsInjective(ops)
       /\ old.theirKnown \cup SeqToSet(ops) \subseteq done.theirKnown
  BY <1>7, <1>9
<1>13. Outcome(old, done, ops)
  BY <1>7, <1>9, <1>10, <1>11, <1>12 DEF Outcome
<1> QED
  BY <1>9, <1>13 DEF old
-----------------------------------------------------------------------------
(***************************************************************************)
(* What the ends of a link have, say and believe.                          *)
(***************************************************************************)
LEMMA EndsOfSequences ==
  ASSUME NEW S, NEW s \in Seq(S)
  PROVE  /\ SeqToSet(s) \in SUBSET S
         /\ \A x \in S : Append(s, x) \in Seq(S) /\ SeqToSet(Append(s, x)) = SeqToSet(s) \cup {x}
         /\ s # <<>> => /\ Head(s) \in S /\ Tail(s) \in Seq(S)
                        /\ SeqToSet(s) = {Head(s)} \cup SeqToSet(Tail(s))
<1> DEFINE n == Len(s)
<1>1. n \in Nat /\ DOMAIN s = 1 .. n /\ \A k \in 1 .. n : s[k] \in S
  OBVIOUS
<1>2. SeqToSet(s) \in SUBSET S
  BY <1>1 DEF SeqToSet
<1>3. ASSUME NEW x \in S PROVE Append(s, x) \in Seq(S) /\ SeqToSet(Append(s, x)) = SeqToSet(s) \cup {x}
  <2> DEFINE long == Append(s, x)
  <2>1. /\ long \in Seq(S) /\ DOMAIN long = 1 .. n + 1 /\ long[n + 1] = x
        /\ \A k \in 1 .. n : long[k] = s[k]
    OBVIOUS
  <2> HIDE DEF long, n
  <2>2. \A k \in 1 .. n + 1 : k \in 1 .. n \/ k = n + 1
    BY <1>1
  <2>3. n + 1 \in 1 .. n + 1 /\ \A k \in 1 .. n : k \in 1 .. n + 1
    BY <1>1
  <2>4. SeqToSet(long) = SeqToSet(s) \cup {x}
    BY <1>1, <2>1, <2>2, <2>3 DEF SeqToSet
  <2> QED
    BY <2>1, <2>4 DEF long
<1>4. ASSUME s # <<>> PROVE Head(s) \in S /\ Tail(s) \in Seq(S) /\ SeqToSet(s) = {Head(s)} \cup SeqToSet(Tail(s))
  <2> DEFINE rest == Tail(s)
  <2>1. /\ rest \in Seq(S) /\ DOMAIN rest = 1 .. n - 1 /\ Head(s) = s[1] /\ n # 0
        /\ \A k \in 1 .. n - 1 : rest[k] = s[k + 1]
    BY <1>4
  <2> HIDE DEF rest, n
  <2>2. 1 \in 1 .. n /\ \A k \in 1 .. n - 1 : k + 1 \in 1 .. n
    BY <1>1, <2>1
  <2>3. \A k \in 1 .. n : k = 1 \/ (k - 1 \in 1 .. n - 1 /\ (k - 1) + 1 = k)
    BY <1>1
  <2>4. SeqToSet(s) \subseteq {Head(s)} \cup SeqToSet(rest)
    <3> SUFFICES ASSUME NEW k \in 1 .. n PROVE s[k] \in {Head(s)} \cup SeqToSet(rest)
      BY <1>1 DEF SeqToSet
    <3>1. CASE k = 1
      BY <2>1, <3>1
    <3>2. CASE k # 1
      <4>1. k - 1 \in 1 .. n - 1 /\ rest[k - 1] = s[k]
        BY <2>1, <2>3, <3>2
      <4> QED
        BY <2>1, <4>1 DEF SeqToSet
    <3> QED
      BY <3>1, <3>2, Zenon
  <2>5. {Head(s)} \cup SeqToSet(rest) \subseteq SeqToSet(s)
    <3>1. Head(s) \in SeqToSet(s)
      BY <1>1, <2>1, <2>2 DEF SeqToSet
    <3>2. ASSUME NEW k \in 1 .. n - 1 PROVE rest[k] \in SeqToSet(s)
      BY <1>1, <2>1, <2>2 DEF SeqToSet
    <3>3. SeqToSet(rest) \subseteq SeqToSet(s)
      BY <2>1, <3>2 DEF SeqToSet
    <3> QED
      BY <3>1, <3>3
  <2>6. Head(s) \in S
    BY <1>1, <2>1, <2>2
  <2> QED
    BY <2>1, <2>4, <2>5, <2>6 DEF rest
<1> QED
  BY <1>2, <1>3, <1>4
-----------------------------------------------------------------------------
(***************************************************************************)
(* What is right about a link, given what its ends have (theirs: the       *)
(* initiator's graph, ours: the responder's).                              *)
(***************************************************************************)
RequestMsg == [initial : BOOLEAN, tips : SUBSET HeaderId, known : SUBSET (1 .. MaxHave)]

Typed(cmd, ini, req, res, rec, rs) ==
  /\ cmd \in Seq(SUBSET HeaderId) /\ ini \in InitiatorState /\ req \in Seq(RequestMsg)
  /\ res \in Seq(ResponseMsg) /\ rec \in Seq(Seq(HeaderId)) /\ rs \in ResponderState
  /\ Len(ini.have) <= MaxHave /\ Len(rs.sentHaves) <= MaxHave
  /\ \A m \in SeqToSet(res) : m.type = "Response" => Len(m.have) <= MaxHave

\* The graph the responder works on is one its store has had, and has all
\* that the responder refers to.
Refers(rs) == rs.theirKnown \cup Held(rs.sendQueue) \cup SeqToSet(rs.sentHaves) \cup HeadersIn(rs.havesQueue)
InGraph(ours, rs) ==
  /\ rs.snapshot \subseteq ours /\ ParentClosed(rs.snapshot)
  /\ rs.stage \notin {"Receive", "RequestState"} => Refers(rs) \subseteq rs.snapshot
  /\ Refers(rs) \subseteq ours

\* What the responder has been told of the initiator, or will be.
Answers(theirs, known, rs) == \A k \in known \cap DOMAIN rs.sentHaves : rs.sentHaves[k] \in theirs
ToldTrue(theirs, cmd, req, rs) ==
  /\ rs.ourUnknown \cup rs.tips \subseteq theirs
  /\ rs.stage \in {"RequestState", "HaveState"} => Answers(theirs, rs.known, rs)
  /\ \A graph \in SeqToSet(cmd) : graph \subseteq theirs
  /\ \A r \in SeqToSet(req) : r.tips \subseteq theirs /\ (~r.initial => Answers(theirs, r.known, rs))

\* The operations under way, by the response they are in, and what the
\* responder makes of them.
OnTheWay(res, rec) ==
  {m.operations : m \in {n \in SeqToSet(res) : n.type = "Response"}} \cup SeqToSet(rec)
KnownTrue(theirs, batches, rs) ==
  /\ rs.theirKnown \subseteq theirs \cup UNION {SeqToSet(ops) : ops \in batches}
  /\ ParentsKnown(rs.sendQueue, rs.theirKnown)
SentRight(theirs, batches) == \A ops \in batches : InOrder(theirs, ops)

\* Only what the responder's store has is ever sent.
SentOurs(ours, batches) == \A ops \in batches : SeqToSet(ops) \subseteq ours

\* The responder has nothing for the initiator when it goes to sleep.
CaughtUp(theirs, ours, rs) ==
  /\ rs.stage \in {"Subscribe", "Subscribed"} => rs.snapshot \subseteq theirs
  /\ rs.stage = "Subscribed" => ours \subseteq theirs

Right(theirs, ours, cmd, ini, req, res, rec, rs) ==
  /\ Typed(cmd, ini, req, res, rec, rs) /\ InGraph(ours, rs) /\ SentOurs(ours, OnTheWay(res, rec))
  /\ Forest => /\ ToldTrue(theirs, cmd, req, rs) /\ KnownTrue(theirs, OnTheWay(res, rec), rs)
               /\ SentRight(theirs, OnTheWay(res, rec)) /\ CaughtUp(theirs, ours, rs)

LinkRight(l) ==
  Right(ecg[Initiator(l)], ecg[Responder(l)], command[l], initiator[l], request[l], response[l],
        received[l], responder[l])

GraphsOK == ecg \in [Device -> SUBSET HeaderId] /\ \A d \in Device : ParentClosed(ecg[d])

CInv == GraphsOK /\ outgoing \in [Link -> OutgoingStatus] /\ \A l \in Link : LinkRight(l)

\* A graph only grows, and stays a graph.
Grown(old, new) == new \in SUBSET HeaderId /\ ParentClosed(new) /\ old \subseteq new

\* A link that is not acted on: its initiator may be asked to synchronise, its
\* responder is woken if there is something new for the initiator.
AskedOrWoken(theirs2, ours2, cmd, cmd2, rs, rs2) ==
  /\ cmd2 = cmd \/ cmd2 = Append(cmd, theirs2)
  /\ \/ rs2 = rs /\ (Forest /\ rs.stage = "Subscribed" => ours2 \subseteq theirs2)
     \/ rs2 = [rs EXCEPT !.stage = "Updated", !.snapshot = ours2]

LEMMA RightForBystander ==
  ASSUME NEW theirs, NEW ours, NEW cmd, NEW ini, NEW req, NEW res, NEW rec, NEW rs,
         Right(theirs, ours, cmd, ini, req, res, rec, rs),
         NEW theirs2, NEW ours2, NEW cmd2, NEW rs2,
         Grown(theirs, theirs2), Grown(ours, ours2),
         AskedOrWoken(theirs2, ours2, cmd, cmd2, rs, rs2)
  PROVE  Right(theirs2, ours2, cmd2, ini, req, res, rec, rs2)
<1>1. /\ Typed(cmd, ini, req, res, rec, rs) /\ InGraph(ours, rs)
      /\ theirs \subseteq theirs2 /\ ours \subseteq ours2
      /\ theirs2 \in SUBSET HeaderId /\ ours2 \in SUBSET HeaderId /\ ParentClosed(ours2)
  BY DEF Right, Grown
<1>2. cmd2 \in Seq(SUBSET HeaderId) /\ SeqToSet(cmd2) \subseteq SeqToSet(cmd) \cup {theirs2}
  <2> DEFINE S == SUBSET HeaderId
  <2>1. cmd \in Seq(S) /\ theirs2 \in S
    BY <1>1 DEF Typed
  <2> HIDE DEF S
  <2>2. Append(cmd, theirs2) \in Seq(S) /\ SeqToSet(Append(cmd, theirs2)) = SeqToSet(cmd) \cup {theirs2}
    BY <2>1, EndsOfSequences
  <2>3. cmd2 \in Seq(S) /\ SeqToSet(cmd2) \subseteq SeqToSet(cmd) \cup {theirs2}
    BY <2>1, <2>2 DEF AskedOrWoken
  <2> QED
    BY <2>3 DEF S
<1>3. rs \in ResponderState
  BY <1>1 DEF Typed
<1>4. /\ rs2 \in ResponderState /\ rs2.sentHaves = rs.sentHaves /\ rs2.theirKnown = rs.theirKnown
      /\ rs2.sendQueue = rs.sendQueue /\ rs2.havesQueue = rs.havesQueue /\ rs2.ourUnknown = rs.ourUnknown
      /\ rs2.tips = rs.tips /\ rs2.known = rs.known
      /\ \/ rs2 = rs /\ (Forest /\ rs.stage = "Subscribed" => ours2 \subseteq theirs2)
         \/ rs2.stage = "Updated" /\ rs2.snapshot = ours2
  BY <1>1, <1>3 DEF AskedOrWoken, ResponderState, ResponderStage
<1>5. Typed(cmd2, ini, req, res, rec, rs2)
  BY <1>1, <1>2, <1>4 DEF Typed
<1>6. InGraph(ours2, rs2)
  <2>1. Refers(rs2) = Refers(rs)
    BY <1>4 DEF Refers
  <2> QED
    BY <1>1, <1>4, <2>1 DEF InGraph
<1>7. ASSUME Forest
      PROVE  /\ ToldTrue(theirs2, cmd2, req, rs2) /\ KnownTrue(theirs2, OnTheWay(res, rec), rs2)
             /\ SentRight(theirs2, OnTheWay(res, rec)) /\ CaughtUp(theirs2, ours2, rs2)
  <2>1. /\ ToldTrue(theirs, cmd, req, rs) /\ KnownTrue(theirs, OnTheWay(res, rec), rs)
        /\ SentRight(theirs, OnTheWay(res, rec)) /\ CaughtUp(theirs, ours, rs)
    BY <1>7 DEF Right
  <2>2. \A known : Answers(theirs, known, rs) => Answers(theirs2, known, rs2)
    BY <1>1, <1>4 DEF Answers
  <2>3. ToldTrue(theirs2, cmd2, req, rs2)
    <3>1. rs2.ourUnknown \cup rs2.tips \subseteq theirs2
      BY <1>1, <1>4, <2>1 DEF ToldTrue
    <3>2. rs2.stage \in {"RequestState", "HaveState"} => Answers(theirs2, rs2.known, rs2)
      BY <1>4, <2>1, <2>2 DEF ToldTrue
    <3>3. \A graph \in SeqToSet(cmd2) : graph \subseteq theirs2
      BY <1>1, <1>2, <2>1 DEF ToldTrue
    <3>4. \A r \in SeqToSet(req) : r.tips \subseteq theirs2 /\ (~r.initial => Answers(theirs2, r.known, rs2))
      BY <1>1, <2>1, <2>2 DEF ToldTrue
    <3> QED
      BY <3>1, <3>2, <3>3, <3>4 DEF ToldTrue
  <2>4. KnownTrue(theirs2, OnTheWay(res, rec), rs2)
    BY <1>1, <1>4, <2>1 DEF KnownTrue
  <2>5. SentRight(theirs2, OnTheWay(res, rec))
    BY <1>1, <2>1, InOrderGrows DEF SentRight
  <2>6. CaughtUp(theirs2, ours2, rs2)
    BY <1>1, <1>4, <1>7, <2>1 DEF CaughtUp
  <2> QED
    BY <2>3, <2>4, <2>5, <2>6
<1>8. SentOurs(ours2, OnTheWay(res, rec))
  BY <1>1 DEF Right, SentOurs
<1> QED
  BY <1>5, <1>6, <1>7, <1>8 DEF Right
-----------------------------------------------------------------------------
\* InitiatorRequests: what it says it has, it has.
LEMMA RightAfterRequest ==
  ASSUME NEW theirs, NEW ours, NEW cmd, NEW ini, NEW req, NEW res, NEW rec, NEW rs,
         Right(theirs, ours, cmd, ini, req, res, rec, rs),
         cmd # <<>>, ini.started => ini.have = rs.sentHaves
  PROVE  Right(theirs, ours, Tail(cmd), [ini EXCEPT !.stage = "Response"],
               Append(req, [initial |-> ~ini.started, tips |-> TipsOf(Head(cmd)),
                            known |-> {i \in DOMAIN ini.have : ini.have[i] \in Head(cmd)}]),
               res, rec, rs)
<1> DEFINE graph == Head(cmd)
           cmd2 == Tail(cmd)
           known == {i \in DOMAIN ini.have : ini.have[i] \in graph}
           r == [initial |-> ~ini.started, tips |-> TipsOf(graph), known |-> known]
           req2 == Append(req, r)
           ini2 == [ini EXCEPT !.stage = "Response"]
<1>1. Typed(cmd, ini, req, res, rec, rs) /\ InGraph(ours, rs)
  BY DEF Right
<1>2. graph \in SUBSET HeaderId /\ cmd2 \in Seq(SUBSET HeaderId) /\ SeqToSet(cmd) = {graph} \cup SeqToSet(cmd2)
  <2> DEFINE S == SUBSET HeaderId
  <2>1. cmd \in Seq(S)
    BY <1>1 DEF Typed
  <2> HIDE DEF S
  <2>2. graph \in S /\ cmd2 \in Seq(S) /\ SeqToSet(cmd) = {graph} \cup SeqToSet(cmd2)
    BY <2>1, EndsOfSequences
  <2> QED
    BY <2>2 DEF S
<1> HIDE DEF graph, cmd2
<1>3. /\ ini.have \in Seq(HeaderId) /\ Len(ini.have) <= MaxHave /\ ini.started \in BOOLEAN
      /\ ini2 \in InitiatorState /\ ini2.have = ini.have
  BY <1>1 DEF Typed, InitiatorState
<1>4. r \in RequestMsg
  <2>1. DOMAIN ini.have \subseteq 1 .. MaxHave
    BY <1>3, SyncAssumption
  <2>2. known \in SUBSET (1 .. MaxHave) /\ TipsOf(graph) \in SUBSET HeaderId
    BY <1>2, <2>1 DEF TipsOf
  <2> HIDE DEF known
  <2> QED
    BY <1>3, <2>2 DEF RequestMsg
<1>5. r.tips \subseteq graph /\ r.known = known /\ r.initial = ~ini.started
  BY DEF TipsOf
<1>6. /\ \A i \in known \cap DOMAIN ini.have : ini.have[i] \in graph
  OBVIOUS
<1> HIDE DEF known, r, ini2
<1>7. req2 \in Seq(RequestMsg) /\ SeqToSet(req2) = SeqToSet(req) \cup {r}
  BY <1>1, <1>4, EndsOfSequences DEF Typed
<1> HIDE DEF req2
<1>8. Typed(cmd2, ini2, req2, res, rec, rs)
  BY <1>1, <1>2, <1>3, <1>7 DEF Typed
<1>9. ASSUME Forest PROVE ToldTrue(theirs, cmd2, req2, rs)
  <2>1. ToldTrue(theirs, cmd, req, rs)
    BY <1>9 DEF Right
  <2>2. graph \subseteq theirs
    BY <1>2, <2>1 DEF ToldTrue
  <2>3. r.tips \subseteq theirs /\ (~r.initial => Answers(theirs, r.known, rs))
    BY <1>3, <1>5, <1>6, <2>2 DEF Answers
  <2> QED
    BY <1>2, <1>7, <2>1, <2>3 DEF ToldTrue
<1>10. Right(theirs, ours, cmd2, ini2, req2, res, rec, rs)
  BY <1>1, <1>8, <1>9 DEF Right
<1> QED
  BY <1>10 DEF req2, r, known, ini2, cmd2, graph

\* InitiatorWaits, InitiatorReceives: a response on its way stays on it until
\* the store has it.
LEMMA RightAfterWait ==
  ASSUME NEW theirs, NEW ours, NEW cmd, NEW ini, NEW req, NEW res, NEW rec, NEW rs,
         Right(theirs, ours, cmd, ini, req, res, rec, rs),
         res # <<>>, Head(res).type = "Wait"
  PROVE  Right(theirs, ours, cmd, [ini EXCEPT !.stage = "ResponseAfterWait"], req, Tail(res), rec, rs)
<1> DEFINE m == Head(res)
           res2 == Tail(res)
           ini2 == [ini EXCEPT !.stage = "ResponseAfterWait"]
<1>1. Typed(cmd, ini, req, res, rec, rs)
  BY DEF Right
<1>2. res2 \in Seq(ResponseMsg) /\ SeqToSet(res) = {m} \cup SeqToSet(res2) /\ m.type = "Wait"
  BY <1>1, EndsOfSequences DEF Typed
<1> HIDE DEF m, res2
<1>3. ini2 \in InitiatorState /\ ini2.have = ini.have
  BY <1>1 DEF Typed, InitiatorState
<1>4. OnTheWay(res2, rec) = OnTheWay(res, rec)
  <2>1. \A n : n \in SeqToSet(res) /\ n.type = "Response" <=> n \in SeqToSet(res2) /\ n.type = "Response"
    BY <1>2
  <2> QED
    BY <2>1 DEF OnTheWay
<1>5. Typed(cmd, ini2, req, res2, rec, rs)
  BY <1>1, <1>2, <1>3 DEF Typed
<1>6. Right(theirs, ours, cmd, ini2, req, res2, rec, rs)
  BY <1>4, <1>5 DEF Right
<1> QED
  BY <1>6 DEF ini2, res2

LEMMA RightAfterResponse ==
  ASSUME NEW theirs, NEW ours, NEW cmd, NEW ini, NEW req, NEW res, NEW rec, NEW rs,
         Right(theirs, ours, cmd, ini, req, res, rec, rs),
         res # <<>>, Head(res).type = "Response"
  PROVE  Right(theirs, ours, cmd, [stage |-> "Command", started |-> TRUE, have |-> Head(res).have],
               req, Tail(res), Append(rec, Head(res).operations), rs)
<1> DEFINE m == Head(res)
           res2 == Tail(res)
           rec2 == Append(rec, m.operations)
           ini2 == [stage |-> "Command", started |-> TRUE, have |-> m.have]
<1>1. Typed(cmd, ini, req, res, rec, rs)
  BY DEF Right
<1>2. /\ res2 \in Seq(ResponseMsg) /\ SeqToSet(res) = {m} \cup SeqToSet(res2) /\ m.type = "Response"
      /\ m \in ResponseMsg
  BY <1>1, EndsOfSequences DEF Typed
<1> HIDE DEF m, res2
<1>3. m.have \in Seq(HeaderId) /\ m.operations \in Seq(HeaderId) /\ Len(m.have) <= MaxHave
  BY <1>1, <1>2 DEF ResponseMsg, Typed
<1>4. rec2 \in Seq(Seq(HeaderId)) /\ SeqToSet(rec2) = SeqToSet(rec) \cup {m.operations}
  <2> DEFINE S == Seq(HeaderId)
  <2>1. rec \in Seq(S) /\ m.operations \in S
    BY <1>1, <1>3 DEF Typed
  <2> HIDE DEF S
  <2>2. rec2 \in Seq(S) /\ SeqToSet(rec2) = SeqToSet(rec) \cup {m.operations}
    BY <2>1, EndsOfSequences
  <2> QED
    BY <2>2 DEF S
<1> HIDE DEF rec2
<1>5. ini2 \in InitiatorState /\ ini2.have = m.have
  BY <1>3 DEF InitiatorState
<1> HIDE DEF ini2
<1>6. OnTheWay(res2, rec2) = OnTheWay(res, rec)
  <2>1. \A ops : ops \in OnTheWay(res, rec) <=>
          (\E n \in SeqToSet(res) : n.type = "Response" /\ n.operations = ops) \/ ops \in SeqToSet(rec)
    BY DEF OnTheWay
  <2>2. \A ops : ops \in OnTheWay(res2, rec2) <=>
          (\E n \in SeqToSet(res2) : n.type = "Response" /\ n.operations = ops) \/ ops \in SeqToSet(rec2)
    BY DEF OnTheWay
  <2>3. \A ops : ops \in OnTheWay(res2, rec2) <=> ops \in OnTheWay(res, rec)
    BY <1>2, <1>4, <2>1, <2>2
  <2> QED
    BY <2>3 DEF OnTheWay
<1>7. Typed(cmd, ini2, req, res2, rec2, rs)
  BY <1>1, <1>2, <1>3, <1>4, <1>5 DEF Typed
<1>8. Right(theirs, ours, cmd, ini2, req, res2, rec2, rs)
  BY <1>6, <1>7 DEF Right
<1> QED
  BY <1>8 DEF ini2, rec2, res2, m

\* ResponderReceives.
LEMMA RightAfterReceive ==
  ASSUME NEW theirs, NEW ours, NEW cmd, NEW ini, NEW req, NEW res, NEW rec, NEW rs,
         Right(theirs, ours, cmd, ini, req, res, rec, rs), req # <<>>
  PROVE  Right(theirs, ours, cmd, ini, Tail(req), res, rec,
               [(IF Head(req).initial THEN NewResponder ELSE rs) EXCEPT
                  !.stage = "RequestState", !.tips = Head(req).tips, !.known = Head(req).known])
<1> DEFINE r == Head(req)
           req2 == Tail(req)
           old == IF r.initial THEN NewResponder ELSE rs
           rs2 == [old EXCEPT !.stage = "RequestState", !.tips = r.tips, !.known = r.known]
<1>1. Typed(cmd, ini, req, res, rec, rs) /\ InGraph(ours, rs) /\ rs \in ResponderState
  BY DEF Right, Typed
<1>2. req2 \in Seq(RequestMsg) /\ SeqToSet(req) = {r} \cup SeqToSet(req2) /\ r \in RequestMsg
  BY <1>1, EndsOfSequences DEF Typed
<1> HIDE DEF r, req2
<1>3. r.tips \in SUBSET HeaderId /\ r.known \in SUBSET Nat /\ r.initial \in BOOLEAN
  BY <1>2, SyncAssumption DEF RequestMsg
<1>4. /\ NewResponder \in ResponderState /\ NewResponder.theirKnown = {} /\ NewResponder.ourUnknown = {}
      /\ Held(NewResponder.sendQueue) = {} /\ NewResponder.sentHaves = <<>>
      /\ Held(NewResponder.havesQueue) = {} /\ NewResponder.snapshot = {}
  BY EmptyQueueFacts DEF NewResponder, ResponderState, ResponderStage
<1>5. old \in ResponderState
  BY <1>1, <1>4
<1> HIDE DEF old
<1>6. /\ rs2 \in ResponderState /\ rs2.stage = "RequestState" /\ rs2.tips = r.tips /\ rs2.known = r.known
      /\ rs2.theirKnown = old.theirKnown /\ rs2.ourUnknown = old.ourUnknown
      /\ rs2.sendQueue = old.sendQueue /\ rs2.sentHaves = old.sentHaves
      /\ rs2.havesQueue = old.havesQueue /\ rs2.snapshot = old.snapshot
  BY <1>3, <1>5 DEF ResponderState, ResponderStage
<1> HIDE DEF rs2
<1>7. Len(<<>>) = 0 /\ SeqToSet(<<>>) = {} /\ DOMAIN <<>> = {} /\ 0 <= MaxHave
  BY SyncAssumption DEF SeqToSet
<1>8. Typed(cmd, ini, req2, res, rec, rs2)
  BY <1>1, <1>2, <1>4, <1>6, <1>7 DEF Typed, old
<1>9. InGraph(ours, rs2)
  <2>1. rs2.snapshot \subseteq ours /\ ParentClosed(rs2.snapshot)
    BY <1>1, <1>4, <1>6 DEF InGraph, ParentClosed, old
  <2>2. Refers(old) \subseteq ours
    <3>1. Refers(NewResponder) = {}
      BY <1>4, <1>7 DEF Refers, HeadersIn
    <3> QED
      BY <1>1, <3>1 DEF InGraph, old
  <2>3. Refers(rs2) = Refers(old)
    BY <1>6 DEF Refers
  <2> QED
    BY <1>6, <2>1, <2>2, <2>3 DEF InGraph
<1>10. ASSUME Forest
       PROVE  /\ ToldTrue(theirs, cmd, req2, rs2) /\ KnownTrue(theirs, OnTheWay(res, rec), rs2)
              /\ SentRight(theirs, OnTheWay(res, rec)) /\ CaughtUp(theirs, ours, rs2)
  <2>1. /\ ToldTrue(theirs, cmd, req, rs) /\ KnownTrue(theirs, OnTheWay(res, rec), rs)
        /\ SentRight(theirs, OnTheWay(res, rec))
    BY <1>10 DEF Right
  <2>2. \A known : r.initial \/ Answers(theirs, known, rs) => Answers(theirs, known, rs2)
    BY <1>4, <1>6, <1>7 DEF Answers, old
  <2>3. \A known : Answers(theirs, known, rs) => Answers(theirs, known, rs2)
    BY <2>2
  <2>4. r.tips \subseteq theirs /\ Answers(theirs, r.known, rs2)
    BY <1>2, <1>3, <2>1, <2>2 DEF ToldTrue
  <2>5. rs2.ourUnknown \subseteq theirs
    BY <1>4, <1>6, <2>1 DEF ToldTrue, old
  <2>6. ToldTrue(theirs, cmd, req2, rs2)
    BY <1>2, <1>6, <2>1, <2>3, <2>4, <2>5 DEF ToldTrue
  <2>7. KnownTrue(theirs, OnTheWay(res, rec), rs2)
    BY <1>4, <1>6, <2>1 DEF KnownTrue, ParentsKnown, old
  <2>8. CaughtUp(theirs, ours, rs2)
    BY <1>6 DEF CaughtUp
  <2> QED
    BY <2>1, <2>6, <2>7, <2>8
<1>11. Right(theirs, ours, cmd, ini, req2, res, rec, rs2)
  BY <1>8, <1>9, <1>10 DEF Right
<1> QED
  BY <1>11 DEF rs2, old, req2, r

\* SubscribeECG answered with the graph of the store.
LEMMA RightAfterShare ==
  ASSUME NEW theirs, NEW ours \in SUBSET HeaderId, ParentClosed(ours),
         NEW cmd, NEW ini, NEW req, NEW res, NEW rec, NEW rs,
         Right(theirs, ours, cmd, ini, req, res, rec, rs),
         NEW stage, \/ stage = "HaveState" /\ rs.stage = "RequestState"
                    \/ stage = "Updated"
  PROVE  Right(theirs, ours, cmd, ini, req, res, rec, [rs EXCEPT !.stage = stage, !.snapshot = ours])
<1> DEFINE rs2 == [rs EXCEPT !.stage = stage, !.snapshot = ours]
<1>1. Typed(cmd, ini, req, res, rec, rs) /\ InGraph(ours, rs) /\ rs \in ResponderState
  BY DEF Right, Typed
<1>2. /\ rs2 \in ResponderState /\ rs2.stage = stage /\ rs2.snapshot = ours
      /\ rs2.sentHaves = rs.sentHaves /\ rs2.theirKnown = rs.theirKnown
      /\ rs2.sendQueue = rs.sendQueue /\ rs2.havesQueue = rs.havesQueue /\ rs2.ourUnknown = rs.ourUnknown
      /\ rs2.tips = rs.tips /\ rs2.known = rs.known
  BY <1>1 DEF ResponderState, ResponderStage
<1> HIDE DEF rs2
<1>3. Typed(cmd, ini, req, res, rec, rs2)
  BY <1>1, <1>2 DEF Typed
<1>4. InGraph(ours, rs2)
  <2>1. Refers(rs2) = Refers(rs)
    BY <1>2 DEF Refers
  <2> QED
    BY <1>1, <1>2, <2>1 DEF InGraph
<1>5. ASSUME Forest
      PROVE  /\ ToldTrue(theirs, cmd, req, rs2) /\ KnownTrue(theirs, OnTheWay(res, rec), rs2)
             /\ CaughtUp(theirs, ours, rs2)
  <2>1. ToldTrue(theirs, cmd, req, rs) /\ KnownTrue(theirs, OnTheWay(res, rec), rs)
    BY <1>5 DEF Right
  <2>2. \A known : Answers(theirs, known, rs) => Answers(theirs, known, rs2)
    BY <1>2 DEF Answers
  <2>3. ToldTrue(theirs, cmd, req, rs2)
    BY <1>2, <2>1, <2>2 DEF ToldTrue
  <2>4. KnownTrue(theirs, OnTheWay(res, rec), rs2) /\ CaughtUp(theirs, ours, rs2)
    BY <1>2, <2>1 DEF KnownTrue, CaughtUp
  <2> QED
    BY <2>3, <2>4
<1>6. Right(theirs, ours, cmd, ini, req, res, rec, rs2)
  BY <1>3, <1>4, <1>5 DEF Right
<1> QED
  BY <1>6 DEF rs2
-----------------------------------------------------------------------------
\* SubscribeECG with the tips of the whole graph: the responder goes to sleep.
LEMMA RightAfterSubscribe ==
  ASSUME NEW theirs, NEW ours \in SUBSET HeaderId, ParentClosed(ours),
         NEW cmd, NEW ini, NEW req, NEW res, NEW rec, NEW rs,
         Right(theirs, ours, cmd, ini, req, res, rec, rs),
         rs.stage = "Subscribe", TipsOf(ours) = TipsOf(rs.snapshot)
  PROVE  Right(theirs, ours, cmd, ini, req, res, rec, [rs EXCEPT !.stage = "Subscribed"])
<1> DEFINE rs2 == [rs EXCEPT !.stage = "Subscribed"]
<1>1. Typed(cmd, ini, req, res, rec, rs) /\ InGraph(ours, rs) /\ rs \in ResponderState
  BY DEF Right, Typed
<1>2. /\ rs2 \in ResponderState /\ rs2.stage = "Subscribed" /\ rs2.snapshot = rs.snapshot
      /\ rs2.sentHaves = rs.sentHaves /\ rs2.theirKnown = rs.theirKnown
      /\ rs2.sendQueue = rs.sendQueue /\ rs2.havesQueue = rs.havesQueue /\ rs2.ourUnknown = rs.ourUnknown
      /\ rs2.tips = rs.tips /\ rs2.known = rs.known
  BY <1>1 DEF ResponderState, ResponderStage
<1> HIDE DEF rs2
<1>3. Typed(cmd, ini, req, res, rec, rs2)
  BY <1>1, <1>2 DEF Typed
<1>4. Refers(rs2) = Refers(rs)
  BY <1>2 DEF Refers
<1>5. InGraph(ours, rs2)
  BY <1>1, <1>2, <1>4 DEF InGraph
<1>6. ours = rs.snapshot
  <2>1. rs.snapshot \in SUBSET HeaderId /\ ParentClosed(rs.snapshot)
    BY <1>1 DEF ResponderState, InGraph
  <2> QED
    BY <2>1, TipsDetermineHeaders
<1>7. ASSUME Forest
      PROVE  /\ ToldTrue(theirs, cmd, req, rs2) /\ KnownTrue(theirs, OnTheWay(res, rec), rs2)
             /\ CaughtUp(theirs, ours, rs2)
  <2>1. /\ ToldTrue(theirs, cmd, req, rs) /\ KnownTrue(theirs, OnTheWay(res, rec), rs)
        /\ CaughtUp(theirs, ours, rs)
    BY <1>7 DEF Right
  <2>2. \A known : Answers(theirs, known, rs) => Answers(theirs, known, rs2)
    BY <1>2 DEF Answers
  <2>3. ToldTrue(theirs, cmd, req, rs2)
    BY <1>2, <2>1, <2>2 DEF ToldTrue
  <2>4. KnownTrue(theirs, OnTheWay(res, rec), rs2) /\ CaughtUp(theirs, ours, rs2)
    BY <1>2, <1>6, <2>1 DEF KnownTrue, CaughtUp
  <2> QED
    BY <2>3, <2>4
<1>8. Right(theirs, ours, cmd, ini, req, res, rec, rs2)
  BY <1>3, <1>5, <1>7 DEF Right
<1> QED
  BY <1>8 DEF rs2

\* What a turn may rely on, it may in a state that is right.
LEMMA RightMeansReady ==
  ASSUME NEW theirs \in SUBSET HeaderId, NEW ours, NEW cmd, NEW ini, NEW req, NEW res, NEW rec, NEW rs,
         Right(theirs, ours, cmd, ini, req, res, rec, rs), rs.stage \notin {"Receive", "RequestState"}
  PROVE  /\ StateOK(rs)
         /\ Forest /\ OnTheWay(res, rec) = {} => SaidSoFar(rs) \subseteq theirs /\ WorkTrue(rs, theirs)
<1>1. rs \in ResponderState /\ Len(rs.sentHaves) <= MaxHave /\ InGraph(ours, rs)
  BY DEF Right, Typed
<1>2. StateOK(rs)
  BY <1>1 DEF StateOK, WorkOK, InGraph, Refers
<1>3. ASSUME Forest, OnTheWay(res, rec) = {} PROVE SaidSoFar(rs) \subseteq theirs /\ WorkTrue(rs, theirs)
  <2>1. ToldTrue(theirs, cmd, req, rs) /\ KnownTrue(theirs, OnTheWay(res, rec), rs)
    BY <1>3 DEF Right
  <2>2. SaidSoFar(rs) \subseteq theirs
    BY <2>1 DEF ToldTrue, Answers, SaidSoFar, SaidToHave
  <2>3. UNION {SeqToSet(ops) : ops \in {}} = {}
    OBVIOUS
  <2>4. WorkTrue(rs, theirs)
    BY <1>3, <2>1, <2>3 DEF KnownTrue, WorkTrue
  <2> QED
    BY <2>2, <2>4
<1> QED
  BY <1>2, <1>3

\* What a turn ends with: a response with what was found, or a subscription.
ResponseWith(done, ops) == [type |-> "Response", have |-> done.sentHaves, operations |-> ops]
Subscribing(done) ==
  [RoundDone(done) EXCEPT !.stage = "Subscribe", !.firstRun = FALSE,
     !.snapshot = done.snapshot, !.tips = done.tips, !.known = done.known]
AfterTurn(theirs, ours, cmd, ini, res, done, ops) ==
  /\ Right(theirs, ours, cmd, ini, <<>>, Append(res, ResponseWith(done, ops)), <<>>, RoundDone(done))
  /\ ops = <<>> /\ done.sentHaves = <<>> =>
       \A res2 \in {res, Append(res, WaitMsg)} :
         Right(theirs, ours, cmd, ini, <<>>, res2, <<>>, Subscribing(done))

LEMMA RightAfterTurn ==
  ASSUME NEW theirs \in SUBSET HeaderId, NEW ours, ParentClosed(theirs), NEW cmd, NEW ini, NEW res, NEW rs,
         Right(theirs, ours, cmd, ini, <<>>, res, <<>>, rs), rs.stage \notin {"Receive", "RequestState"},
         OnTheWay(res, <<>>) = {}, NEW done, NEW ops, Outcome(rs, done, ops)
  PROVE  AfterTurn(theirs, ours, cmd, ini, res, done, ops)
<1> DEFINE next == RoundDone(done)
           asleep == [next EXCEPT !.stage = "Subscribe", !.firstRun = FALSE,
                        !.snapshot = done.snapshot, !.tips = done.tips, !.known = done.known]
           m == [type |-> "Response", have |-> done.sentHaves, operations |-> ops]
           long == Append(res, m)
<1>1. Typed(cmd, ini, <<>>, res, <<>>, rs) /\ InGraph(ours, rs) /\ rs.snapshot \subseteq ours
  BY DEF Right, InGraph
<1>2. /\ StateOK(done) /\ done \in ResponderState /\ ops \in Seq(HeaderId)
      /\ done.snapshot = rs.snapshot /\ done.tips = rs.tips
      /\ Refers(done) \subseteq rs.snapshot /\ Len(done.sentHaves) <= MaxHave
      /\ SeqToSet(ops) \subseteq rs.snapshot /\ done.ourUnknown \subseteq rs.ourUnknown \cup rs.tips
  BY DEF Outcome, StateOK, WorkOK, Refers
<1>3. /\ next \in ResponderState /\ next.stage = "Receive" /\ next.snapshot = {} /\ next.tips = {}
      /\ next.theirKnown = done.theirKnown /\ next.ourUnknown = done.ourUnknown
      /\ next.sendQueue = done.sendQueue /\ next.sentHaves = done.sentHaves
      /\ next.havesQueue = done.havesQueue
  BY <1>2 DEF RoundDone, NewResponder, ResponderState, ResponderStage
<1> HIDE DEF next
<1>4. /\ asleep \in ResponderState /\ asleep.stage = "Subscribe" /\ asleep.snapshot = rs.snapshot
      /\ asleep.tips = rs.tips /\ asleep.theirKnown = done.theirKnown /\ asleep.ourUnknown = done.ourUnknown
      /\ asleep.sendQueue = done.sendQueue /\ asleep.sentHaves = done.sentHaves
      /\ asleep.havesQueue = done.havesQueue
  BY <1>2, <1>3 DEF ResponderState, ResponderStage
<1>5. m \in ResponseMsg /\ m.type = "Response" /\ m.have = done.sentHaves /\ m.operations = ops
  <2>1. done.sentHaves \in Seq(HeaderId)
    BY <1>2 DEF ResponderState
  <2> QED
    BY <1>2, <2>1 DEF ResponseMsg
<1> HIDE DEF asleep, m
<1>6. long \in Seq(ResponseMsg) /\ SeqToSet(long) = SeqToSet(res) \cup {m}
  BY <1>1, <1>5, EndsOfSequences DEF Typed
<1> HIDE DEF long
<1>7. SeqToSet(<<>>) = {}
  BY DEF SeqToSet
<1>8. OnTheWay(long, <<>>) = {ops}
  <2>1. \A n \in SeqToSet(res) : n.type # "Response"
    BY DEF OnTheWay
  <2> QED
    BY <1>5, <1>6, <1>7, <2>1 DEF OnTheWay
<1>9. Typed(cmd, ini, <<>>, long, <<>>, next)
  BY <1>1, <1>2, <1>3, <1>5, <1>6 DEF Typed
<1>10. Refers(next) = Refers(done) /\ Refers(asleep) = Refers(done)
  BY <1>3, <1>4 DEF Refers
<1>11. InGraph(ours, next) /\ InGraph(ours, asleep)
  BY <1>1, <1>2, <1>3, <1>4, <1>10 DEF InGraph, ParentClosed
<1>12. ASSUME Forest
       PROVE  /\ done.theirKnown \subseteq theirs \cup SeqToSet(ops)
              /\ InOrder(theirs, ops) /\ ParentsKnown(done.sendQueue, done.theirKnown)
              /\ ops = <<>> /\ done.sentHaves = <<>> => rs.snapshot \subseteq theirs
              /\ ToldTrue(theirs, cmd, <<>>, rs)
  <2>1. SaidSoFar(rs) \subseteq theirs /\ WorkTrue(rs, theirs)
    BY <1>12, RightMeansReady
  <2>2. ToldTrue(theirs, cmd, <<>>, rs)
    BY <1>12 DEF Right
  <2> QED
    BY <1>12, <2>1, <2>2 DEF Outcome
<1>13. SentOurs(ours, OnTheWay(long, <<>>)) /\ SentOurs(ours, {})
  BY <1>1, <1>2, <1>8 DEF SentOurs
<1>14. Right(theirs, ours, cmd, ini, <<>>, long, <<>>, next)
  <2>1. ASSUME Forest
        PROVE  /\ ToldTrue(theirs, cmd, <<>>, next) /\ KnownTrue(theirs, OnTheWay(long, <<>>), next)
               /\ SentRight(theirs, OnTheWay(long, <<>>)) /\ CaughtUp(theirs, ours, next)
    <3>1. ToldTrue(theirs, cmd, <<>>, next)
      BY <1>2, <1>3, <1>7, <1>12, <2>1 DEF ToldTrue
    <3>2. KnownTrue(theirs, OnTheWay(long, <<>>), next)
      BY <1>3, <1>8, <1>12, <2>1 DEF KnownTrue
    <3>3. SentRight(theirs, OnTheWay(long, <<>>))
      BY <1>1, <1>2, <1>8, <1>12, <2>1 DEF SentRight
    <3>4. CaughtUp(theirs, ours, next)
      BY <1>3 DEF CaughtUp
    <3> QED
      BY <3>1, <3>2, <3>3, <3>4
  <2> QED
    BY <1>9, <1>11, <1>13, <2>1 DEF Right
<1>15. ASSUME ops = <<>>, done.sentHaves = <<>>, NEW res2 \in {res, Append(res, WaitMsg)}
       PROVE  Right(theirs, ours, cmd, ini, <<>>, res2, <<>>, asleep)
  <2>1. /\ res2 \in Seq(ResponseMsg) /\ OnTheWay(res2, <<>>) = {}
        /\ \A n \in SeqToSet(res2) : n.type = "Response" => n \in SeqToSet(res)
    <3>1. WaitMsg \in ResponseMsg /\ WaitMsg.type # "Response"
      BY DEF WaitMsg, ResponseMsg
    <3>2. res \in Seq(ResponseMsg)
      BY <1>1 DEF Typed
    <3>3. /\ Append(res, WaitMsg) \in Seq(ResponseMsg)
          /\ SeqToSet(Append(res, WaitMsg)) = SeqToSet(res) \cup {WaitMsg}
      BY <3>1, <3>2, EndsOfSequences
    <3>4. \A n \in SeqToSet(res) : n.type # "Response"
      BY DEF OnTheWay
    <3>5. res2 \in Seq(ResponseMsg) /\ SeqToSet(res2) \subseteq SeqToSet(res) \cup {WaitMsg}
      BY <1>15, <3>2, <3>3
    <3> QED
      BY <1>7, <3>1, <3>4, <3>5 DEF OnTheWay
  <2>2. Typed(cmd, ini, <<>>, res2, <<>>, asleep)
    BY <1>1, <1>2, <1>4, <2>1 DEF Typed
  <2>3. ASSUME Forest
        PROVE  /\ ToldTrue(theirs, cmd, <<>>, asleep) /\ KnownTrue(theirs, OnTheWay(res2, <<>>), asleep)
               /\ SentRight(theirs, OnTheWay(res2, <<>>)) /\ CaughtUp(theirs, ours, asleep)
    <3>1. ToldTrue(theirs, cmd, <<>>, asleep)
      BY <1>2, <1>4, <1>7, <1>12, <2>3 DEF ToldTrue
    <3>2. KnownTrue(theirs, OnTheWay(res2, <<>>), asleep)
      BY <1>4, <1>7, <1>12, <1>15, <2>1, <2>3 DEF KnownTrue
    <3>3. SentRight(theirs, OnTheWay(res2, <<>>))
      BY <2>1 DEF SentRight
    <3>4. CaughtUp(theirs, ours, asleep)
      BY <1>4, <1>12, <1>15, <2>3 DEF CaughtUp
    <3> QED
      BY <3>1, <3>2, <3>3, <3>4
  <2> QED
    BY <1>11, <1>13, <2>1, <2>2, <2>3 DEF Right
<1> QED
  BY <1>14, <1>15 DEF AfterTurn, ResponseWith, Subscribing, long, m, asleep, next

\* StoreReceives: the operations go into the initiator's graph.
AfterDelivery(theirs, ours, cmd, ini, req, res, rec, rs) ==
  /\ Grown(theirs, InsertHeaders(theirs, Head(rec)))
  /\ InsertHeaders(theirs, Head(rec)) \subseteq theirs \cup ours
  /\ Forest => SeqToSet(Head(rec)) \subseteq InsertHeaders(theirs, Head(rec))
  /\ \A cmd2 \in {cmd, Append(cmd, InsertHeaders(theirs, Head(rec)))} :
       Right(InsertHeaders(theirs, Head(rec)), ours, cmd2, ini, req, res, Tail(rec), rs)

LEMMA RightAfterDelivery ==
  ASSUME NEW theirs \in SUBSET HeaderId, NEW ours, ParentClosed(theirs),
         NEW cmd, NEW ini, NEW req, NEW res, NEW rec, NEW rs,
         Right(theirs, ours, cmd, ini, req, res, rec, rs), rec # <<>>, rs.stage = "Receive"
  PROVE  AfterDelivery(theirs, ours, cmd, ini, req, res, rec, rs)
<1> DEFINE ops == Head(rec)
           rest == Tail(rec)
           theirs2 == InsertHeaders(theirs, ops)
<1>1. Typed(cmd, ini, req, res, rec, rs) /\ InGraph(ours, rs)
  BY DEF Right
<1>2. ops \in Seq(HeaderId) /\ rest \in Seq(Seq(HeaderId)) /\ SeqToSet(rec) = {ops} \cup SeqToSet(rest)
  <2> DEFINE S == Seq(HeaderId)
  <2>1. rec \in Seq(S)
    BY <1>1 DEF Typed
  <2> HIDE DEF S
  <2>2. ops \in S /\ rest \in Seq(S) /\ SeqToSet(rec) = {ops} \cup SeqToSet(rest)
    BY <2>1, EndsOfSequences
  <2> QED
    BY <2>2 DEF S
<1> HIDE DEF ops, rest
<1>3. /\ theirs2 \in SUBSET HeaderId /\ ParentClosed(theirs2)
      /\ theirs \subseteq theirs2 /\ theirs2 \subseteq theirs \cup SeqToSet(ops)
      /\ InOrder(theirs, ops) => theirs2 = theirs \cup SeqToSet(ops)
  BY <1>2, InsertHeadersFacts
<1> HIDE DEF theirs2
<1>4. Grown(theirs, theirs2)
  BY <1>3 DEF Grown
<1>5. ops \in OnTheWay(res, rec) /\ OnTheWay(res, rec) = {ops} \cup OnTheWay(res, rest)
  BY <1>2 DEF OnTheWay
<1>6. SeqToSet(ops) \subseteq ours /\ SentOurs(ours, OnTheWay(res, rest))
  BY <1>5 DEF Right, SentOurs
<1>7. ASSUME Forest PROVE InOrder(theirs, ops)
  <2>1. SentRight(theirs, OnTheWay(res, rec))
    BY <1>7 DEF Right
  <2> QED
    BY <1>5, <2>1 DEF SentRight
<1>8. ASSUME NEW cmd2 \in {cmd, Append(cmd, theirs2)}
      PROVE  Right(theirs2, ours, cmd2, ini, req, res, rest, rs)
  <2>1. cmd2 \in Seq(SUBSET HeaderId) /\ SeqToSet(cmd2) \subseteq SeqToSet(cmd) \cup {theirs2}
    <3> DEFINE S == SUBSET HeaderId
    <3>1. cmd \in Seq(S) /\ theirs2 \in S
      BY <1>1, <1>3 DEF Typed
    <3> HIDE DEF S
    <3>2. Append(cmd, theirs2) \in Seq(S) /\ SeqToSet(Append(cmd, theirs2)) = SeqToSet(cmd) \cup {theirs2}
      BY <3>1, EndsOfSequences
    <3>3. cmd2 \in Seq(S) /\ SeqToSet(cmd2) \subseteq SeqToSet(cmd) \cup {theirs2}
      BY <1>8, <3>1, <3>2
    <3> QED
      BY <3>3 DEF S
  <2>2. Typed(cmd2, ini, req, res, rest, rs)
    BY <1>1, <1>2, <2>1 DEF Typed
  <2>3. ASSUME Forest
        PROVE  /\ ToldTrue(theirs2, cmd2, req, rs) /\ KnownTrue(theirs2, OnTheWay(res, rest), rs)
               /\ SentRight(theirs2, OnTheWay(res, rest)) /\ CaughtUp(theirs2, ours, rs)
    <3>1. /\ ToldTrue(theirs, cmd, req, rs) /\ KnownTrue(theirs, OnTheWay(res, rec), rs)
          /\ SentRight(theirs, OnTheWay(res, rec))
      BY <2>3 DEF Right
    <3>2. \A known : Answers(theirs, known, rs) => Answers(theirs2, known, rs)
      BY <1>3 DEF Answers
    <3>3. ToldTrue(theirs2, cmd2, req, rs)
      <4>1. /\ rs.ourUnknown \cup rs.tips \subseteq theirs2
            /\ rs.stage \in {"RequestState", "HaveState"} => Answers(theirs2, rs.known, rs)
        BY <1>3, <3>1, <3>2 DEF ToldTrue
      <4>2. \A graph \in SeqToSet(cmd2) : graph \subseteq theirs2
        BY <1>3, <2>1, <3>1 DEF ToldTrue
      <4>3. \A r \in SeqToSet(req) : r.tips \subseteq theirs2 /\ (~r.initial => Answers(theirs2, r.known, rs))
        BY <1>3, <3>1, <3>2 DEF ToldTrue
      <4> QED
        BY <4>1, <4>2, <4>3 DEF ToldTrue
    <3>4. KnownTrue(theirs2, OnTheWay(res, rest), rs)
      BY <1>3, <1>5, <1>7, <2>3, <3>1 DEF KnownTrue
    <3>5. SentRight(theirs2, OnTheWay(res, rest))
      <4>1. \A b \in OnTheWay(res, rest) : InOrder(theirs, b)
        BY <1>5, <3>1 DEF SentRight
      <4>2. \A b \in OnTheWay(res, rest) : InOrder(theirs2, b)
        BY <1>3, <4>1, InOrderGrows
      <4> QED
        BY <4>1, <4>2 DEF SentRight
    <3>6. CaughtUp(theirs2, ours, rs)
      BY DEF CaughtUp
    <3> QED
      BY <3>3, <3>4, <3>5, <3>6
  <2> QED
    BY <1>1, <1>6, <2>2, <2>3 DEF Right
<1>9. theirs2 \subseteq theirs \cup ours /\ (Forest => SeqToSet(ops) \subseteq theirs2)
  BY <1>3, <1>7, <1>6
<1> QED
  BY <1>4, <1>8, <1>9 DEF AfterDelivery, theirs2, ops, rest
-----------------------------------------------------------------------------
\* A step of one of the tasks of a link, which leaves the graphs as they are.
LEMMA OneLinkRight ==
  ASSUME CInv, NEW l \in Link, Alone(l), ecg' = ecg, outgoing' = outgoing, LinkRight(l)'
  PROVE  CInv'
<1>1. ASSUME NEW k \in Link PROVE LinkRight(k)'
  <2>1. CASE k = l
    BY <2>1
  <2>2. CASE k # l
    <3>1. LinkRight(k)
      BY DEF CInv
    <3>2. /\ command'[k] = command[k] /\ responder'[k] = responder[k] /\ initiator'[k] = initiator[k]
          /\ request'[k] = request[k] /\ response'[k] = response[k] /\ received'[k] = received[k]
      BY <2>2 DEF Alone, Same
    <3> QED
      BY <3>1, <3>2 DEF LinkRight
  <2> QED
    BY <2>1, <2>2
<1> QED
  BY <1>1 DEF CInv, GraphsOK

\* A link's ends are two devices, and what they have are graphs.
LEMMA EndsOfLink ==
  ASSUME CInv, NEW l \in Link
  PROVE  /\ Initiator(l) \in Device /\ Responder(l) \in Device /\ Initiator(l) # Responder(l)
         /\ ecg[Initiator(l)] \in SUBSET HeaderId /\ ParentClosed(ecg[Initiator(l)])
         /\ ecg[Responder(l)] \in SUBSET HeaderId /\ ParentClosed(ecg[Responder(l)])
         /\ LinkRight(l)
         /\ Forest /\ responder[l].stage = "Subscribed" => ecg[Responder(l)] \subseteq ecg[Initiator(l)]
<1>1. Initiator(l) \in Device /\ Responder(l) \in Device /\ Initiator(l) # Responder(l)
  BY SyncAssumption DEF Initiator, Responder
<1>2. LinkRight(l) /\ GraphsOK
  BY DEF CInv
<1> QED
  BY <1>1, <1>2 DEF GraphsOK, LinkRight, Right, CaughtUp

LEMMA InitiatorRequestsRight ==
  ASSUME IInv, CInv, NEW l \in Link, InitiatorRequests(l)
  PROVE  CInv'
<1>1. TasksOK /\ LinkOK(l) /\ initiator[l].stage = "Command" /\ command[l] # <<>>
  BY DEF IInv, InitiatorRequests
<1>2. Commanded(l)
  BY <1>1 DEF LinkOK, Exchange, Idle, Requested, Answering, Answered, Delivered
<1> DEFINE have == initiator[l].have
           req == [initial |-> ~initiator[l].started, tips |-> TipsOf(Head(command[l])),
                   known |-> {i \in DOMAIN have : have[i] \in Head(command[l])}]
<1>3. /\ request' = [request EXCEPT ![l] = Append(@, req)]
      /\ command' = [command EXCEPT ![l] = Tail(@)]
      /\ initiator' = [initiator EXCEPT ![l].stage = "Response"]
      /\ UNCHANGED <<ecg, outgoing, response, received, responder>>
  BY DEF InitiatorRequests
<1>4. Alone(l)
  BY <1>1, <1>3 DEF Alone, Same, TasksOK
<1>5. initiator[l].started => initiator[l].have = responder[l].sentHaves
  BY <1>2 DEF Commanded, AtRest
<1>6. LinkRight(l)
  BY DEF CInv
<1>7. Right(ecg[Initiator(l)], ecg[Responder(l)], Tail(command[l]), [initiator[l] EXCEPT !.stage = "Response"],
            Append(request[l], req), response[l], received[l], responder[l])
  BY <1>1, <1>5, <1>6, RightAfterRequest DEF LinkRight
<1>8. /\ request'[l] = Append(request[l], req) /\ command'[l] = Tail(command[l])
      /\ initiator'[l] = [initiator[l] EXCEPT !.stage = "Response"]
  BY <1>1, <1>3 DEF TasksOK
<1>9. LinkRight(l)'
  BY <1>3, <1>7, <1>8 DEF LinkRight
<1> QED
  BY <1>3, <1>4, <1>9, OneLinkRight

LEMMA InitiatorWaitsRight ==
  ASSUME IInv, CInv, NEW l \in Link, InitiatorWaits(l)
  PROVE  CInv'
<1>1. TasksOK /\ LinkRight(l)
  BY DEF IInv, CInv
<1>2. /\ response[l] # <<>> /\ Head(response[l]).type = "Wait"
      /\ response' = [response EXCEPT ![l] = Tail(@)]
      /\ initiator' = [initiator EXCEPT ![l].stage = "ResponseAfterWait"]
      /\ UNCHANGED <<ecg, outgoing, command, request, received, responder>>
  BY DEF InitiatorWaits
<1>3. Alone(l)
  BY <1>1, <1>2 DEF Alone, Same, TasksOK
<1>4. Right(ecg[Initiator(l)], ecg[Responder(l)], command[l], [initiator[l] EXCEPT !.stage = "ResponseAfterWait"],
            request[l], Tail(response[l]), received[l], responder[l])
  BY <1>1, <1>2, RightAfterWait DEF LinkRight
<1>5. /\ response'[l] = Tail(response[l])
      /\ initiator'[l] = [initiator[l] EXCEPT !.stage = "ResponseAfterWait"]
  BY <1>1, <1>2 DEF TasksOK
<1>6. LinkRight(l)'
  BY <1>2, <1>4, <1>5 DEF LinkRight
<1> QED
  BY <1>2, <1>3, <1>6, OneLinkRight

LEMMA InitiatorReceivesRight ==
  ASSUME IInv, CInv, NEW l \in Link, InitiatorReceives(l)
  PROVE  CInv'
<1> DEFINE ini2 == [stage |-> "Command", started |-> TRUE, have |-> Head(response[l]).have]
<1>1. TasksOK /\ LinkRight(l)
  BY DEF IInv, CInv
<1>2. /\ response[l] # <<>> /\ Head(response[l]).type = "Response"
      /\ initiator' = [initiator EXCEPT ![l] = ini2]
      /\ received' = [received EXCEPT ![l] = Append(@, Head(response[l]).operations)]
      /\ response' = [response EXCEPT ![l] = Tail(@)]
      /\ UNCHANGED <<ecg, outgoing, command, request, responder>>
  BY DEF InitiatorReceives
<1>3. Alone(l)
  BY <1>1, <1>2 DEF Alone, Same, TasksOK
<1>4. Right(ecg[Initiator(l)], ecg[Responder(l)], command[l], ini2, request[l], Tail(response[l]),
            Append(received[l], Head(response[l]).operations), responder[l])
  BY <1>1, <1>2, RightAfterResponse DEF LinkRight
<1>5. /\ response'[l] = Tail(response[l]) /\ initiator'[l] = ini2
      /\ received'[l] = Append(received[l], Head(response[l]).operations)
  BY <1>1, <1>2 DEF TasksOK
<1>6. LinkRight(l)'
  BY <1>2, <1>4, <1>5 DEF LinkRight
<1> QED
  BY <1>2, <1>3, <1>6, OneLinkRight

LEMMA ResponderReceivesRight ==
  ASSUME IInv, CInv, NEW l \in Link, ResponderReceives(l)
  PROVE  CInv'
<1> DEFINE rs2 == [(IF Head(request[l]).initial THEN NewResponder ELSE responder[l]) EXCEPT
                     !.stage = "RequestState", !.tips = Head(request[l]).tips, !.known = Head(request[l]).known]
<1>1. TasksOK /\ LinkRight(l)
  BY DEF IInv, CInv
<1>2. /\ request[l] # <<>>
      /\ responder' = [responder EXCEPT ![l] = rs2]
      /\ request' = [request EXCEPT ![l] = Tail(@)]
      /\ UNCHANGED <<ecg, outgoing, command, initiator, response, received>>
  BY DEF ResponderReceives
<1>3. Alone(l)
  <2> HIDE DEF rs2
  <2> QED
    BY <1>1, <1>2 DEF Alone, Same, TasksOK
<1>4. Right(ecg[Initiator(l)], ecg[Responder(l)], command[l], initiator[l], Tail(request[l]), response[l],
            received[l], rs2)
  BY <1>1, <1>2, RightAfterReceive DEF LinkRight
<1> HIDE DEF rs2
<1>5. request'[l] = Tail(request[l]) /\ responder'[l] = rs2
  BY <1>1, <1>2 DEF TasksOK
<1>6. LinkRight(l)'
  BY <1>2, <1>4, <1>5 DEF LinkRight
<1> QED
  BY <1>2, <1>3, <1>6, OneLinkRight

LEMMA StoreAnswersRight ==
  ASSUME IInv, CInv, NEW l \in Link, StoreSharesState(l) \/ StoreSubscribes(l)
  PROVE  CInv'
<1> DEFINE ours == ecg[Responder(l)]
           with(stage) == [responder[l] EXCEPT !.stage = stage, !.snapshot = ours]
           asleep == [responder[l] EXCEPT !.stage = "Subscribed"]
<1>1. TasksOK /\ LinkRight(l) /\ ours \in SUBSET HeaderId /\ ParentClosed(ours)
  BY EndsOfLink DEF IInv
<1>2. /\ UNCHANGED <<ecg, outgoing, command, initiator, request, response, received>>
      /\ \/ responder[l].stage = "RequestState" /\ responder' = [responder EXCEPT ![l] = with("HaveState")]
         \/ responder' = [responder EXCEPT ![l] = with("Updated")]
         \/ /\ responder[l].stage = "Subscribe" /\ TipsOf(ours) = TipsOf(responder[l].snapshot)
            /\ responder' = [responder EXCEPT ![l] = asleep]
  BY <1>1 DEF StoreSharesState, StoreSubscribes, TasksOK
<1> HIDE DEF ours
<1>3. \A new : responder' = [responder EXCEPT ![l] = new] =>
        /\ Alone(l) /\ responder'[l] = new
  BY <1>1, <1>2 DEF Alone, Same, TasksOK
<1>4. \/ Alone(l) /\ responder[l].stage = "RequestState" /\ responder'[l] = with("HaveState")
      \/ Alone(l) /\ responder'[l] = with("Updated")
      \/ /\ Alone(l) /\ responder[l].stage = "Subscribe" /\ TipsOf(ours) = TipsOf(responder[l].snapshot)
         /\ responder'[l] = asleep
  <2> HIDE DEF with, asleep
  <2> QED
    BY <1>2, <1>3
<1>5. Right(ecg[Initiator(l)], ours, command[l], initiator[l], request[l], response[l], received[l], responder[l])
  BY <1>1 DEF LinkRight, ours
<1>6. Right(ecg[Initiator(l)], ours, command[l], initiator[l], request[l], response[l], received[l], responder'[l])
  <2>1. CASE responder[l].stage = "RequestState" /\ responder'[l] = with("HaveState")
    <3>1. Right(ecg[Initiator(l)], ours, command[l], initiator[l], request[l], response[l], received[l],
                with("HaveState"))
      BY <1>1, <1>5, <2>1, RightAfterShare
    <3> QED
      BY <2>1, <3>1
  <2>2. CASE responder'[l] = with("Updated")
    <3>1. Right(ecg[Initiator(l)], ours, command[l], initiator[l], request[l], response[l], received[l],
                with("Updated"))
      BY <1>1, <1>5, RightAfterShare
    <3> QED
      BY <2>2, <3>1
  <2>3. CASE /\ responder[l].stage = "Subscribe" /\ TipsOf(ours) = TipsOf(responder[l].snapshot)
             /\ responder'[l] = asleep
    <3>1. Right(ecg[Initiator(l)], ours, command[l], initiator[l], request[l], response[l], received[l], asleep)
      BY <1>1, <1>5, <2>3, RightAfterSubscribe
    <3> QED
      BY <2>3, <3>1
  <2> HIDE DEF with, asleep
  <2> QED
    BY <1>4, <2>1, <2>2, <2>3
<1>7. LinkRight(l)'
  BY <1>2, <1>6 DEF LinkRight, ours
<1>8. Alone(l)
  BY <1>4
<1> QED
  BY <1>2, <1>7, <1>8, OneLinkRight

\* What a turn is about: no operations are on their way.
LEMMA TurnFinds ==
  ASSUME IInv, CInv, NEW l \in Link, ResponderRuns(l) \/ ResponderReruns(l)
  PROVE  /\ request[l] = <<>> /\ received[l] = <<>> /\ OnTheWay(response[l], <<>>) = {}
         /\ initiator[l].stage # "Command" /\ StateOK(responder[l])
         /\ \E done, ops : Respond(l, done, ops) /\ Outcome(responder[l], done, ops)
<1>1. responder[l].stage \in {"HaveState", "Updated"} /\ LinkOK(l)
  BY DEF ResponderRuns, ResponderReruns, IInv
<1>2. Answering(l)
  BY <1>1 DEF LinkOK, Exchange, Idle, AtRest, Commanded, Requested, Answered, Delivered
<1>3. SeqToSet(<<>>) = {} /\ SeqToSet(<<WaitMsg>>) = {WaitMsg}
  BY DEF SeqToSet
<1>4. OnTheWay(response[l], <<>>) = {}
  <2>1. response[l] \in {<<>>, <<WaitMsg>>}
    BY <1>2 DEF Answering
  <2>2. SeqToSet(response[l]) \subseteq {WaitMsg}
    BY <1>3, <2>1
  <2> QED
    BY <1>3, <2>2 DEF OnTheWay, WaitMsg
<1>5. StateOK(responder[l])
  <2>1. /\ ecg[Initiator(l)] \in SUBSET HeaderId
        /\ Right(ecg[Initiator(l)], ecg[Responder(l)], command[l], initiator[l], request[l], response[l],
                 received[l], responder[l])
    BY EndsOfLink DEF LinkRight
  <2> QED
    BY <1>1, <2>1, RightMeansReady
<1> QED
  BY <1>2, <1>4, <1>5, TurnOutcome DEF Answering

LEMMA ResponderTurnRight ==
  ASSUME IInv, CInv, NEW l \in Link, ResponderRuns(l) \/ ResponderReruns(l)
  PROVE  CInv'
<1> DEFINE theirs == ecg[Initiator(l)]
           ours == ecg[Responder(l)]
<1>1. /\ TasksOK /\ theirs \in SUBSET HeaderId /\ ParentClosed(theirs)
      /\ Right(theirs, ours, command[l], initiator[l], request[l], response[l], received[l], responder[l])
  BY EndsOfLink DEF IInv, LinkRight
<1>2. /\ responder[l].stage \notin {"Receive", "RequestState"}
      /\ UNCHANGED <<ecg, outgoing, command, initiator, request, received>>
  BY DEF ResponderRuns, ResponderReruns
<1>3. /\ request[l] = <<>> /\ received[l] = <<>> /\ OnTheWay(response[l], <<>>) = {}
  BY TurnFinds
<1>4. PICK done, ops : Respond(l, done, ops) /\ Outcome(responder[l], done, ops)
  BY TurnFinds
<1> HIDE DEF theirs, ours
<1> DEFINE m == ResponseWith(done, ops)
           next == RoundDone(done)
           asleep == Subscribing(done)
<1>5. /\ Right(theirs, ours, command[l], initiator[l], <<>>, Append(response[l], m), <<>>, next)
      /\ ops = <<>> /\ done.sentHaves = <<>> =>
           \A res2 \in {response[l], Append(response[l], WaitMsg)} :
             Right(theirs, ours, command[l], initiator[l], <<>>, res2, <<>>, asleep)
  <2> DEFINE cmd == command[l]
             ini == initiator[l]
             res == response[l]
             rs == responder[l]
  <2>1. Right(theirs, ours, cmd, ini, <<>>, res, <<>>, rs)
    BY <1>1, <1>3
  <2>2. OnTheWay(res, <<>>) = {} /\ rs.stage \notin {"Receive", "RequestState"} /\ Outcome(rs, done, ops)
    BY <1>2, <1>3, <1>4
  <2>3. theirs \in SUBSET HeaderId /\ ParentClosed(theirs)
    BY <1>1
  <2> HIDE DEF cmd, ini, res, rs
  <2>4. AfterTurn(theirs, ours, cmd, ini, res, done, ops)
    BY <2>1, <2>2, <2>3, RightAfterTurn
  <2> QED
    BY <2>4 DEF AfterTurn, cmd, ini, res
<1>6. \/ response' = [response EXCEPT ![l] = Append(@, m)] /\ responder' = [responder EXCEPT ![l] = next]
      \/ /\ ops = <<>> /\ done.sentHaves = <<>>
         /\ \/ response' = [response EXCEPT ![l] = Append(@, WaitMsg)]
            \/ response' = response
         /\ responder' = [responder EXCEPT ![l] = asleep]
  BY <1>4 DEF Respond, WaitMsg, ResponseWith, Subscribing
<1> HIDE DEF m, next, asleep
<1>7. Alone(l) /\ Right(theirs, ours, command[l], initiator[l], <<>>, response'[l], <<>>, responder'[l])
  <2>1. CASE response' = [response EXCEPT ![l] = Append(@, m)] /\ responder' = [responder EXCEPT ![l] = next]
    <3>1. response'[l] = Append(response[l], m) /\ responder'[l] = next
      BY <1>1, <2>1 DEF TasksOK
    <3>2. Alone(l)
      BY <1>1, <1>2, <2>1 DEF Alone, Same, TasksOK
    <3> QED
      BY <1>5, <3>1, <3>2
  <2>2. CASE /\ ops = <<>> /\ done.sentHaves = <<>>
             /\ \/ response' = [response EXCEPT ![l] = Append(@, WaitMsg)]
                \/ response' = response
             /\ responder' = [responder EXCEPT ![l] = asleep]
    <3>1. response'[l] \in {response[l], Append(response[l], WaitMsg)} /\ responder'[l] = asleep
      BY <1>1, <2>2 DEF TasksOK
    <3>2. Alone(l)
      BY <1>1, <1>2, <2>2 DEF Alone, Same, TasksOK
    <3> QED
      BY <1>5, <2>2, <3>1, <3>2
  <2> QED
    BY <1>6, <2>1, <2>2
<1>8. LinkRight(l)'
  BY <1>2, <1>3, <1>7 DEF LinkRight, theirs, ours
<1> QED
  BY <1>2, <1>7, <1>8, OneLinkRight
-----------------------------------------------------------------------------
\* Peers that become outstanding and peers that were.
LEMMA SendKeepsStatus ==
  ASSUME NEW l \in Link, NEW d, NEW graph, outgoing \in [Link -> OutgoingStatus],
         SendSyncRequests(d, [outgoing EXCEPT ![l] = "Ready"], graph)
  PROVE  outgoing' \in [Link -> OutgoingStatus]
<1> DEFINE out == [outgoing EXCEPT ![l] = "Ready"]
<1>1. out \in [Link -> OutgoingStatus] /\ "Outstanding" \in OutgoingStatus
  BY DEF OutgoingStatus
<1>2. SendSyncRequests(d, out, graph)
  OBVIOUS
<1> HIDE DEF out
<1> QED
  BY <1>1, <1>2 DEF SendSyncRequests

\* Every link is right whatever happened to the graphs if it is a bystander's.
LEMMA BystanderRight ==
  ASSUME CInv, NEW k \in Link, Same(k),
         Grown(ecg[Initiator(k)], ecg'[Initiator(k)]), Grown(ecg[Responder(k)], ecg'[Responder(k)]),
         command'[k] = command[k] \/ command'[k] = Append(command[k], ecg'[Initiator(k)]),
         \/ /\ responder'[k] = responder[k]
            /\ Forest /\ responder[k].stage = "Subscribed" => ecg'[Responder(k)] \subseteq ecg'[Initiator(k)]
         \/ responder'[k] = [responder[k] EXCEPT !.stage = "Updated", !.snapshot = ecg'[Responder(k)]]
  PROVE  LinkRight(k)'
<1> DEFINE theirs == ecg[Initiator(k)]
           ours == ecg[Responder(k)]
           theirs2 == ecg'[Initiator(k)]
           ours2 == ecg'[Responder(k)]
           cmd == command[k]
           cmd2 == command'[k]
           rs == responder[k]
           rs2 == responder'[k]
           ini == initiator[k]
           req == request[k]
           res == response[k]
           rec == received[k]
<1>1. Right(theirs, ours, cmd, ini, req, res, rec, rs)
  BY EndsOfLink DEF LinkRight
<1>2. /\ Grown(theirs, theirs2) /\ Grown(ours, ours2)
      /\ AskedOrWoken(theirs2, ours2, cmd, cmd2, rs, rs2)
  BY DEF AskedOrWoken
<1> HIDE DEF theirs, ours, theirs2, ours2, cmd, cmd2, rs, rs2, ini, req, res, rec
<1>3. Right(theirs2, ours2, cmd2, ini, req, res, rec, rs2)
  BY <1>1, <1>2, RightForBystander
<1>4. Right(ecg'[Initiator(k)], ecg'[Responder(k)], command'[k], initiator'[k], request'[k], response'[k],
            received'[k], responder'[k])
  BY <1>3 DEF Same, theirs2, ours2, cmd2, rs2, ini, req, res, rec
<1> QED
  BY <1>4 DEF LinkRight, Initiator, Responder

LEMMA RegisterOutgoingRight ==
  ASSUME IInv, CInv, NEW l \in Link, RegisterOutgoing(l)
  PROVE  CInv'
<1> DEFINE out == [outgoing EXCEPT ![l] = "Ready"]
           graph == ecg[Initiator(l)]
<1>1. TasksOK /\ outgoing \in [Link -> OutgoingStatus] /\ out = [k \in Link |-> out[k]]
  BY DEF IInv, CInv
<1>2. /\ SendSyncRequests(Initiator(l), out, graph)
      /\ UNCHANGED <<ecg, initiator, request, response, received, responder>>
  BY DEF RegisterOutgoing
<1>3. outgoing' \in [Link -> OutgoingStatus]
  BY <1>1, <1>2, SendKeepsStatus
<1> HIDE DEF out, graph
<1>4. \A k \in Link : command'[k] = command[k] \/ (Initiator(k) = Initiator(l) /\ command'[k] = Append(command[k], graph))
  BY <1>1, <1>2, SendFacts
<1>5. ASSUME NEW k \in Link PROVE LinkRight(k)'
  <2>1. /\ ecg[Initiator(k)] \in SUBSET HeaderId /\ ParentClosed(ecg[Initiator(k)])
        /\ ecg[Responder(k)] \in SUBSET HeaderId /\ ParentClosed(ecg[Responder(k)])
        /\ Forest /\ responder[k].stage = "Subscribed" => ecg[Responder(k)] \subseteq ecg[Initiator(k)]
    BY EndsOfLink
  <2>2. Grown(ecg[Initiator(k)], ecg'[Initiator(k)]) /\ Grown(ecg[Responder(k)], ecg'[Responder(k)])
    BY <1>2, <2>1 DEF Grown
  <2>3. command'[k] = command[k] \/ command'[k] = Append(command[k], ecg'[Initiator(k)])
    BY <1>2, <1>4 DEF graph
  <2>4. Same(k) /\ responder'[k] = responder[k] /\ ecg' = ecg
    BY <1>2 DEF Same
  <2> QED
    BY <2>1, <2>2, <2>3, <2>4, BystanderRight
<1> QED
  BY <1>2, <1>3, <1>5 DEF CInv, GraphsOK

\* A graph that an application's header, or a peer's operations, are put into.
LEMMA GraphsGrow ==
  ASSUME GraphsOK, NEW d \in Device, NEW graph, Grown(ecg[d], graph), ecg' = [ecg EXCEPT ![d] = graph]
  PROVE  /\ GraphsOK' /\ ecg'[d] = graph
         /\ \A e \in Device : Grown(ecg[e], ecg'[e]) /\ (e # d => ecg'[e] = ecg[e])
<1>1. ecg'[d] = graph /\ \A e \in Device : e # d => ecg'[e] = ecg[e]
  BY DEF GraphsOK
<1>2. ASSUME NEW e \in Device PROVE Grown(ecg[e], ecg'[e])
  <2>1. ecg[e] \in SUBSET HeaderId /\ ParentClosed(ecg[e])
    BY DEF GraphsOK
  <2> QED
    BY <1>1, <2>1 DEF Grown
<1>3. ecg' \in [Device -> SUBSET HeaderId]
  BY DEF GraphsOK, Grown
<1> QED
  BY <1>1, <1>2, <1>3 DEF GraphsOK, Grown

LEMMA ApplyRight ==
  ASSUME IInv, CInv, NEW h \in HeaderId, Apply(h)
  PROVE  CInv'
<1> DEFINE d == Author[h]
           graph == ecg[d] \cup {h}
<1>1. d \in Device /\ ecg[d] \in SUBSET HeaderId /\ ParentClosed(ecg[d]) /\ GraphsOK
  BY SyncAssumption DEF CInv, GraphsOK
<1>2. /\ ParentIds[h] \subseteq ecg[d] /\ ecg' = [ecg EXCEPT ![d] = graph]
      /\ responder' = UpdateListeners(d, graph, {})
      /\ UNCHANGED <<outgoing, command, initiator, request, response, received>>
  BY DEF Apply
<1>3. Grown(ecg[d], graph)
  BY <1>1, <1>2 DEF Grown, ParentClosed
<1> HIDE DEF d, graph
<1>4. /\ GraphsOK' /\ ecg'[d] = graph
      /\ \A e \in Device : Grown(ecg[e], ecg'[e]) /\ (e # d => ecg'[e] = ecg[e])
  BY <1>1, <1>2, <1>3, GraphsGrow
<1>5. ASSUME NEW k \in Link PROVE LinkRight(k)'
  <2>1. /\ Initiator(k) \in Device /\ Responder(k) \in Device
        /\ Forest /\ responder[k].stage = "Subscribed" => ecg[Responder(k)] \subseteq ecg[Initiator(k)]
    BY EndsOfLink
  <2>2. /\ Grown(ecg[Initiator(k)], ecg'[Initiator(k)]) /\ Grown(ecg[Responder(k)], ecg'[Responder(k)])
        /\ Same(k) /\ command'[k] = command[k]
    BY <1>2, <1>4, <2>1 DEF Same
  <2>3. CASE Responder(k) = d /\ responder[k].stage = "Subscribed"
    <3>1. responder'[k] = [responder[k] EXCEPT !.stage = "Updated", !.snapshot = ecg'[Responder(k)]]
      BY <1>2, <1>4, <2>3 DEF UpdateListeners
    <3> QED
      BY <2>2, <3>1, BystanderRight
  <2>4. CASE ~(Responder(k) = d /\ responder[k].stage = "Subscribed")
    <3>1. responder'[k] = responder[k]
      BY <1>2, <2>4 DEF UpdateListeners
    <3>2. Forest /\ responder[k].stage = "Subscribed" => ecg'[Responder(k)] \subseteq ecg'[Initiator(k)]
      BY <1>4, <2>1, <2>2, <2>4 DEF Grown
    <3> QED
      BY <2>2, <3>1, <3>2, BystanderRight
  <2> QED
    BY <2>3, <2>4
<1> QED
  BY <1>2, <1>4, <1>5 DEF CInv

LEMMA StoreReceivesRight ==
  ASSUME IInv, CInv, NEW l \in Link, StoreReceives(l)
  PROVE  CInv'
<1> DEFINE d == Initiator(l)
           out == [outgoing EXCEPT ![l] = "Ready"]
           graph == InsertHeaders(ecg[d], Head(received[l]))
<1>1. TasksOK /\ LinkOK(l) /\ received[l] # <<>> /\ GraphsOK
  BY DEF IInv, CInv, StoreReceives
<1>2. responder[l].stage = "Receive"
  BY <1>1 DEF LinkOK, Exchange, Idle, Commanded, Requested, Answering, Answered, Delivered, AtRest
<1>3. /\ ecg' = [ecg EXCEPT ![d] = graph] /\ responder' = UpdateListeners(d, graph, {Responder(l)})
      /\ SendSyncRequests(d, out, graph)
      /\ received' = [received EXCEPT ![l] = Tail(@)] /\ UNCHANGED <<initiator, request, response>>
  BY DEF StoreReceives
<1>4. outgoing \in [Link -> OutgoingStatus] /\ out = [k \in Link |-> out[k]]
  BY DEF CInv
<1>5. outgoing' \in [Link -> OutgoingStatus]
  BY <1>3, <1>4, SendKeepsStatus
<1>6. /\ d \in Device /\ Responder(l) \in Device /\ d # Responder(l)
      /\ ecg[d] \in SUBSET HeaderId /\ ParentClosed(ecg[d])
      /\ Right(ecg[d], ecg[Responder(l)], command[l], initiator[l], request[l], response[l], received[l], responder[l])
  BY EndsOfLink DEF LinkRight
<1>7. /\ Grown(ecg[d], graph)
      /\ graph \subseteq ecg[d] \cup ecg[Responder(l)]
      /\ \A cmd2 \in {command[l], Append(command[l], graph)} :
           Right(graph, ecg[Responder(l)], cmd2, initiator[l], request[l], response[l], Tail(received[l]), responder[l])
  <2> DEFINE theirs == ecg[d]
             rec == received[l]
             rs == responder[l]
             cmd == command[l]
             ini == initiator[l]
             req == request[l]
             res == response[l]
             ours == ecg[Responder(l)]
  <2>1. /\ theirs \in SUBSET HeaderId /\ ParentClosed(theirs) /\ rec # <<>> /\ rs.stage = "Receive"
        /\ Right(theirs, ours, cmd, ini, req, res, rec, rs)
    BY <1>1, <1>2, <1>6
  <2> HIDE DEF theirs, rec, rs, cmd, ini, req, res, ours
  <2>2. AfterDelivery(theirs, ours, cmd, ini, req, res, rec, rs)
    BY <2>1, RightAfterDelivery
  <2> QED
    BY <2>2 DEF AfterDelivery, theirs, rec, rs, cmd, ini, req, res, ours
<1> HIDE DEF d, out, graph
<1>8. \A k \in Link : command'[k] = command[k] \/ (Initiator(k) = d /\ command'[k] = Append(command[k], graph))
  BY <1>1, <1>3, <1>4, SendFacts
<1>9. /\ GraphsOK' /\ ecg'[d] = graph
      /\ \A e \in Device : Grown(ecg[e], ecg'[e]) /\ (e # d => ecg'[e] = ecg[e])
  BY <1>1, <1>3, <1>6, <1>7, GraphsGrow
<1>10. LinkRight(l)'
  <2>1. responder'[l] = responder[l] /\ received'[l] = Tail(received[l])
    BY <1>1, <1>2, <1>3 DEF UpdateListeners, TasksOK
  <2>2. command'[l] \in {command[l], Append(command[l], graph)} /\ ecg'[Responder(l)] = ecg[Responder(l)]
    BY <1>6, <1>8, <1>9
  <2>3. Right(ecg'[d], ecg'[Responder(l)], command'[l], initiator'[l], request'[l], response'[l], received'[l],
              responder'[l])
    BY <1>3, <1>7, <1>9, <2>1, <2>2
  <2> QED
    BY <2>3 DEF LinkRight, Initiator, Responder, d
<1>11. ASSUME NEW k \in Link, k # l PROVE LinkRight(k)'
  <2>1. /\ Initiator(k) \in Device /\ Responder(k) \in Device /\ Initiator(k) # Responder(k)
        /\ Forest /\ responder[k].stage = "Subscribed" => ecg[Responder(k)] \subseteq ecg[Initiator(k)]
    BY EndsOfLink
  <2>2. /\ Grown(ecg[Initiator(k)], ecg'[Initiator(k)]) /\ Grown(ecg[Responder(k)], ecg'[Responder(k)])
        /\ command'[k] = command[k] \/ command'[k] = Append(command[k], ecg'[Initiator(k)])
    BY <1>8, <1>9, <2>1
  <2>3. Same(k)
    BY <1>1, <1>3, <1>11 DEF Same, TasksOK
  <2>4. CASE Responder(k) = d /\ responder[k].stage = "Subscribed" /\ Initiator(k) # Responder(l)
    <3>1. responder'[k] = [responder[k] EXCEPT !.stage = "Updated", !.snapshot = ecg'[Responder(k)]]
      BY <1>3, <1>9, <2>4 DEF UpdateListeners
    <3> QED
      BY <2>2, <2>3, <3>1, BystanderRight
  <2>5. CASE ~(Responder(k) = d /\ responder[k].stage = "Subscribed" /\ Initiator(k) # Responder(l))
    <3>1. responder'[k] = responder[k]
      BY <1>3, <2>5 DEF UpdateListeners
    <3>2. ASSUME Forest, responder[k].stage = "Subscribed" PROVE ecg'[Responder(k)] \subseteq ecg'[Initiator(k)]
      <4>1. CASE Responder(k) = d
        <5>1. Initiator(k) = Responder(l) /\ Initiator(k) # d
          BY <1>6, <2>5, <3>2, <4>1
        <5> QED
          BY <1>7, <1>9, <2>1, <3>2, <4>1, <5>1
      <4>2. CASE Responder(k) # d
        BY <1>9, <2>1, <2>2, <3>2, <4>2 DEF Grown
      <4> QED
        BY <4>1, <4>2
    <3> QED
      BY <2>2, <2>3, <3>1, <3>2, BystanderRight
  <2> QED
    BY <2>4, <2>5
<1> QED
  BY <1>5, <1>9, <1>10, <1>11 DEF CInv
-----------------------------------------------------------------------------
LEMMA InitRight == Init => CInv
<1> SUFFICES ASSUME Init PROVE CInv
  OBVIOUS
<1>1. GraphsOK /\ outgoing \in [Link -> OutgoingStatus]
  BY DEF Init, GraphsOK, ParentClosed, OutgoingStatus
<1>2. ASSUME NEW l \in Link PROVE LinkRight(l)
  <2>1. /\ Initiator(l) \in Device /\ Responder(l) \in Device
    BY SyncAssumption DEF Initiator, Responder
  <2>2. /\ ecg[Initiator(l)] = {} /\ ecg[Responder(l)] = {} /\ command[l] = <<>> /\ request[l] = <<>>
        /\ response[l] = <<>> /\ received[l] = <<>> /\ responder[l] = NewResponder
        /\ initiator[l] = [stage |-> "Command", started |-> FALSE, have |-> <<>>]
    BY <2>1 DEF Init
  <2> DEFINE ini == [stage |-> "Command", started |-> FALSE, have |-> <<>>]
             rs == NewResponder
  <2>3. /\ rs \in ResponderState /\ rs.theirKnown = {} /\ rs.ourUnknown = {}
        /\ Held(rs.sendQueue) = {} /\ rs.sentHaves = <<>> /\ rs.stage = "Receive"
        /\ Held(rs.havesQueue) = {} /\ rs.snapshot = {} /\ rs.tips = {}
    BY EmptyQueueFacts DEF NewResponder, ResponderState, ResponderStage
  <2>4. ini \in InitiatorState /\ ini.have = <<>>
    BY DEF InitiatorState
  <2> HIDE DEF ini, rs
  <2>5. Len(<<>>) = 0 /\ SeqToSet(<<>>) = {} /\ 0 <= MaxHave /\ \A S : <<>> \in Seq(S)
    BY SyncAssumption DEF SeqToSet
  <2>6. Typed(<<>>, ini, <<>>, <<>>, <<>>, rs)
    BY <2>3, <2>4, <2>5 DEF Typed
  <2>7. Refers(rs) = {}
    BY <2>3, <2>5 DEF Refers, HeadersIn
  <2>8. InGraph({}, rs)
    BY <2>3, <2>7 DEF InGraph, ParentClosed
  <2>9. OnTheWay(<<>>, <<>>) = {}
    BY <2>5 DEF OnTheWay
  <2>10. ToldTrue({}, <<>>, <<>>, rs) /\ KnownTrue({}, {}, rs) /\ SentRight({}, {}) /\ SentOurs({}, {}) /\ CaughtUp({}, {}, rs)
    BY <2>3, <2>5 DEF ToldTrue, KnownTrue, ParentsKnown, SentRight, SentOurs, CaughtUp
  <2>11. Right({}, {}, <<>>, ini, <<>>, <<>>, <<>>, rs)
    BY <2>6, <2>8, <2>9, <2>10 DEF Right
  <2> QED
    BY <2>2, <2>11 DEF LinkRight, ini, rs
<1> QED
  BY <1>1, <1>2 DEF CInv

\* The content of the exchanges is right in every run: whatever the headers
\* are, what is referred to is there; if they form a forest, what is believed
\* of the other end is true.
THEOREM SyncContent == Spec => [](IInv /\ CInv)
<1>1. IInv /\ CInv /\ [Next]_vars => CInv'
  <2> SUFFICES ASSUME IInv, CInv, [Next]_vars PROVE CInv'
    OBVIOUS
  <2>1. ASSUME NEW l \in Link, TaskStep(l) PROVE CInv'
    <3>1. CASE RegisterOutgoing(l)
      BY <3>1, RegisterOutgoingRight
    <3>2. CASE InitiatorRequests(l) \/ InitiatorWaits(l) \/ InitiatorReceives(l)
      BY <3>2, InitiatorRequestsRight, InitiatorWaitsRight, InitiatorReceivesRight
    <3>3. CASE StoreReceives(l) \/ StoreSharesState(l) \/ StoreSubscribes(l)
      BY <3>3, StoreReceivesRight, StoreAnswersRight
    <3>4. CASE ResponderReceives(l) \/ ResponderRuns(l) \/ ResponderReruns(l)
      BY <3>4, ResponderReceivesRight, ResponderTurnRight
    <3> QED
      BY <2>1, <3>1, <3>2, <3>3, <3>4 DEF TaskStep
  <2>2. ASSUME NEW h \in HeaderId, Apply(h) PROVE CInv'
    BY <2>2, ApplyRight
  <2>3. CASE UNCHANGED vars
    BY <2>3 DEF vars, CInv, GraphsOK, LinkRight
  <2> QED
    BY <2>1, <2>2, <2>3 DEF Next
<1> QED
  BY <1>1, InitRight, SyncInvariant, PTL DEF Spec

(***************************************************************************)
(* Types: no queue, message or state ever holds anything but headers, a    *)
(* response never proposes more headers than the bitmap that answers it    *)
(* has bits, and a bitmap has no bit beyond (HeaderBitmap, prepare_haves). *)
(***************************************************************************)
THEOREM SyncTypeOK == Spec => []TypeOK
<1>1. IInv /\ CInv => TypeOK
  <2> SUFFICES ASSUME IInv, CInv PROVE TypeOK
    OBVIOUS
  <2>1. /\ ecg \in [Device -> SUBSET HeaderId] /\ outgoing \in [Link -> OutgoingStatus]
    BY DEF CInv, GraphsOK
  <2>2. ASSUME NEW l \in Link
        PROVE  Typed(command[l], initiator[l], request[l], response[l], received[l], responder[l])
    BY DEF CInv, LinkRight, Right
  <2>3. TasksOK
    BY DEF IInv
  <2>4. /\ command \in [Link -> Seq(SUBSET HeaderId)] /\ initiator \in [Link -> InitiatorState]
        /\ responder \in [Link -> ResponderState]
    BY <2>2, <2>3 DEF Typed, TasksOK
  <2>5. \A l \in Link :
          /\ request[l] \in Seq([initial : BOOLEAN, tips : SUBSET HeaderId, known : SUBSET (1..MaxHave)])
          /\ response[l] \in Seq(ResponseMsg)
          /\ received[l] \in Seq(Seq(HeaderId))
          /\ Len(initiator[l].have) <= MaxHave /\ Len(responder[l].sentHaves) <= MaxHave
    BY <2>2 DEF Typed, RequestMsg
  <2> QED
    BY <2>1, <2>4, <2>5 DEF TypeOK
<1> QED
  BY <1>1, SyncContent, PTL

(***************************************************************************)
(* Whatever the responder refers to, the graph it works on has, merges     *)
(* included: none of the `unreachable!` and `expect` of ecg_sync.rs on a   *)
(* header that is not in the graph is hit, although the graph is replaced  *)
(* by a newer copy every turn.                                             *)
(***************************************************************************)
THEOREM SyncQueuesInSnapshot == Spec => []QueuesInSnapshot
<1>1. CInv => QueuesInSnapshot
  <2> SUFFICES ASSUME CInv, NEW l \in Link
               PROVE  LET rs == responder[l]
                          graph == IF rs.stage \in {"Receive", "RequestState"} THEN ecg[Responder(l)] ELSE rs.snapshot
                      IN  rs.theirKnown \cup Held(rs.sendQueue) \cup SeqToSet(rs.sentHaves)
                            \cup {entry[1] : entry \in Held(rs.havesQueue)} \subseteq graph
    BY DEF QueuesInSnapshot
  <2>1. InGraph(ecg[Responder(l)], responder[l])
    BY DEF CInv, LinkRight, Right
  <2> QED
    BY <2>1 DEF InGraph, Refers, HeadersIn
<1> QED
  BY <1>1, SyncContent, PTL
-----------------------------------------------------------------------------
(***************************************************************************)
(* What the responder of a link remembers of what was sent over it.  An    *)
(* initial request makes it forget everything, so such a request must find *)
(* nothing sent: the initiator has not started, and has no response yet.   *)
(***************************************************************************)
Remembers(l) ==
  /\ sent[l] \in Seq(HeaderId) /\ IsInjective(sent[l])
  /\ SeqToSet(sent[l]) \subseteq responder[l].theirKnown
  /\ \A r \in SeqToSet(request[l]) : r.initial => ~initiator[l].started
  /\ sent[l] # <<>> /\ ~initiator[l].started =>
       responder[l].stage = "Receive" /\ request[l] = <<>> /\ initiator[l].stage # "Command"

HInv == IInv /\ CInv /\ \A l \in Link : Remembers(l)

\* Two batches without repetitions and without a common header.
LEMMA InjectiveConcatenation ==
  ASSUME NEW old \in Seq(HeaderId), NEW ops \in Seq(HeaderId), IsInjective(old), IsInjective(ops),
         SeqToSet(old) \cap SeqToSet(ops) = {}
  PROVE  /\ old \o ops \in Seq(HeaderId) /\ IsInjective(old \o ops)
         /\ SeqToSet(old \o ops) = SeqToSet(old) \cup SeqToSet(ops)
<1> DEFINE long == old \o ops
           m == Len(old)
           n == Len(ops)
<1>1. /\ m \in Nat /\ n \in Nat /\ DOMAIN old = 1 .. m /\ DOMAIN ops = 1 .. n /\ DOMAIN long = 1 .. m + n
      /\ long \in Seq(HeaderId)
  OBVIOUS
<1>2. /\ \A i \in 1 .. m : i \in 1 .. m + n /\ long[i] = old[i]
      /\ \A i \in 1 .. n : m + i \in 1 .. m + n /\ long[m + i] = ops[i]
  BY <1>1
<1>3. \A i \in 1 .. m + n : i \in 1 .. m \/ (i - m \in 1 .. n /\ long[i] = ops[i - m])
  BY <1>1
<1> HIDE DEF long, m, n
<1>4. \A i \in 1 .. m, j \in 1 .. n : old[i] # ops[j]
  BY <1>1 DEF SeqToSet
<1>5. IsInjective(long)
  <2> SUFFICES ASSUME NEW i \in 1 .. m + n, NEW j \in 1 .. m + n, long[i] = long[j] PROVE i = j
    BY <1>1 DEF IsInjective
  <2>1. CASE i \in 1 .. m /\ j \in 1 .. m
    BY <1>1, <1>2, <2>1 DEF IsInjective
  <2>2. CASE i \notin 1 .. m /\ j \notin 1 .. m
    <3>1. i - m \in 1 .. n /\ j - m \in 1 .. n /\ ops[i - m] = ops[j - m]
      BY <1>3, <2>2
    <3>2. i - m = j - m
      BY <1>1, <3>1 DEF IsInjective
    <3> QED
      BY <1>1, <3>2
  <2>3. CASE (i \in 1 .. m) # (j \in 1 .. m)
    BY <1>2, <1>3, <1>4, <2>3
  <2> QED
    BY <2>1, <2>2, <2>3
<1>6. SeqToSet(long) = SeqToSet(old) \cup SeqToSet(ops)
  <2>1. ASSUME NEW i \in 1 .. m + n PROVE long[i] \in SeqToSet(old) \cup SeqToSet(ops)
    BY <1>1, <1>2, <1>3 DEF SeqToSet
  <2>2. (\A i \in 1 .. m : old[i] \in SeqToSet(long)) /\ (\A i \in 1 .. n : ops[i] \in SeqToSet(long))
    <3>1. \A i \in 1 .. m + n : long[i] \in SeqToSet(long)
      BY <1>1 DEF SeqToSet
    <3> QED
      BY <1>2, <3>1
  <2> QED
    BY <1>1, <2>1, <2>2 DEF SeqToSet
<1> QED
  BY <1>1, <1>5, <1>6 DEF long

LEMMA LengthOfTail ==
  ASSUME NEW S, NEW s \in Seq(S), NEW t, t = s \/ (s # <<>> /\ t = Tail(s))
  PROVE  ~ (Len(t) > Len(s))
OBVIOUS

\* No step but a turn adds to the responses of a link.
LEMMA NothingSent ==
  ASSUME NEW k, NEW S, response[k] \in Seq(S),
         response'[k] = response[k] \/ (response[k] # <<>> /\ response'[k] = Tail(response[k]))
  PROVE  Sending(k) = <<>>
<1>1. ~ (Len(response'[k]) > Len(response[k]))
  BY LengthOfTail
<1> QED
  BY <1>1 DEF Sending

\* A step that sends nothing over k, and leaves both ends where they were.
LEMMA StillRemembers ==
  ASSUME NEW k, Remembers(k), sent'[k] = sent[k] \o Sending(k), Sending(k) = <<>>,
         request'[k] = request[k], initiator'[k] = initiator[k],
         responder'[k].theirKnown = responder[k].theirKnown,
         responder[k].stage = "Receive" => responder'[k].stage = "Receive"
  PROVE  Remembers(k)'
<1>1. sent'[k] = sent[k]
  BY DEF Remembers
<1> QED
  BY <1>1 DEF Remembers

\* The stores' steps.
LEMMA StoreRemembers ==
  ASSUME HInv, SentNext, NEW k \in Link, UNCHANGED <<initiator, request, response>>, \A l \in Link : Woken(l)
  PROVE  Remembers(k)'
<1>1. response[k] \in Seq(ResponseMsg) /\ responder[k] \in ResponderState /\ Remembers(k)
  BY DEF HInv, CInv, LinkRight, Right, Typed
<1>2. Sending(k) = <<>> /\ sent'[k] = sent[k] \o Sending(k)
  BY <1>1, NothingSent DEF SentNext
<1>3. /\ responder'[k].theirKnown = responder[k].theirKnown
      /\ responder[k].stage = "Receive" => responder'[k].stage = "Receive"
  <2>1. CASE responder'[k] = responder[k]
    BY <2>1
  <2>2. CASE responder[k].stage = "Subscribed" /\ \E g : responder'[k] = [responder[k] EXCEPT !.stage = "Updated", !.snapshot = g]
    BY <1>1, <2>2 DEF ResponderState
  <2> QED
    BY <2>1, <2>2 DEF Woken
<1> QED
  BY <1>1, <1>2, <1>3, StillRemembers

\* The steps of a link's own tasks, at that link.
LEMMA InitiatorRemembers ==
  ASSUME HInv, SentNext, NEW l \in Link, InitiatorRequests(l) \/ InitiatorWaits(l) \/ InitiatorReceives(l)
  PROVE  Remembers(l)'
<1>1. /\ TasksOK /\ Remembers(l) /\ response[l] \in Seq(ResponseMsg) /\ initiator[l] \in InitiatorState
      /\ request[l] \in Seq(RequestMsg)
  BY DEF HInv, IInv, CInv, LinkRight, Right, Typed
<1>2. response'[l] = response[l] \/ (response[l] # <<>> /\ response'[l] = Tail(response[l]))
  BY <1>1 DEF InitiatorRequests, InitiatorWaits, InitiatorReceives, TasksOK
<1>3. sent'[l] = sent[l] /\ responder' = responder
  <2>1. Sending(l) = <<>>
    BY <1>1, <1>2, NothingSent
  <2> QED
    BY <1>1, <2>1 DEF SentNext, Remembers, InitiatorRequests, InitiatorWaits, InitiatorReceives
<1>4. CASE InitiatorRequests(l)
  <2>1. PICK req : request'[l] = Append(request[l], req) /\ req.initial = ~initiator[l].started
    BY <1>1, <1>4 DEF InitiatorRequests, TasksOK
  <2>2. initiator[l].stage = "Command" /\ initiator'[l].started = initiator[l].started
    BY <1>1, <1>4 DEF InitiatorRequests, TasksOK, InitiatorState
  <2>3. SeqToSet(request'[l]) \subseteq SeqToSet(request[l]) \cup {req}
    BY <1>1, <2>1 DEF SeqToSet
  <2>4. sent[l] # <<>> => initiator[l].started
    BY <1>1, <2>2 DEF Remembers
  <2> QED
    BY <1>1, <1>3, <2>1, <2>2, <2>3, <2>4 DEF Remembers, InitiatorState
<1>5. CASE InitiatorWaits(l)
  <2>1. /\ request' = request /\ initiator'[l].started = initiator[l].started
        /\ initiator'[l].stage = "ResponseAfterWait" /\ initiator[l].stage = "Response"
    BY <1>1, <1>5 DEF InitiatorWaits, TasksOK, InitiatorState
  <2> QED
    BY <1>1, <1>3, <2>1 DEF Remembers
<1>6. CASE InitiatorReceives(l)
  <2>1. request' = request /\ initiator'[l].started = TRUE
    BY <1>1, <1>6 DEF InitiatorReceives, TasksOK
  <2>2. request[l] = <<>>
    <3>1. LinkOK(l) /\ initiator[l].stage # "Command" /\ response[l] # <<>>
      BY <1>6 DEF HInv, IInv, InitiatorReceives
    <3> QED
      BY <3>1 DEF LinkOK, Exchange, Idle, AtRest, Commanded, Requested, Answering, Answered, Delivered
  <2>3. SeqToSet(request'[l]) = {}
    BY <2>1, <2>2 DEF SeqToSet
  <2> QED
    BY <1>1, <1>3, <2>1, <2>3 DEF Remembers
<1> QED
  BY <1>4, <1>5, <1>6

\* The initial request comes before anything is sent: nothing is forgotten.
LEMMA ReceiveRemembers ==
  ASSUME HInv, SentNext, NEW l \in Link, ResponderReceives(l)
  PROVE  Remembers(l)'
<1> DEFINE req == Head(request[l])
<1>1. /\ TasksOK /\ Remembers(l) /\ response[l] \in Seq(ResponseMsg) /\ responder[l] \in ResponderState
      /\ request[l] \in Seq(RequestMsg)
  BY DEF HInv, IInv, CInv, LinkRight, Right, Typed
<1>2. /\ request[l] # <<>> /\ request'[l] = Tail(request[l]) /\ initiator' = initiator /\ response' = response
      /\ responder'[l].theirKnown = IF req.initial THEN {} ELSE responder[l].theirKnown
  BY <1>1 DEF ResponderReceives, TasksOK, ResponderState, NewResponder
<1>3. sent'[l] = sent[l]
  <2>1. Sending(l) = <<>>
    BY <1>1, <1>2, NothingSent
  <2> QED
    BY <1>1, <2>1 DEF SentNext, Remembers
<1>4. req \in SeqToSet(request[l]) /\ SeqToSet(request'[l]) \subseteq SeqToSet(request[l])
  BY <1>1, <1>2 DEF SeqToSet
<1>5. sent[l] # <<>> => initiator[l].started /\ ~req.initial
  BY <1>1, <1>2, <1>4 DEF Remembers
<1>6. sent[l] = <<>> => SeqToSet(sent[l]) = {}
  BY DEF SeqToSet
<1> HIDE DEF req
<1> QED
  BY <1>1, <1>2, <1>3, <1>4, <1>5, <1>6 DEF Remembers

\* A turn sends what is not marked, each header once, and marks it.
LEMMA TurnRemembers ==
  ASSUME HInv, SentNext, NEW l \in Link, ResponderRuns(l) \/ ResponderReruns(l)
  PROVE  Remembers(l)'
<1>1. /\ TasksOK /\ Remembers(l) /\ response[l] \in Seq(ResponseMsg)
      /\ initiator' = initiator /\ request' = request /\ responder[l].stage # "Receive"
  BY DEF HInv, IInv, CInv, LinkRight, Right, Typed, ResponderRuns, ResponderReruns
<1>2. request[l] = <<>> /\ initiator[l].stage # "Command"
  BY TurnFinds DEF HInv
<1>3. PICK done, ops : Respond(l, done, ops) /\ Outcome(responder[l], done, ops)
  BY TurnFinds DEF HInv
<1>4. /\ ops \in Seq(HeaderId) /\ IsInjective(ops) /\ SeqToSet(ops) \cap responder[l].theirKnown = {}
      /\ responder[l].theirKnown \cup SeqToSet(ops) \subseteq done.theirKnown
      /\ done.sentHaves \in Seq(HeaderId)
  BY <1>3 DEF Outcome, StateOK, WorkOK, ResponderState
<1>5. responder'[l].theirKnown = done.theirKnown
  BY <1>1, <1>3 DEF Respond, RoundDone, NewResponder, TasksOK
<1> DEFINE m == ResponseWith(done, ops)
<1>6. /\ WaitMsg.type = "Wait" /\ WaitMsg \in ResponseMsg
      /\ m.type = "Response" /\ m.operations = ops /\ m \in ResponseMsg
  BY <1>4 DEF WaitMsg, ResponseMsg, ResponseWith
<1>7. \/ response'[l] = Append(response[l], m) /\ responder'[l].stage = "Receive"
      \/ ops = <<>> /\ response'[l] \in {response[l], Append(response[l], WaitMsg)}
  <2> DEFINE next == RoundDone(done)
  <2>1. next.stage = "Receive"
    BY DEF RoundDone, NewResponder
  <2>2. \/ /\ response' = [response EXCEPT ![l] = Append(@, m)]
           /\ responder' = [responder EXCEPT ![l] = next]
        \/ /\ ops = <<>>
           /\ \/ response' = [response EXCEPT ![l] = Append(@, WaitMsg)]
              \/ response' = response
    BY <1>3 DEF Respond, WaitMsg, ResponseWith
  <2> HIDE DEF m, next
  <2> QED
    BY <1>1, <2>1, <2>2 DEF TasksOK
<1> HIDE DEF m
<1>8. sent'[l] = sent[l] \o ops
  <2>1. ASSUME NEW x \in ResponseMsg, response'[l] = Append(response[l], x)
        PROVE  Len(response'[l]) > Len(response[l]) /\ Last(response'[l]) = x
    BY <1>1, <2>1 DEF Last
  <2>2. Sending(l) = ops
    <3>1. CASE response'[l] = Append(response[l], m)
      BY <1>6, <2>1, <3>1 DEF Sending
    <3>2. CASE ops = <<>> /\ response'[l] = Append(response[l], WaitMsg)
      BY <1>6, <2>1, <3>2 DEF Sending
    <3>3. CASE ops = <<>> /\ response'[l] = response[l]
      BY <1>1, <3>3, NothingSent
    <3> QED
      BY <1>7, <3>1, <3>2, <3>3
  <2> QED
    BY <2>2 DEF SentNext
<1>9. /\ sent'[l] \in Seq(HeaderId) /\ IsInjective(sent'[l])
      /\ SeqToSet(sent'[l]) \subseteq responder'[l].theirKnown
  <2>1. /\ sent[l] \in Seq(HeaderId) /\ IsInjective(sent[l])
        /\ SeqToSet(sent[l]) \cap SeqToSet(ops) = {} /\ SeqToSet(sent[l]) \subseteq responder[l].theirKnown
    BY <1>1, <1>4 DEF Remembers
  <2>2. /\ sent[l] \o ops \in Seq(HeaderId) /\ IsInjective(sent[l] \o ops)
        /\ SeqToSet(sent[l] \o ops) = SeqToSet(sent[l]) \cup SeqToSet(ops)
    BY <1>4, <2>1, InjectiveConcatenation
  <2> QED
    BY <1>4, <1>5, <1>8, <2>1, <2>2
<1>10. sent'[l] # <<>> /\ ~initiator[l].started => responder'[l].stage = "Receive"
  <2>1. ops = <<>> => sent'[l] = sent[l]
    BY <1>1, <1>8 DEF Remembers
  <2> QED
    BY <1>1, <1>7, <2>1 DEF Remembers
<1> QED
  BY <1>1, <1>2, <1>9, <1>10 DEF Remembers

LEMMA TaskStepRemembers ==
  ASSUME HInv, SentNext, NEW l \in Link, TaskStep(l), NEW k \in Link
  PROVE  Remembers(k)'
<1>1. TasksOK /\ Remembers(k) /\ response[k] \in Seq(ResponseMsg) /\ responder[l] \in ResponderState
  BY DEF HInv, IInv, CInv, LinkRight, Right, Typed
<1>2. CASE RegisterOutgoing(l) \/ StoreReceives(l)
  <2>1. UNCHANGED <<initiator, request, response>>
    BY <1>2 DEF RegisterOutgoing, StoreReceives
  <2>2. \A j \in Link : Woken(j)
    BY <1>2, ListenerFacts DEF RegisterOutgoing, StoreReceives, Woken
  <2> QED
    BY <2>1, <2>2, StoreRemembers
<1>3. CASE StoreSharesState(l) \/ StoreSubscribes(l)
  <2>1. UNCHANGED <<initiator, request, response>>
    BY <1>3 DEF StoreSharesState, StoreSubscribes
  <2>2. /\ responder'[k].theirKnown = responder[k].theirKnown
        /\ responder[k].stage = "Receive" => responder'[k].stage = "Receive"
    <3>1. CASE k = l
      BY <1>1, <1>3, <3>1 DEF StoreSharesState, StoreSubscribes, TasksOK, ResponderState
    <3>2. CASE k # l
      BY <1>1, <1>3, <3>2 DEF StoreSharesState, StoreSubscribes, TasksOK
    <3> QED
      BY <3>1, <3>2
  <2>3. Sending(k) = <<>> /\ sent'[k] = sent[k] \o Sending(k)
    BY <1>1, <2>1, NothingSent DEF SentNext
  <2> QED
    BY <1>1, <2>1, <2>2, <2>3, StillRemembers
<1>4. ASSUME \/ InitiatorRequests(l) \/ InitiatorWaits(l) \/ InitiatorReceives(l)
             \/ ResponderReceives(l) \/ ResponderRuns(l) \/ ResponderReruns(l)
      PROVE  Remembers(k)'
  <2>1. CASE k = l
    BY <1>4, <2>1, InitiatorRemembers, ReceiveRemembers, TurnRemembers
  <2>2. CASE k # l
    <3>1. CASE InitiatorRequests(l) \/ InitiatorWaits(l) \/ InitiatorReceives(l) \/ ResponderReceives(l)
      <4>1. /\ initiator'[k] = initiator[k] /\ request'[k] = request[k]
            /\ response'[k] = response[k] /\ responder'[k] = responder[k]
        BY <1>1, <2>2, <3>1 DEF InitiatorRequests, InitiatorWaits, InitiatorReceives, ResponderReceives, TasksOK
      <4>2. Sending(k) = <<>> /\ sent'[k] = sent[k] \o Sending(k)
        BY <1>1, <4>1, NothingSent DEF SentNext
      <4> QED
        BY <1>1, <4>1, <4>2, StillRemembers
    <3>2. CASE ResponderRuns(l) \/ ResponderReruns(l)
      <4>1. initiator' = initiator /\ request' = request
        BY <3>2 DEF ResponderRuns, ResponderReruns
      <4>2. PICK done, ops : Respond(l, done, ops)
        BY <3>2, TurnFinds DEF HInv
      <4>3. response'[k] = response[k] /\ responder'[k] = responder[k]
        BY <1>1, <2>2, <4>2 DEF Respond, TasksOK
      <4>4. Sending(k) = <<>> /\ sent'[k] = sent[k] \o Sending(k)
        BY <1>1, <4>3, NothingSent DEF SentNext
      <4> QED
        BY <1>1, <4>1, <4>3, <4>4, StillRemembers
    <3> QED
      BY <1>4, <3>1, <3>2
  <2> QED
    BY <2>1, <2>2
<1> QED
  BY <1>2, <1>3, <1>4 DEF TaskStep

(***************************************************************************)
(* An operation is sent over a link at most once, merges included, in one  *)
(* response or in two: however often its queues come to hold a header      *)
(* (prepare_operations pushes the children of known headers too), the      *)
(* responder marks what it sends, skips what is marked, and forgets marks  *)
(* only at the initial request, which finds nothing sent.                  *)
(***************************************************************************)
THEOREM SyncSendsOnce == SentSpec => []SendsOnce
<1>1. SentInit => \A l \in Link : Remembers(l)
  <2> SUFFICES ASSUME SentInit, NEW l \in Link PROVE Remembers(l)
    OBVIOUS
  <2>1. SeqToSet(<<>>) = {} /\ IsInjective(<<>>)
    BY DEF SeqToSet, IsInjective
  <2> QED
    BY <2>1 DEF SentInit, Init, Remembers
<1>2. HInv /\ [SentNext]_<<vars, sent>> => (\A l \in Link : Remembers(l))'
  <2> SUFFICES ASSUME HInv, [SentNext]_<<vars, sent>>, NEW k \in Link PROVE Remembers(k)'
    OBVIOUS
  <2>1. CASE SentNext /\ \E l \in Link : TaskStep(l)
    BY <2>1, TaskStepRemembers
  <2>2. CASE SentNext /\ \E h \in HeaderId : Apply(h)
    <3>1. UNCHANGED <<initiator, request, response>> /\ \A j \in Link : Woken(j)
      BY <2>2, ListenerFacts DEF Apply
    <3> QED
      BY <2>2, <3>1, StoreRemembers
  <2>3. CASE UNCHANGED <<vars, sent>>
    BY <2>3 DEF HInv, Remembers, vars
  <2> QED
    BY <2>1, <2>2, <2>3 DEF SentNext, Next
<1>3. SentInit => Init
  BY DEF SentInit
<1>4. [SentNext]_<<vars, sent>> => [Next]_vars
  BY DEF SentNext
<1>5. SentSpec => Spec
  BY <1>3, <1>4, PTL DEF SentSpec, Spec
<1>6. SentSpec => [](IInv /\ CInv)
  BY <1>5, SyncContent, PTL
<1>7. IInv /\ CInv /\ (\A l \in Link : Remembers(l)) /\ [SentNext]_<<vars, sent>> => (\A l \in Link : Remembers(l))'
  BY <1>2 DEF HInv
<1>8. (\A l \in Link : Remembers(l)) => SendsOnce
  BY DEF Remembers, SendsOnce
<1> QED
  BY <1>1, <1>6, <1>7, <1>8, PTL DEF SentSpec
-----------------------------------------------------------------------------
(***************************************************************************)
(* As long as nobody has merged, so that no header has two parents, a      *)
(* header that the responder has marked as known is in the initiator's     *)
(* graph or on its way into it (mark_as_known).                            *)
(***************************************************************************)
THEOREM SyncTheyKnowIsTrue == ASSUME Forest PROVE Spec => []TheyKnowIsTrue
<1>1. CInv => TheyKnowIsTrue
  <2> SUFFICES ASSUME CInv, NEW l \in Link
               PROVE  responder[l].theirKnown \subseteq ecg[Initiator(l)] \cup InFlight(l)
    BY DEF TheyKnowIsTrue
  <2>1. KnownTrue(ecg[Initiator(l)], OnTheWay(response[l], received[l]), responder[l])
    BY DEF CInv, LinkRight, Right
  <2> DEFINE R == SeqToSet(received[l])
             M == {n \in SeqToSet(response[l]) : n.type = "Response"}
             A == UNION {SeqToSet(m.operations) : m \in M}
             B == UNION {SeqToSet(ops) : ops \in R}
  <2>2. InFlight(l) = A \cup B
    BY DEF InFlight
  <2>4. OnTheWay(response[l], received[l]) = {m.operations : m \in M} \cup R
    BY DEF OnTheWay
  <2> HIDE DEF R, M
  <2>3. UNION {SeqToSet(ops) : ops \in {m.operations : m \in M} \cup R} \subseteq A \cup B
    OBVIOUS
  <2> QED
    BY <2>1, <2>2, <2>3, <2>4 DEF KnownTrue
<1> QED
  BY <1>1, SyncContent, PTL

(***************************************************************************)
(* As long as nobody has merged, operations arrive after their parents, in *)
(* any interleaving with local operations and other links: none of them is *)
(* refused by insert_header (handle_received_ecg_operations only logs it). *)
(***************************************************************************)
THEOREM SyncDeliverableInOrder == ASSUME Forest PROVE Spec => []DeliverableInOrder
<1>1. IInv /\ CInv => DeliverableInOrder
  <2> SUFFICES ASSUME IInv, CInv, NEW l \in Link, received[l] # <<>>
               PROVE  SeqToSet(Head(received[l])) \subseteq InsertHeaders(ecg[Initiator(l)], Head(received[l]))
    BY DEF DeliverableInOrder
  <2> DEFINE theirs == ecg[Initiator(l)]
             ours == ecg[Responder(l)]
             rec == received[l]
             rs == responder[l]
             cmd == command[l]
             ini == initiator[l]
             req == request[l]
             res == response[l]
  <2>1. rs.stage = "Receive"
    BY DEF IInv, LinkOK, Exchange, Idle, Commanded, Requested, Answering, Answered, Delivered, AtRest
  <2>2. /\ theirs \in SUBSET HeaderId /\ ParentClosed(theirs) /\ rec # <<>>
        /\ Right(theirs, ours, cmd, ini, req, res, rec, rs)
    BY EndsOfLink DEF LinkRight
  <2> HIDE DEF theirs, ours, rec, rs, cmd, ini, req, res
  <2>3. AfterDelivery(theirs, ours, cmd, ini, req, res, rec, rs)
    BY <2>1, <2>2, RightAfterDelivery
  <2>4. SeqToSet(Head(rec)) \subseteq InsertHeaders(theirs, Head(rec))
    BY <2>3 DEF AfterDelivery
  <2> QED
    BY <2>4 DEF theirs, rec
<1> QED
  BY <1>1, SyncContent, PTL

(***************************************************************************)
(* As long as nobody has merged, a responder is asleep in its store's      *)
(* ecg_subscribers only while it has nothing for the initiator: no wakeup  *)
(* is lost between the copy of the graph it worked on and its subscription *)
(* (SubscribeECG), nor by the exception update_listeners makes for the     *)
(* peer that an update came from.                                          *)
(***************************************************************************)
THEOREM SyncWaitsOnlyWhenCaughtUp == ASSUME Forest PROVE Spec => []WaitsOnlyWhenCaughtUp
<1>1. CInv => WaitsOnlyWhenCaughtUp
  BY EndsOfLink DEF WaitsOnlyWhenCaughtUp
<1> QED
  BY <1>1, SyncContent, PTL
-----------------------------------------------------------------------------
\* A store takes in what the other end of the link has, after its parents.
LEMMA StoreReceivesLearns ==
  ASSUME IInv, CInv, NEW l \in Link, StoreReceives(l)
  PROVE  Replicas!Learn(l)
<1> DEFINE d == Initiator(l)
           graph == InsertHeaders(ecg[d], Head(received[l]))
<1>1. received[l] # <<>> /\ ecg' = [ecg EXCEPT ![d] = graph]
  BY DEF StoreReceives
<1>2. responder[l].stage = "Receive"
  BY <1>1 DEF IInv, LinkOK, Exchange, Idle, Commanded, Requested, Answering, Answered, Delivered, AtRest
<1>3. /\ ecg[d] \in SUBSET HeaderId /\ ParentClosed(ecg[d])
      /\ Right(ecg[d], ecg[Responder(l)], command[l], initiator[l], request[l], response[l], received[l], responder[l])
  BY EndsOfLink DEF LinkRight
<1>4. Grown(ecg[d], graph) /\ graph \subseteq ecg[d] \cup ecg[Responder(l)]
  <2> DEFINE theirs == ecg[d]
             rec == received[l]
             rs == responder[l]
             cmd == command[l]
             ini == initiator[l]
             req == request[l]
             res == response[l]
             ours == ecg[Responder(l)]
  <2>1. /\ theirs \in SUBSET HeaderId /\ ParentClosed(theirs) /\ rec # <<>> /\ rs.stage = "Receive"
        /\ Right(theirs, ours, cmd, ini, req, res, rec, rs)
    BY <1>1, <1>2, <1>3
  <2> HIDE DEF theirs, rec, rs, cmd, ini, req, res, ours
  <2>2. AfterDelivery(theirs, ours, cmd, ini, req, res, rec, rs)
    BY <2>1, RightAfterDelivery
  <2> QED
    BY <2>2 DEF AfterDelivery, theirs, rec, rs, cmd, ini, req, res, ours
<1> HIDE DEF graph
<1> DEFINE new == graph \ ecg[d]
<1>5. new \in SUBSET (ecg[l[2]] \ ecg[l[1]]) /\ graph = ecg[l[1]] \cup new
  BY <1>4 DEF Grown, Initiator, Responder
<1>6. \A h \in new : Replicas!HasParents(graph, h)
  BY <1>4 DEF Grown, ParentClosed, Replicas!HasParents
<1>7. ecg' = [ecg EXCEPT ![l[1]] = graph]
  BY <1>1 DEF Initiator
<1> HIDE DEF new
<1>8. ecg' = [ecg EXCEPT ![l[1]] = ecg[l[1]] \cup new] /\ \A h \in new : Replicas!HasParents(ecg[l[1]] \cup new, h)
  BY <1>5, <1>6, <1>7
<1> QED
  BY <1>5, <1>8 DEF Replicas!Learn

LEMMA StepReplicates ==
  IInv /\ CInv /\ [Next]_vars => [Replicas!Next]_ecg
<1> SUFFICES ASSUME IInv, CInv, [Next]_vars PROVE Replicas!Next \/ ecg' = ecg
  OBVIOUS
<1>1. ASSUME NEW l \in Link, StoreReceives(l) PROVE Replicas!Next
  BY <1>1, StoreReceivesLearns DEF Replicas!Next
<1>2. ASSUME NEW h \in HeaderId, Apply(h) PROVE Replicas!Next
  <2>1. Replicas!Create(h)
    BY <1>2 DEF Apply, Replicas!Create, Replicas!HasParents
  <2> QED
    BY <2>1 DEF Replicas!Next
<1>3. ASSUME NEW l \in Link, TaskStep(l), ~StoreReceives(l) PROVE ecg' = ecg
  <2>1. CASE RegisterOutgoing(l) \/ InitiatorRequests(l) \/ InitiatorWaits(l) \/ InitiatorReceives(l)
    BY <2>1 DEF RegisterOutgoing, InitiatorRequests, InitiatorWaits, InitiatorReceives
  <2>2. CASE ResponderReceives(l) \/ StoreSharesState(l) \/ StoreSubscribes(l)
    BY <2>2 DEF ResponderReceives, StoreSharesState, StoreSubscribes
  <2>3. CASE ResponderRuns(l) \/ ResponderReruns(l)
    BY <2>3 DEF ResponderRuns, ResponderReruns
  <2> QED
    BY <1>3, <2>1, <2>2, <2>3 DEF TaskStep
<1>4. CASE UNCHANGED vars
  BY <1>4 DEF vars
<1> QED
  BY <1>1, <1>2, <1>3, <1>4 DEF Next

(***************************************************************************)
(* Stores that synchronise are replicas of one history, merges included:   *)
(* each step of the tasks, streams and stores is a header created at its   *)
(* author, headers a store takes in (handle_received_ecg_operations) from  *)
(* the other end of a link, after their parents, or nothing.               *)
(***************************************************************************)
THEOREM SyncIsCausalReplication == Spec => ImplementsReplicas
<1>1. Init => Replicas!Init
  BY DEF Init, Replicas!Init
<1> QED
  BY <1>1, StepReplicates, SyncContent, PTL DEF Spec, ImplementsReplicas, Replicas!Spec
=============================================================================
