---------------------------- MODULE Multiplexer ----------------------------
(* The two multiplexers of a connection (network/multiplexer.rs): each      *)
(* carries the messages of its mini-protocols over one TCP stream in        *)
(* frames, and is one task that either writes a frame, or reads, or waits.  *)
(*                                                                          *)
(* The TCP stream is a sequence of units: one for each half of a frame's    *)
(* header (stream id, length), and any number for a body, whose content is  *)
(* the number of the exchange it belongs to.  The mini-protocols are those  *)
(* a connection starts with, whose tasks speak strictly in turn: two        *)
(* messages an exchange as the managers, or three as Heartbeat.  The        *)
(* streams created later are in PeerManager, what StoreSync says on them in *)
(* EcgSync and Store.  Its tasks are not covered here: the responder may    *)
(* send Wait and then, unasked, the answer.                                 *)
EXTENDS Naturals, Sequences, FiniteSets

CONSTANTS
    Stream,             \* the streams
    Leader,             \* [Stream -> End]: whose task speaks first
    ExchangeLength,     \* [Stream -> {2, 3}]: the messages of an exchange
    Sizes,              \* [End -> SUBSET Nat]: lengths of the messages of an end
    MaxExchanges,       \* bound on the exchanges of a stream
    OUTGOING_CAPACITY, PROTOCOL_INCOMING_CAPACITY,
    BUFFER_SIZE,        \* units read at once
    PipeCapacity        \* units TCP holds before a write waits

End == {"Client", "Server"}
Other(e) == IF e = "Client" THEN "Server" ELSE "Client"

ASSUME MultiplexerAssumption ==
    /\ Leader \in [Stream -> End]
    /\ ExchangeLength \in [Stream -> {2, 3}]
    /\ Sizes \in [End -> SUBSET (Nat \ {0})]
    /\ {MaxExchanges, OUTGOING_CAPACITY, PROTOCOL_INCOMING_CAPACITY, BUFFER_SIZE, PipeCapacity}
         \subseteq Nat \ {0}

(* There is room for what a task may be sent before it is its turn to send. *)
ASSUME InboxAssumption ==
    \A s \in Stream : ExchangeLength[s] <= PROTOCOL_INCOMING_CAPACITY + 1

VARIABLES
    task,       \* of each end and stream: turn in the exchange, its number
    outgoing,   \* the channel from all tasks to the multiplexer
    writing,    \* what is left to write of a frame
    pipe,       \* TCP, from each end to the other
    buf,        \* what was read and not yet looked at
    read_state, \* the frame being read
    inbox       \* the channel from the multiplexer to each task

vars == <<task, outgoing, writing, pipe, buf, read_state, inbox>>

Numbers == 1 .. MaxExchanges
BodyOf(n, size) == [i \in 1 .. size |-> <<"body", n>>]
NumberOf(m) == m[1][2]
Message == {BodyOf(n, size) : n \in Numbers, size \in UNION {Sizes[e] : e \in End}}

HEADER_LENGTH == 2
Header(s, length) == <<<<"stream", s>>, <<"length", length>>>>
Frame(s, m) == Header(s, Len(m)) \o m

ProcessingHeader(header) == [kind |-> "header", header |-> header]
ProcessingBody(s, length, got) ==
    [kind |-> "body", stream |-> s, length |-> length, send_buffer |-> got]

Init ==
    /\ task = [e \in End |-> [s \in Stream |-> [turn |-> 0, number |-> 0]]]
    /\ outgoing = [e \in End |-> <<>>]
    /\ writing = [e \in End |-> <<>>]
    /\ pipe = [e \in End |-> <<>>]
    /\ buf = [e \in End |-> <<>>]
    /\ read_state = [e \in End |-> ProcessingHeader(<<>>)]
    /\ inbox = [e \in End |-> [s \in Stream |-> <<>>]]

-----------------------------------------------------------------------------
(* Mini-protocols of strict turns: the leader sends the first, third, ...   *)
(* message of an exchange, the other end those in between.                  *)

\* Mutant: the leader does not wait for its answer.
LeaderTalksOn(e, s) == e = Leader[s] \/ task[e][s].turn % 2 = 1
Speaks(e, s) == (task[e][s].turn % 2 = 0) = (e = Leader[s])
\* Mutant: an exchange has no end.
TurnsForEver(e, s) == task[e][s].turn + 1
NextTurn(e, s) == (task[e][s].turn + 1) % ExchangeLength[s]

(* A new exchange has a new number; an answer carries that of its request.  *)
\* Mutant: each message has a number of its own.
SendFreshNumber(e, s) ==
    LET t == task[e][s]
        n == t.number + 1 IN
    /\ Speaks(e, s) /\ n \in Numbers
    /\ Len(outgoing[e]) < OUTGOING_CAPACITY
    /\ \E size \in Sizes[e] : outgoing' = [outgoing EXCEPT ![e] = Append(@, <<s, BodyOf(n, size)>>)]
    /\ task' = [task EXCEPT ![e][s] = [turn |-> NextTurn(e, s), number |-> n]]
    /\ UNCHANGED <<writing, pipe, buf, read_state, inbox>>
SendMessage(e, s) ==
    LET t == task[e][s]
        n == IF t.turn = 0 THEN t.number + 1 ELSE t.number IN
    /\ Speaks(e, s) /\ n \in Numbers
    /\ Len(outgoing[e]) < OUTGOING_CAPACITY
    /\ \E size \in Sizes[e] : outgoing' = [outgoing EXCEPT ![e] = Append(@, <<s, BodyOf(n, size)>>)]
    /\ task' = [task EXCEPT ![e][s] = [turn |-> NextTurn(e, s), number |-> n]]
    /\ UNCHANGED <<writing, pipe, buf, read_state, inbox>>

ReceiveMessage(e, s) ==
    /\ ~Speaks(e, s) /\ inbox[e][s] # <<>>
    /\ task' = [task EXCEPT ![e][s] =
            [turn |-> NextTurn(e, s), number |-> NumberOf(Head(inbox[e][s]))]]
    /\ inbox' = [inbox EXCEPT ![e][s] = Tail(@)]
    /\ UNCHANGED <<outgoing, writing, pipe, buf, read_state>>

-----------------------------------------------------------------------------
(* The loop of a multiplexer.                                               *)

\* Mutant: off by one.
CompleteTooLate(rs) == rs.kind = "body" /\ Len(rs.send_buffer) > rs.length
Complete(rs) == rs.kind = "body" /\ Len(rs.send_buffer) = rs.length
Reading(e) == buf[e] # <<>> \/ Complete(read_state[e])
Selecting(e) == writing[e] = <<>> /\ ~Reading(e)

TakeOutgoing(e) ==
    /\ Selecting(e) /\ outgoing[e] # <<>>
    /\ writing' = [writing EXCEPT ![e] = Frame(Head(outgoing[e])[1], Head(outgoing[e])[2])]
    /\ outgoing' = [outgoing EXCEPT ![e] = Tail(@)]
    /\ UNCHANGED <<task, pipe, buf, read_state, inbox>>

(* Until all is written the multiplexer does nothing else. *)
WriteFrame(e) ==
    /\ writing[e] # <<>> /\ Len(pipe[e]) < PipeCapacity
    /\ pipe' = [pipe EXCEPT ![e] = Append(@, Head(writing[e]))]
    /\ writing' = [writing EXCEPT ![e] = Tail(@)]
    /\ UNCHANGED <<task, outgoing, buf, read_state, inbox>>

ReadPipe(e) ==
    LET available == pipe[Other(e)] IN
    /\ Selecting(e)
    /\ \E k \in 1 .. BUFFER_SIZE :
        /\ k <= Len(available)
        /\ buf' = [buf EXCEPT ![e] = SubSeq(available, 1, k)]
        /\ pipe' = [pipe EXCEPT ![Other(e)] = SubSeq(available, k + 1, Len(available))]
    /\ UNCHANGED <<task, outgoing, writing, read_state, inbox>>

Lesser(x, y) == IF x <= y THEN x ELSE y
FromBuf(e, k) == SubSeq(buf[e], 1, k)
BufAfter(e, k) == [buf EXCEPT ![e] = SubSeq(@, k + 1, Len(@))]

handle_header(e) ==
    LET rs == read_state[e]
        received_c == Lesser(Len(buf[e]), HEADER_LENGTH - Len(rs.header))
        header == rs.header \o FromBuf(e, received_c) IN
    /\ rs.kind = "header" /\ buf[e] # <<>>
    /\ read_state' = [read_state EXCEPT ![e] =
            IF Len(header) = HEADER_LENGTH
            THEN ProcessingBody(header[1][2], header[2][2], <<>>)
            ELSE ProcessingHeader(header)]
    /\ buf' = BufAfter(e, received_c)
    /\ UNCHANGED <<task, outgoing, writing, pipe, inbox>>

handle_body(e) ==
    LET rs == read_state[e]
        received_c == Lesser(Len(buf[e]), rs.length - Len(rs.send_buffer)) IN
    /\ rs.kind = "body" /\ ~Complete(rs) /\ buf[e] # <<>>
    /\ read_state' = [read_state EXCEPT ![e].send_buffer = @ \o FromBuf(e, received_c)]
    /\ buf' = BufAfter(e, received_c)
    /\ UNCHANGED <<task, outgoing, writing, pipe, inbox>>

(* Waits while the task's channel is full, and with it all other streams.   *)
(* What is left of the buffer is handled next.                              *)
\* Mutant: the rest of the buffer is dropped.
DeliverAndDrop(e) ==
    LET rs == read_state[e] IN
    /\ Complete(rs)
    /\ Len(inbox[e][rs.stream]) < PROTOCOL_INCOMING_CAPACITY
    /\ inbox' = [inbox EXCEPT ![e][rs.stream] = Append(@, rs.send_buffer)]
    /\ read_state' = [read_state EXCEPT ![e] = ProcessingHeader(<<>>)]
    /\ buf' = [buf EXCEPT ![e] = <<>>]
    /\ UNCHANGED <<task, outgoing, writing, pipe>>
DeliverMessage(e) ==
    LET rs == read_state[e] IN
    /\ Complete(rs)
    /\ Len(inbox[e][rs.stream]) < PROTOCOL_INCOMING_CAPACITY
    /\ inbox' = [inbox EXCEPT ![e][rs.stream] = Append(@, rs.send_buffer)]
    /\ read_state' = [read_state EXCEPT ![e] = ProcessingHeader(<<>>)]
    /\ UNCHANGED <<task, outgoing, writing, pipe, buf>>

-----------------------------------------------------------------------------
Multiplex(e) ==
    \/ TakeOutgoing(e) \/ WriteFrame(e) \/ ReadPipe(e)
    \/ handle_header(e) \/ handle_body(e) \/ DeliverMessage(e)

Next == \E e \in End :
    \/ Multiplex(e)
    \/ \E s \in Stream : SendMessage(e, s) \/ ReceiveMessage(e, s)

(* Every task runs when it can: the exchanges go on until the bound. *)
Fairness == WF_vars(Next)

Spec == Init /\ [][Next]_vars /\ Fairness

-----------------------------------------------------------------------------
(* Types. *)
TypeOK ==
    /\ task \in [End -> [Stream -> [turn : 0 .. 2, number : 0 .. MaxExchanges]]]
    /\ \A e \in End :
        /\ outgoing[e] \in Seq(Stream \X Message) /\ Len(outgoing[e]) <= OUTGOING_CAPACITY
        /\ \A s \in Stream : inbox[e][s] \in Seq(Message)
        /\ Len(pipe[e]) <= PipeCapacity /\ Len(buf[e]) <= BUFFER_SIZE
        /\ read_state[e].kind = "body" =>
            /\ read_state[e].stream \in Stream
            /\ Len(read_state[e].send_buffer) <= read_state[e].length

-----------------------------------------------------------------------------
(* Properties. *)

(* The units that have left the channel of e and have not been delivered.   *)
UnderWay(e) ==
    LET rs == read_state[Other(e)] IN
    (IF rs.kind = "header" THEN rs.header ELSE Header(rs.stream, rs.length) \o rs.send_buffer)
        \o buf[Other(e)] \o pipe[e] \o writing[e]

(* The k-th number of a set of numbers.                                     *)
Rank(P, i) == Cardinality({j \in P : j <= i})
Kth(P, k) == CHOOSE i \in P : Rank(P, i) = k

(* The messages of stream s in a sequence of units, by their headers.       *)
Starts(units, s) == {i \in DOMAIN units : units[i] = <<"stream", s>>}
MessageAt(units, i) ==
    SubSeq(units, i + HEADER_LENGTH, Lesser(Len(units), i + 1 + units[i + 1][2]))
MessagesIn(units, s) ==
    LET starts == Starts(units, s) IN
    [k \in 1 .. Cardinality(starts) |-> MessageAt(units, Kth(starts, k))]

Entries(entries, s) == {i \in DOMAIN entries : entries[i][1] = s}
MessagesOf(entries, s) ==
    LET those == Entries(entries, s) IN
    [k \in 1 .. Cardinality(those) |-> entries[Kth(those, k)][2]]

Transit == [e \in End |->
    LET units == UnderWay(e) IN
    [s \in Stream |-> inbox[Other(e)][s] \o MessagesIn(units, s) \o MessagesOf(outgoing[e], s)]]

(* Whatever pieces TCP hands over and wherever a frame is cut, and however  *)
(* streams are interleaved, the multiplexers are channels that neither      *)
(* lose, alter, reorder nor mix messages (handle_receive).                  *)
Abstract == INSTANCE Channels WITH transit <- Transit
ImplementsChannels == Abstract!Spec

(* No task makes the multiplexer wait (multiplexer.rs:306), and through it  *)
(* all streams and the peer: since tasks take turns, there is room for what *)
(* is delivered.                                                            *)
NeverWaitsForATask ==
    \A e \in End : Complete(read_state[e]) =>
        Len(inbox[e][read_state[e].stream]) < PROTOCOL_INCOMING_CAPACITY

(* "Heartbeat does not match" (heartbeat/v0.rs:124, :164) is never reached: *)
(* what a task receives in an exchange is of that exchange, and what opens  *)
(* an exchange is new.                                                      *)
AnswersMatch ==
    \A e \in End, s \in Stream :
        (~Speaks(e, s) /\ inbox[e][s] # <<>>) =>
            NumberOf(Head(inbox[e][s])) =
                task[e][s].number + (IF task[e][s].turn = 0 THEN 1 ELSE 0)

(* Every message that is waited for comes: the two loops, each of which     *)
(* writes a frame to its end before it reads again, do not wait for each    *)
(* other, if TCP holds all that one of the ends may have to say.            *)
EveryExchangeEnds ==
    <>(\A e \in End, s \in Stream : task[e][s] = [turn |-> 0, number |-> MaxExchanges])
=============================================================================
