-------------------------- MODULE UDPTransport_proofs --------------------------
(* Theorems about UDPTransport, for any clients, scenarios and bounds: what holds
   whatever the network does within its budget. *)
EXTENDS UDPTransport, UDPServer_proofs, FiniteSetTheorems

(* The datagrams in a queue, without their order. *)
Held(queue) == {queue[i] : i \in DOMAIN queue}

ToServerTypes == Datagram(ClientIds, Payloads)

ToClientTypes == Datagram(ClientIds, ServerPayloads)

(* A segment of a message that client a has sent, damaged perhaps. *)
IsSegmentOf(a, d) ==
  /\ d = Data(d.id, d.seq, scenario.request, d.intact, Chunk(a, d.payload.call, d.seq + 1))
  /\ d.id \in ClientIds /\ d.seq \in 0..(scenario.request - 1) /\ d.intact \in BOOLEAN
  /\ d.payload.call \in 1..calls[a]

FromClient(a, d) ==
  d = InitRequest \/ (\E c \in ClientIds : d = Handshake(c)) \/ IsSegmentOf(a, d)

NetworkOK ==
  /\ toServer \in Seq([from : Clients, datagram : ToServerTypes])
  /\ \A p \in Held(toServer) : FromClient(p.from, p.datagram)
  /\ toClient \in [Clients -> Seq(ToClientTypes)]
  /\ \A a \in Clients : \A d \in Held(toClient[a]) : d.type # "INIT_REQUEST"

Named == {"idle", "awaitAck", "awaitResponse"}

InCall == {"awaitAck", "awaitResponse"}

ClientOK(a) ==
  /\ clientId[a] \in IF pc[a] \in Named THEN ClientIds ELSE {NoId}
  /\ pc[a] \in InCall =>
       /\ calls[a] > 0
       /\ \E c \in ClientIds : outgoing[a] = SegmentsOf(c, Message(a, calls[a]))
  /\ pc[a] = "awaitAck" => acked[a] < scenario.request
  /\ pc[a] \notin InCall => outgoing[a] = <<>> /\ acked[a] = 0 /\ resends[a] = 0
  /\ pc[a] # "awaitResponse" => incoming[a] = EmptyMap

ProcessTypes ==
  /\ pc \in [Clients -> Places]
  /\ clientId \in [Clients -> ClientIds \cup {NoId}]
  /\ acked \in [Clients -> 0..scenario.request]
  /\ resends \in [Clients -> 0..MaxResends]
  /\ calls \in [Clients -> 0..MaxCalls]
  /\ DOMAIN outgoing = Clients /\ DOMAIN incoming = Clients /\ DOMAIN result = Clients

ProcessesOK == ProcessTypes /\ \A a \in Clients : ClientOK(a)

ScenarioOK ==
  /\ scenario \in Scenarios
  /\ faults \in [FaultKinds -> Nat]
  /\ \A kind \in FaultKinds : faults[kind] <= scenario.budget[kind]

TransportInv == ServerInv /\ NetworkOK /\ ProcessesOK /\ ScenarioOK

-----------------------------------------------------------------------------
NotRestarted == faults["restart"] = scenario.budget["restart"]

FirstCalls == \A a \in Clients : calls[a] <= 1

OneClientOnly == \A a, b \in Clients : a = b

(* Segments of two messages cannot meet in one buffer: a message has one, or each
   client has sent one message under an id no other client has. *)
Unmixed == scenario.request = 1 \/ (FirstCalls /\ (NotRestarted \/ OneClientOnly))

(* Client a can still come to send a segment with the id c. *)
Uses(a, c) ==
  \/ pc[a] \in Named /\ clientId[a] = c
  \/ \E d \in Held(outgoing[a]) : d.id = c
  \/ \E p \in Held(toServer) : p.from = a /\ p.datagram # InitRequest /\ p.datagram.id = c
  \/ \E d \in Held(toClient[a]) : d.id = c

IdsOwned ==
  NotRestarted =>
    /\ \A a \in Clients : \A c \in ClientIds : Uses(a, c) => c < nextId
    /\ \A a, b \in Clients : \A c \in ClientIds : Uses(a, c) /\ Uses(b, c) => a = b

(* What the server has stored under an id is what its owner sent. *)
IsStored(c, seq, x) ==
  /\ x = Chunk(x.client, x.call, seq + 1)
  /\ x.client \in Clients /\ x.call \in 1..calls[x.client]
  /\ seq \in 0..(scenario.request - 1)
  /\ NotRestarted => c < nextId /\ \A a \in Clients : Uses(a, c) => a = x.client

BuffersOwned ==
  \A c \in DOMAIN clients : \A seq \in DOMAIN clients[c].segments :
    IsStored(c, seq, clients[c].segments[seq])

ExecutedWhole == Unmixed => OnlyWholeRequests

-----------------------------------------------------------------------------
AnswerPart(a, k, i) == [answers |-> Chunk(a, k, 1), part |-> i]

IsAnswerPart(a, i, payload) ==
  \E k \in 1..calls[a] : payload = AnswerPart(a, k, i)

IsPieceRead(a, i, piece) ==
  \E k \in 1..calls[a] : piece \in {AnswerPart(a, k, i), Damaged(AnswerPart(a, k, i))}

IsAnswerSegment(a, d) ==
  /\ d.seq \in 0..(scenario.answer - 1) /\ d.tot = scenario.answer
  /\ IsAnswerPart(a, d.seq + 1, d.payload)

(* What is on its way to client a, what a collects and what a returned is of answers
   to messages of a, each segment in its place. *)
AnswersSent(a) ==
  \A d \in Held(toClient[a]) : d.type = "DATA" => IsAnswerSegment(a, d)

AnswersCollected(a) ==
  \A seq \in DOMAIN incoming[a] :
    seq \in 0..(scenario.answer - 1) /\ IsPieceRead(a, seq + 1, incoming[a][seq])

AnswersReturned(a) ==
  result[a].kind = "answer" =>
    /\ result[a].text = [i \in 1..scenario.answer |-> result[a].text[i]]
    /\ \A i \in 1..scenario.answer : IsPieceRead(a, i, result[a].text[i])

AnswersOwned ==
  Unmixed => \A a \in Clients :
    AnswersSent(a) /\ AnswersCollected(a) /\ AnswersReturned(a)

(* The segments of the answer to the first call of a that the network changed. *)
Changed(a) ==
  {i \in 1..scenario.answer :
     \/ \E d \in Held(toClient[a]) : d.type = "DATA" /\ d.seq = i - 1 /\ ~ d.intact
     \/ i - 1 \in DOMAIN incoming[a] /\ incoming[a][i - 1] # AnswerPart(a, 1, i)
     \/ result[a].kind = "answer" /\ result[a].text[i] # AnswerPart(a, 1, i)}

DamageCounted ==
  Unmixed /\ FirstCalls => \A a \in Clients :
    Cardinality(Changed(a)) <= scenario.budget["damage"] - faults["damage"]

-----------------------------------------------------------------------------
(* Queues as sets of datagrams. *)

(* A function on the first n numbers is a sequence. *)
LEMMA FunctionIsSeq ==
  ASSUME NEW S, NEW n \in Nat, NEW f \in [1..n -> S]
  PROVE  f \in Seq(S)
  OBVIOUS

(* What is held in a queue has the type of the queue. *)
LEMMA HeldTypes ==
  ASSUME NEW S, NEW queue \in Seq(S)
  PROVE  Held(queue) \subseteq S
  BY DEF Held

(* Taking the first datagram, and joining two queues. *)
LEMMA HeldTail ==
  ASSUME NEW S, NEW queue \in Seq(S), queue # <<>>
  PROVE  /\ Head(queue) \in Held(queue) /\ Head(queue) \in S
         /\ Tail(queue) \in Seq(S) /\ Held(Tail(queue)) \subseteq Held(queue)
  BY DEF Held

LEMMA HeldConcat ==
  ASSUME NEW S, NEW queue \in Seq(S), NEW more \in Seq(S)
  PROVE  /\ queue \o more \in Seq(S)
         /\ Held(queue \o more) = Held(queue) \cup Held(more)
<1>1. /\ queue \o more \in Seq(S)
      /\ DOMAIN (queue \o more) = 1..(Len(queue) + Len(more))
  OBVIOUS
<1>2. \A i \in 1..Len(queue) : (queue \o more)[i] = queue[i]
  OBVIOUS
<1>3. \A i \in 1..Len(more) : (queue \o more)[Len(queue) + i] = more[i]
  OBVIOUS
<1>4. Held(queue \o more) \subseteq Held(queue) \cup Held(more)
  BY <1>1, <1>2, <1>3 DEF Held
<1>5. Held(queue) \subseteq Held(queue \o more)
  BY <1>1, <1>2 DEF Held
<1>6. Held(more) \subseteq Held(queue \o more)
  <2> SUFFICES ASSUME NEW i \in DOMAIN more
               PROVE  more[i] \in Held(queue \o more)
    BY DEF Held
  <2>1. i \in 1..Len(more) /\ Len(queue) + i \in 1..(Len(queue) + Len(more))
    OBVIOUS
  <2> QED
    BY <1>1, <1>3, <2>1 DEF Held
<1> QED
  BY <1>1, <1>4, <1>5, <1>6

(* What one client sends arrives in a queue with its name on it. *)
LEMMA HeldFrom ==
  ASSUME NEW S, NEW datagrams \in Seq(S), NEW a \in Clients
  PROVE  /\ From(a, datagrams) \in Seq([from : Clients, datagram : S])
         /\ \A p \in Held(From(a, datagrams)) : p.from = a /\ p.datagram \in Held(datagrams)
<1>1. /\ DOMAIN From(a, datagrams) = 1..Len(datagrams) /\ Len(datagrams) \in Nat
      /\ \A i \in 1..Len(datagrams) :
           /\ From(a, datagrams)[i] = [from |-> a, datagram |-> datagrams[i]]
           /\ datagrams[i] \in S
  BY DEF From
<1>2. From(a, datagrams) \in [1..Len(datagrams) -> [from : Clients, datagram : S]]
  BY <1>1 DEF From
<1>3. From(a, datagrams) \in Seq([from : Clients, datagram : S])
  BY <1>1, <1>2, FunctionIsSeq
<1>4. ASSUME NEW p \in Held(From(a, datagrams))
      PROVE  p.from = a /\ p.datagram \in Held(datagrams)
  <2>1. PICK i \in 1..Len(datagrams) : p = [from |-> a, datagram |-> datagrams[i]]
    BY <1>1 DEF Held
  <2> QED
    BY <2>1 DEF Held
<1> QED
  BY <1>3, <1>4

(* No fault of the network makes a datagram. *)
LEMMA HeldEffects ==
  ASSUME NEW S, NEW queue \in Seq(S), NEW i \in DOMAIN queue
  PROVE  /\ Without(queue, i) \in Seq(S) /\ Held(Without(queue, i)) \subseteq Held(queue)
         /\ Behind(queue, i) \in Seq(S) /\ Held(Behind(queue, i)) \subseteq Held(queue)
         /\ Repeated(queue, i) \in Seq(S) /\ Held(Repeated(queue, i)) \subseteq Held(queue)
<1> DEFINE before == SubSeq(queue, 1, i - 1)
           after  == SubSeq(queue, i + 1, Len(queue))
<1>1. before \in Seq(S) /\ Held(before) \subseteq Held(queue)
  BY DEF Held
<1>2. after \in Seq(S) /\ Held(after) \subseteq Held(queue)
  BY DEF Held
<1> DEFINE last == <<queue[i]>>
           rest == before \o after
<1>3. last \in Seq(S) /\ Held(last) \subseteq Held(queue)
  BY DEF Held
<1>4. /\ Without(queue, i) = rest /\ Behind(queue, i) = Append(rest, queue[i])
      /\ Repeated(queue, i) = Append(queue, queue[i])
  BY DEF Without, Behind, Repeated
<1> HIDE DEF before, after
<1>5. rest \in Seq(S) /\ Held(rest) \subseteq Held(queue)
  BY <1>1, <1>2, HeldConcat
<1> HIDE DEF rest
<1>6. Append(rest, queue[i]) = rest \o last /\ Append(queue, queue[i]) = queue \o last
  BY <1>5
<1> HIDE DEF last
<1>7. rest \o last \in Seq(S) /\ Held(rest \o last) = Held(rest) \cup Held(last)
  BY <1>3, <1>5, HeldConcat
<1>8. queue \o last \in Seq(S) /\ Held(queue \o last) = Held(queue) \cup Held(last)
  BY <1>3, HeldConcat
<1> QED
  BY <1>3, <1>4, <1>5, <1>6, <1>7, <1>8

-----------------------------------------------------------------------------
(* What the scenario and the wiring say of requests and answers. *)
LEMMA ScenarioTypes ==
  ASSUME ScenarioOK
  PROVE  /\ scenario.request \in Nat \ {0} /\ scenario.answer \in Nat \ {0}
         /\ scenario.budget \in [FaultKinds -> Nat]
  BY TransportAssumption DEF ScenarioOK, Scenario

LEMMA RequestTypes ==
  ASSUME ScenarioOK, NEW a \in Clients, NEW k \in 1..MaxCalls
  PROVE  /\ Message(a, k) \in Requests /\ Message(a, k) \in Messages
         /\ Len(Message(a, k)) = scenario.request
         /\ DOMAIN Message(a, k) = 1..scenario.request
         /\ \A i \in 1..scenario.request :
              Message(a, k)[i] = Chunk(a, k, i) /\ Chunk(a, k, i) \in Payloads
<1>1. Message(a, k) \in Requests /\ Message(a, k) \in Messages
  BY WiringAssumption DEF ScenarioOK, Requests, Message
<1>2. Message(a, k) \in Seq(Payloads)
  BY <1>1, MessageAssumption
<1>3. DOMAIN Message(a, k) = 1..scenario.request
      /\ \A i \in 1..scenario.request : Message(a, k)[i] = Chunk(a, k, i)
  BY DEF Message, RequestOf
<1>4. Len(Message(a, k)) = scenario.request
  BY <1>2, <1>3, ScenarioTypes
<1>5. \A i \in 1..scenario.request : Message(a, k)[i] \in Payloads
  BY <1>2, <1>4
<1> QED
  BY <1>1, <1>3, <1>4, <1>5

LEMMA AnswerTypes ==
  ASSUME ScenarioOK, NEW reply \in Replies
  PROVE  reply \in Responses \cup {NoReply}
  BY RequestTypes, WiringAssumption
     DEF Replies, AnswerTo, TransportAnswers, ScenarioOK

(* What a client sends is among the datagrams UDPServer is proved for. *)
LEMMA SegmentTypes ==
  ASSUME ScenarioOK, NEW a \in Clients, calls[a] \in 0..MaxCalls,
         NEW d, IsSegmentOf(a, d)
  PROVE  d \in Incoming /\ d \in ToServerTypes /\ d.type = "DATA" /\ d # InitRequest
<1> DEFINE k   == d.payload.call
           msg == Message(a, k)
           i   == d.seq + 1
<1>1. /\ k \in 1..MaxCalls /\ i \in 1..scenario.request /\ i - 1 = d.seq /\ d.seq \in Nat
      /\ d.id \in ClientIds /\ d.intact \in BOOLEAN /\ scenario.request \in Nat
  BY ScenarioTypes, TransportAssumption DEF IsSegmentOf
<1>2. d = Data(d.id, d.seq, scenario.request, d.intact, Chunk(a, k, i))
  BY DEF IsSegmentOf
<1> HIDE DEF k, i
<1>3. /\ msg \in Messages /\ Len(msg) = scenario.request
      /\ msg[i] = Chunk(a, k, i) /\ Chunk(a, k, i) \in Payloads
  BY <1>1, RequestTypes
<1>4. d = Data(d.id, i - 1, Len(msg), d.intact, msg[i]) /\ i \in 1..Len(msg)
  BY <1>1, <1>2, <1>3
<1> HIDE DEF msg
<1>5. d \in Incoming
  BY <1>1, <1>3, <1>4 DEF Incoming
<1>6. d \in ToServerTypes /\ d.type = "DATA"
  BY <1>1, <1>2, <1>3 DEF ToServerTypes, Datagram, Data
<1> QED
  BY <1>5, <1>6 DEF InitRequest

LEMMA FromClientTypes ==
  ASSUME ScenarioOK, NEW a \in Clients, calls[a] \in 0..MaxCalls,
         NEW d, FromClient(a, d)
  PROVE  d \in Incoming /\ d \in ToServerTypes
<1>1. CASE d = InitRequest
  BY <1>1 DEF InitRequest, Incoming, ToServerTypes, Datagram
<1>2. CASE \E c \in ClientIds : d = Handshake(c)
  BY <1>2 DEF Handshake, Incoming, ToServerTypes, Datagram
<1>3. CASE IsSegmentOf(a, d)
  BY <1>3, SegmentTypes
<1> QED
  BY <1>1, <1>2, <1>3 DEF FromClient

(* The segments a client still has to send are of its present call. *)
LEMMA OutgoingSegments ==
  ASSUME ScenarioOK, ProcessesOK, NEW a \in Clients, pc[a] \in InCall
  PROVE  /\ DOMAIN outgoing[a] = 1..scenario.request
         /\ Len(outgoing[a]) = scenario.request
         /\ \A i \in 1..scenario.request :
              /\ IsSegmentOf(a, outgoing[a][i]) /\ outgoing[a][i].intact
              /\ outgoing[a][i].seq = i - 1 /\ outgoing[a][i].payload.call = calls[a]
<1> DEFINE msg == Message(a, calls[a])
<1>1. PICK c \in ClientIds : outgoing[a] = SegmentsOf(c, msg)
  BY DEF ProcessesOK, ClientOK
<1>2. calls[a] \in 1..MaxCalls
  BY TransportAssumption DEF ProcessesOK, ProcessTypes, ClientOK
<1>3. /\ Len(msg) = scenario.request /\ scenario.request \in Nat
      /\ \A i \in 1..scenario.request : msg[i] = Chunk(a, calls[a], i)
  BY <1>2, RequestTypes, ScenarioTypes
<1> HIDE DEF msg
<1>4. outgoing[a] = [i \in 1..scenario.request |->
                       Data(c, i - 1, scenario.request, TRUE, Chunk(a, calls[a], i))]
  BY <1>1, <1>3 DEF SegmentsOf
<1>5. ASSUME NEW i \in 1..scenario.request
      PROVE  /\ IsSegmentOf(a, outgoing[a][i]) /\ outgoing[a][i].intact
             /\ outgoing[a][i].seq = i - 1 /\ outgoing[a][i].payload.call = calls[a]
  <2> DEFINE d == outgoing[a][i]
  <2>1. d = Data(c, i - 1, scenario.request, TRUE, Chunk(a, calls[a], i))
    BY <1>4
  <2> HIDE DEF d
  <2>2. /\ d.id = c /\ d.seq = i - 1 /\ d.intact = TRUE
        /\ d.payload = Chunk(a, calls[a], i) /\ d.payload.call = calls[a]
    BY <2>1 DEF Data, Chunk
  <2>3. d.seq + 1 = i /\ d.seq \in 0..(scenario.request - 1) /\ calls[a] \in 1..calls[a]
    BY <1>2, <1>3, <2>2
  <2>4. IsSegmentOf(a, d)
    BY <2>1, <2>2, <2>3 DEF IsSegmentOf
  <2> QED
    BY <2>2, <2>4 DEF d
<1>6. Len(outgoing[a]) = scenario.request
  BY <1>3, <1>4
<1> QED
  BY <1>4, <1>5, <1>6

-----------------------------------------------------------------------------
(* A step of client a leaves the other clients alone. *)
OthersUnchanged(a) ==
  \A b \in Clients \ {a} :
    /\ pc'[b] = pc[b] /\ clientId'[b] = clientId[b] /\ calls'[b] = calls[b]
    /\ outgoing'[b] = outgoing[b] /\ acked'[b] = acked[b] /\ resends'[b] = resends[b]
    /\ incoming'[b] = incoming[b] /\ result'[b] = result[b]

LEMMA OneClient ==
  ASSUME ProcessesOK, scenario' = scenario, NEW a \in Clients,
         ProcessTypes', ClientOK(a)', OthersUnchanged(a)
  PROVE  ProcessesOK'
  BY DEF ProcessesOK, ClientOK, OthersUnchanged, Message, RequestOf

(* What the step of a client does to its own state and what it sends. *)
ClientStepOK(a) ==
  /\ ProcessesOK'
  /\ OthersUnchanged(a)
  /\ sent' \in Seq(ToServerTypes)
  /\ \A d \in Held(sent') : FromClient(a, d)'

LEMMA SaysNothing ==
  ASSUME sent' = <<>>
  PROVE  sent' \in Seq(ToServerTypes) /\ Held(sent') = {}
  BY DEF Held

LEMMA SaysOne ==
  ASSUME ScenarioOK, UNCHANGED <<calls, scenario>>, NEW a \in Clients,
         calls[a] \in 0..MaxCalls, NEW d, FromClient(a, d), sent' = <<d>>
  PROVE  sent' \in Seq(ToServerTypes) /\ \A x \in Held(sent') : FromClient(a, x)'
<1>1. d \in ToServerTypes
  BY FromClientTypes
<1>2. sent' \in Seq(ToServerTypes) /\ Held(sent') = {d}
  BY <1>1 DEF Held
<1>3. FromClient(a, d)'
  BY DEF FromClient, IsSegmentOf, Chunk
<1> QED
  BY <1>2, <1>3

(* The constructor begins. *)
LEMMA ConstructStep ==
  ASSUME TransportInv, NEW a \in Clients, Construct(a)
  PROVE  ClientStepOK(a)
<1>1. ProcessTypes' /\ OthersUnchanged(a)
  BY DEF TransportInv, ProcessesOK, ProcessTypes, Construct, PerformHandshake, Goto,
         Places, OthersUnchanged, ClientSends
<1>2. ClientOK(a)'
  BY DEF TransportInv, ProcessesOK, ProcessTypes, ClientOK, Construct, PerformHandshake,
         Goto, Named, InCall
<1>3. ProcessesOK'
  BY <1>1, <1>2, OneClient DEF TransportInv, Construct, ClientSends
<1>4. sent' = <<InitRequest>> /\ FromClient(a, InitRequest)
  BY DEF Construct, PerformHandshake, Emit, FromClient
<1>5. sent' \in Seq(ToServerTypes) /\ \A x \in Held(sent') : FromClient(a, x)'
  BY <1>4, SaysOne DEF TransportInv, ProcessesOK, ProcessTypes, Construct, ClientSends
<1> QED
  BY <1>1, <1>3, <1>5 DEF ClientStepOK

(* sendMessage is called: its first segment is one of the new call. *)
LEMMA CallStep ==
  ASSUME TransportInv, NEW a \in Clients, Call(a)
  PROVE  ClientStepOK(a)
<1> DEFINE k   == calls[a] + 1
           msg == Message(a, k)
           c   == clientId[a]
<1>1. /\ pc[a] = "idle" /\ c \in ClientIds /\ k \in 1..MaxCalls /\ calls'[a] = k
      /\ acked[a] = 0 /\ resends[a] = 0 /\ incoming[a] = EmptyMap
  BY TransportAssumption DEF TransportInv, ProcessesOK, ProcessTypes, ClientOK, Call, SendMessage, Named, InCall
<1> PICK d : d = SegmentsOf(c, msg)[1]
  OBVIOUS
<1>2. /\ pc' = [pc EXCEPT ![a] = "awaitAck"] /\ calls' = [calls EXCEPT ![a] = k]
      /\ outgoing' = [outgoing EXCEPT ![a] = SegmentsOf(c, msg)]
      /\ result' = [result EXCEPT ![a] = Outcome("pending")]
      /\ UNCHANGED <<clientId, acked, resends, incoming, scenario>>
      /\ sent' = <<d>>
  BY DEF Call, SendMessage, Goto, Emit, ClientSends
<1>3. /\ Len(msg) = scenario.request /\ scenario.request \in Nat \ {0}
      /\ msg[1] = Chunk(a, k, 1) /\ Chunk(a, k, 1) \in Payloads
  BY <1>1, RequestTypes, ScenarioTypes DEF TransportInv
<1>4. msg = Message(a, calls[a])'
  BY <1>1, <1>2 DEF Message, RequestOf, Chunk
<1> HIDE DEF k, msg, c
<1>5. d = Data(c, 0, scenario.request, TRUE, Chunk(a, k, 1))
  <2>1. 1 \in 1..Len(msg) /\ 1 - 1 = 0
    BY <1>3
  <2> QED
    BY <1>3, <2>1 DEF SegmentsOf
<1>6. d \in ToServerTypes
  BY <1>1, <1>3, <1>5 DEF ToServerTypes, Datagram, Data
<1>7. FromClient(a, d)'
  <2>1. /\ d.id = c /\ d.seq = 0 /\ d.intact = TRUE
        /\ d.payload = Chunk(a, k, 1) /\ d.payload.call = k
    BY <1>5 DEF Data, Chunk
  <2>2. k \in 1..k /\ 0 + 1 = 1 /\ 0 \in 0..(scenario.request - 1)
    BY <1>1, <1>3
  <2>3. d = Data(d.id, d.seq, scenario.request, d.intact, Chunk(a, d.payload.call, d.seq + 1))
    BY <1>5, <2>1, <2>2
  <2>4. IsSegmentOf(a, d)'
    BY <1>1, <1>2, <2>1, <2>2, <2>3 DEF IsSegmentOf, Data, Chunk
  <2> QED
    BY <2>4 DEF FromClient
<1>8. ProcessTypes' /\ OthersUnchanged(a)
  <2>1. calls' \in [Clients -> 0..MaxCalls]
    BY <1>1, <1>2, TransportAssumption DEF TransportInv, ProcessesOK, ProcessTypes
  <2> QED
    BY <1>2, <2>1 DEF TransportInv, ProcessesOK, ProcessTypes, Places, OthersUnchanged
<1>9. ClientOK(a)'
  <2>1. /\ pc'[a] = "awaitAck" /\ clientId'[a] = c /\ outgoing'[a] = SegmentsOf(c, msg)
        /\ acked'[a] = 0 /\ incoming'[a] = EmptyMap
    BY <1>1, <1>2 DEF TransportInv, ProcessesOK, ProcessTypes, c
  <2>2. calls'[a] > 0 /\ 0 < scenario'.request
    BY <1>1, <1>2, <1>3
  <2> QED
    BY <1>1, <1>4, <2>1, <2>2 DEF ClientOK, Named, InCall
<1>10. ProcessesOK'
  BY <1>2, <1>8, <1>9, OneClient DEF TransportInv
<1>11. sent' \in Seq(ToServerTypes) /\ \A x \in Held(sent') : FromClient(a, x)'
  BY <1>2, <1>6, <1>7 DEF Held
<1> QED
  BY <1>8, <1>10, <1>11 DEF ClientStepOK

(* A call ends, whatever the outcome. *)
LEMMA EndCallStep ==
  ASSUME TransportInv, NEW a \in Clients, pc[a] \in InCall, NEW outcome,
         EndCall(a, outcome), UNCHANGED <<calls, scenario>>
  PROVE  ClientStepOK(a)
<1>1. ProcessTypes' /\ OthersUnchanged(a)
  BY ResendAssumption, ScenarioTypes
     DEF TransportInv, ProcessesOK, ProcessTypes, EndCall, Goto, Places, OthersUnchanged
<1>2. ClientOK(a)'
  BY DEF TransportInv, ProcessesOK, ProcessTypes, ClientOK, EndCall, Goto, Named, InCall
<1>3. ProcessesOK'
  BY <1>1, <1>2, OneClient DEF TransportInv
<1>4. sent' \in Seq(ToServerTypes) /\ Held(sent') = {}
  BY SaysNothing DEF EndCall, Emit
<1> QED
  BY <1>1, <1>3, <1>4 DEF ClientStepOK

-----------------------------------------------------------------------------
(* The wait of the constructor ends. *)
LEMMA InitAnsweredStep ==
  ASSUME TransportInv, NEW a \in Clients, NEW m \in ToClientTypes,
         InitAnswered(a, m), UNCHANGED <<calls, scenario>>
  PROVE  ClientStepOK(a)
<1>1. m.type = "HS" => m.id \in ClientIds
  BY DEF ToClientTypes, Datagram
<1>2. ProcessTypes' /\ OthersUnchanged(a)
  BY <1>1 DEF TransportInv, ProcessesOK, ProcessTypes, InitAnswered, Goto, Places,
              OthersUnchanged
<1>3. ClientOK(a)'
  BY <1>1 DEF TransportInv, ProcessesOK, ProcessTypes, ClientOK, InitAnswered, Goto,
              Named, InCall
<1>4. ProcessesOK'
  BY <1>2, <1>3, OneClient DEF TransportInv
<1>5. sent' \in Seq(ToServerTypes) /\ Held(sent') = {}
  BY SaysNothing DEF InitAnswered, Emit
<1> QED
  BY <1>2, <1>4, <1>5 DEF ClientStepOK

LEMMA InitTimeoutStep ==
  ASSUME TransportInv, NEW a \in Clients, InitTimeout(a), UNCHANGED <<calls, scenario>>
  PROVE  ClientStepOK(a)
<1>2. ProcessTypes' /\ OthersUnchanged(a)
  BY DEF TransportInv, ProcessesOK, ProcessTypes, InitTimeout, Goto, Places,
         OthersUnchanged
<1>3. ClientOK(a)'
  BY DEF TransportInv, ProcessesOK, ProcessTypes, ClientOK, InitTimeout, Goto,
         Named, InCall
<1>4. ProcessesOK'
  BY <1>2, <1>3, OneClient DEF TransportInv
<1>5. sent' \in Seq(ToServerTypes) /\ Held(sent') = {}
  BY SaysNothing DEF InitTimeout, Emit
<1> QED
  BY <1>2, <1>4, <1>5 DEF ClientStepOK

(* The segment awaitAck waits for is one of the present call. *)
LEMMA CurrentSegment ==
  ASSUME TransportInv, NEW a \in Clients, pc[a] = "awaitAck"
  PROVE  /\ acked[a] \in Nat /\ acked[a] < scenario.request /\ Len(outgoing[a]) = scenario.request
         /\ Current(a) \in Held(outgoing[a]) /\ FromClient(a, Current(a))
         /\ acked[a] + 1 < scenario.request =>
              /\ outgoing[a][acked[a] + 2] \in Held(outgoing[a])
              /\ FromClient(a, outgoing[a][acked[a] + 2])
<1>1. acked[a] \in Nat /\ acked[a] < scenario.request /\ scenario.request \in Nat
  BY ScenarioTypes DEF TransportInv, ProcessesOK, ProcessTypes, ClientOK
<1>2. acked[a] + 1 \in 1..scenario.request
  BY <1>1
<1>3. acked[a] + 1 < scenario.request => acked[a] + 2 \in 1..scenario.request
  BY <1>1
<1>4. \A i \in 1..scenario.request : FromClient(a, outgoing[a][i])
  BY OutgoingSegments DEF TransportInv, InCall, FromClient
<1>5. DOMAIN outgoing[a] = 1..scenario.request /\ Len(outgoing[a]) = scenario.request
  BY OutgoingSegments DEF TransportInv, InCall
<1> QED
  BY <1>1, <1>2, <1>3, <1>4, <1>5 DEF Held, Current

LEMMA AckReceivedStep ==
  ASSUME TransportInv, NEW a \in Clients, pc[a] = "awaitAck", NEW m,
         AckReceived(a, m), UNCHANGED <<calls, scenario>>
  PROVE  ClientStepOK(a)
<1> DEFINE n == acked[a] + 1
<1>1. /\ n \in 0..scenario.request /\ Len(outgoing[a]) = scenario.request
      /\ n < scenario.request => FromClient(a, outgoing[a][acked[a] + 2])
  BY CurrentSegment, ScenarioTypes DEF TransportInv
<1>2. /\ acked' = [acked EXCEPT ![a] = n]
      /\ pc' = [pc EXCEPT ![a] = IF n < scenario.request THEN "awaitAck" ELSE "awaitResponse"]
      /\ UNCHANGED <<clientId, outgoing, resends, incoming, result, calls, scenario>>
  BY <1>1 DEF AckReceived, Goto, TransportInv, ProcessesOK, ProcessTypes
<1>3. /\ n < scenario.request => sent' = <<outgoing[a][acked[a] + 2]>>
      /\ ~ (n < scenario.request) => sent' = <<>>
  BY <1>1 DEF AckReceived, Emit
<1> HIDE DEF n
<1>4. ProcessTypes' /\ OthersUnchanged(a)
  BY <1>1, <1>2 DEF TransportInv, ProcessesOK, ProcessTypes, Places, OthersUnchanged
<1>5. ClientOK(a)'
  <2>1. /\ pc'[a] = (IF n < scenario.request THEN "awaitAck" ELSE "awaitResponse")
        /\ acked'[a] = n
    BY <1>2 DEF TransportInv, ProcessesOK, ProcessTypes
  <2>2. \A k : Message(a, k)' = Message(a, k)
    BY <1>2 DEF Message, RequestOf
  <2> QED
    BY <1>2, <2>1, <2>2 DEF TransportInv, ProcessesOK, ProcessTypes, ClientOK, Named, InCall
<1>6. ProcessesOK'
  BY <1>2, <1>4, <1>5, OneClient DEF TransportInv
<1>7. sent' \in Seq(ToServerTypes) /\ \A x \in Held(sent') : FromClient(a, x)'
  <2>1. calls[a] \in 0..MaxCalls
    BY DEF TransportInv, ProcessesOK, ProcessTypes
  <2>2. CASE n < scenario.request
    BY <1>1, <1>3, <2>1, <2>2, SaysOne DEF TransportInv
  <2>3. CASE ~ (n < scenario.request)
    BY <1>3, <2>3, SaysNothing
  <2> QED
    BY <2>2, <2>3
<1> QED
  BY <1>4, <1>6, <1>7 DEF ClientStepOK

LEMMA HandshakeReceivedStep ==
  ASSUME TransportInv, NEW a \in Clients, pc[a] = "awaitAck", NEW m \in ToClientTypes,
         HandshakeReceived(a, m), UNCHANGED <<calls, scenario>>
  PROVE  ClientStepOK(a)
<1>1. m.id \in ClientIds
  BY DEF HandshakeReceived, ToClientTypes, Datagram
<1>2. /\ clientId' = [clientId EXCEPT ![a] = m.id]
      /\ UNCHANGED <<pc, outgoing, acked, resends, incoming, result, calls, scenario>>
  BY DEF HandshakeReceived
<1>3. ProcessTypes' /\ OthersUnchanged(a)
  BY <1>1, <1>2 DEF TransportInv, ProcessesOK, ProcessTypes, OthersUnchanged
<1>4. ClientOK(a)'
  <2>1. \A k : Message(a, k)' = Message(a, k)
    BY <1>2 DEF Message, RequestOf
  <2> QED
    BY <1>1, <1>2, <2>1 DEF TransportInv, ProcessesOK, ProcessTypes, ClientOK, Named, InCall
<1>5. ProcessesOK'
  BY <1>2, <1>3, <1>4, OneClient DEF TransportInv
<1> DEFINE hs == Handshake(clientId[a])
           d  == Current(a)
<1>6. sent' = <<hs, d>>
  BY DEF HandshakeReceived, Emit
<1>7. clientId[a] \in ClientIds /\ calls[a] \in 0..MaxCalls
  BY DEF TransportInv, ProcessesOK, ProcessTypes, ClientOK, Named
<1>8. FromClient(a, hs) /\ FromClient(a, d)
  BY <1>7, CurrentSegment DEF FromClient
<1> HIDE DEF hs, d
<1>9. hs \in ToServerTypes /\ d \in ToServerTypes
  BY <1>7, <1>8, FromClientTypes DEF TransportInv
<1>10. sent' \in Seq(ToServerTypes) /\ Held(sent') = {hs, d}
  BY <1>6, <1>9 DEF Held
<1>11. \A x : FromClient(a, x) => FromClient(a, x)'
  BY <1>2 DEF FromClient, IsSegmentOf, Chunk
<1> QED
  BY <1>3, <1>5, <1>8, <1>10, <1>11 DEF ClientStepOK

(* A wait for an ACK expires: the segment once more, or the end of the call. *)
LEMMA AckTimeoutStep ==
  ASSUME TransportInv, NEW a \in Clients, AckTimeout(a), UNCHANGED <<calls, scenario>>
  PROVE  ClientStepOK(a)
<1>1. pc[a] = "awaitAck"
  BY DEF AckTimeout
<1>2. CASE resends[a] < MaxResends
  <2>1. /\ resends' = [resends EXCEPT ![a] = @ + 1] /\ sent' = <<Current(a)>>
        /\ UNCHANGED <<pc, clientId, outgoing, acked, incoming, result>>
    BY <1>2 DEF AckTimeout, Emit
  <2>2. ProcessTypes' /\ OthersUnchanged(a)
    BY <1>2, <2>1, ResendAssumption
       DEF TransportInv, ProcessesOK, ProcessTypes, OthersUnchanged
  <2>3. ClientOK(a)'
    <3>1. \A k : Message(a, k)' = Message(a, k)
      BY DEF Message, RequestOf
    <3> QED
      BY <1>1, <2>1, <3>1 DEF TransportInv, ProcessesOK, ClientOK, InCall
  <2>4. ProcessesOK'
    BY <2>2, <2>3, OneClient DEF TransportInv
  <2>5. calls[a] \in 0..MaxCalls /\ FromClient(a, Current(a))
    BY <1>1, CurrentSegment DEF TransportInv, ProcessesOK, ProcessTypes
  <2>6. sent' \in Seq(ToServerTypes) /\ \A x \in Held(sent') : FromClient(a, x)'
    BY <2>1, <2>5, SaysOne DEF TransportInv
  <2> QED
    BY <2>2, <2>4, <2>6 DEF ClientStepOK
<1>3. CASE ~ (resends[a] < MaxResends)
  <2>1. EndCall(a, Outcome("timeout")) /\ pc[a] \in InCall
    BY <1>1, <1>3 DEF AckTimeout, InCall
  <2> QED
    BY <2>1, EndCallStep
<1> QED
  BY <1>2, <1>3

(* What awaitAck drops changes nothing. *)
LEMMA OtherReceivedStep ==
  ASSUME TransportInv, NEW a \in Clients, NEW m, OtherReceived(a, m),
         UNCHANGED <<calls, scenario>>
  PROVE  ClientStepOK(a)
<1>1. ProcessTypes' /\ OthersUnchanged(a)
  BY DEF TransportInv, ProcessesOK, ProcessTypes, OtherReceived, clientVars, OthersUnchanged
<1>2. ClientOK(a)'
  BY DEF TransportInv, ProcessesOK, ClientOK, OtherReceived, clientVars, Message, RequestOf
<1>3. ProcessesOK'
  BY <1>1, <1>2, OneClient DEF TransportInv
<1>4. sent' \in Seq(ToServerTypes) /\ Held(sent') = {}
  BY SaysNothing DEF OtherReceived, Emit
<1> QED
  BY <1>1, <1>3, <1>4 DEF ClientStepOK

(* receiveResponse takes a segment of an answer. *)
LEMMA DataReceivedStep ==
  ASSUME TransportInv, NEW a \in Clients, pc[a] = "awaitResponse", NEW m,
         DataReceived(a, m), UNCHANGED <<calls, scenario>>
  PROVE  ClientStepOK(a)
<1> DEFINE segments == Put(incoming[a], m.seq, PayloadRead(m))
           text     == TextOf(segments, m.tot)
           outcome  == IF IsEmptyText(text) THEN Outcome("nullopt") ELSE Answer(text)
<1>1. CASE Cardinality(DOMAIN segments) = m.tot
  <2>1. EndCall(a, outcome) /\ pc[a] \in InCall
    BY <1>1 DEF DataReceived, InCall
  <2> HIDE DEF outcome
  <2> QED
    BY <2>1, EndCallStep
<1>2. CASE Cardinality(DOMAIN segments) # m.tot
  <2>1. /\ incoming' = [incoming EXCEPT ![a] = segments] /\ sent' = <<>>
        /\ UNCHANGED <<pc, clientId, outgoing, acked, resends, result>>
    BY <1>2 DEF DataReceived, Emit
  <2> HIDE DEF segments
  <2>2. ProcessTypes' /\ OthersUnchanged(a)
    BY <2>1 DEF TransportInv, ProcessesOK, ProcessTypes, OthersUnchanged
  <2>3. ClientOK(a)'
    BY <2>1 DEF TransportInv, ProcessesOK, ClientOK, InCall, Message, RequestOf
  <2>4. ProcessesOK'
    BY <2>2, <2>3, OneClient DEF TransportInv
  <2>5. sent' \in Seq(ToServerTypes) /\ Held(sent') = {}
    BY <2>1, SaysNothing
  <2> QED
    BY <2>2, <2>4, <2>5 DEF ClientStepOK
<1> QED
  BY <1>1, <1>2

-----------------------------------------------------------------------------
(* A client takes the next datagram, or gives up waiting for one. *)
LEMMA TakeStep ==
  ASSUME TransportInv, NEW a \in Clients, NEW m \in ToClientTypes, Take(a, m),
         UNCHANGED <<calls, scenario>>
  PROVE  ClientStepOK(a)
<1>1. CASE InitAnswered(a, m)
  BY <1>1, InitAnsweredStep
<1>2. CASE HandleEpollEvents(a, m)
  <2>1. pc[a] = "awaitAck" /\ pc[a] \in InCall
    BY <1>2 DEF HandleEpollEvents, InCall
  <2>2. CASE AckReceived(a, m)
    BY <2>1, <2>2, AckReceivedStep
  <2>3. CASE NackReceived(a, m)
    BY <2>1, <2>3, EndCallStep DEF NackReceived
  <2>4. CASE HandshakeReceived(a, m)
    BY <2>1, <2>4, HandshakeReceivedStep
  <2>5. CASE OtherReceived(a, m)
    BY <2>5, OtherReceivedStep
  <2> QED
    BY <1>2, <2>2, <2>3, <2>4, <2>5 DEF HandleEpollEvents
<1>3. CASE ReceiveResponse(a, m)
  <2>1. pc[a] = "awaitResponse" /\ pc[a] \in InCall
    BY <1>3 DEF ReceiveResponse, InCall
  <2>2. CASE DataReceived(a, m)
    BY <2>1, <2>2, DataReceivedStep
  <2>3. CASE NoDataReceived(a, m)
    BY <2>1, <2>3, EndCallStep DEF NoDataReceived
  <2> QED
    BY <1>3, <2>2, <2>3 DEF ReceiveResponse
<1> QED
  BY <1>1, <1>2, <1>3 DEF Take

LEMMA ExpireStep ==
  ASSUME TransportInv, NEW a \in Clients, Expire(a), UNCHANGED <<calls, scenario>>
  PROVE  ClientStepOK(a)
<1>1. CASE InitTimeout(a)
  BY <1>1, InitTimeoutStep
<1>2. CASE AckTimeout(a)
  BY <1>2, AckTimeoutStep
<1>3. CASE ResponseTimeout(a)
  BY <1>3, EndCallStep DEF ResponseTimeout, InCall
<1> QED
  BY <1>1, <1>2, <1>3 DEF Expire

(* A step of a client, and what it leaves alone. *)
ClientStep(a) == Construct(a) \/ Call(a) \/ Receive(a) \/ GiveUpWaiting(a)

LEMMA ClientStepKeeps ==
  ASSUME TransportInv, NEW a \in Clients, ClientStep(a)
  PROVE  ClientStepOK(a) /\ ClientSends(a)
<1>1. CASE Construct(a)
  BY <1>1, ConstructStep DEF Construct
<1>2. CASE Call(a)
  BY <1>2, CallStep DEF Call
<1>3. CASE Receive(a)
  <2> DEFINE m == Head(toClient[a])
  <2>1. /\ toClient[a] \in Seq(ToClientTypes) /\ toClient[a] # <<>> /\ Take(a, m)
        /\ UNCHANGED <<calls, scenario>> /\ ClientSends(a)
    BY <1>3 DEF TransportInv, NetworkOK, Receive, ClientSends
  <2>2. m \in ToClientTypes
    BY <2>1
  <2> HIDE DEF m
  <2> QED
    BY <2>1, <2>2, TakeStep
<1>4. CASE GiveUpWaiting(a)
  BY <1>4, ExpireStep DEF GiveUpWaiting, ClientSends
<1> QED
  BY <1>1, <1>2, <1>3, <1>4 DEF ClientStep

(* The datagrams of a client stay its own while its calls are counted up. *)
LEMMA FromClientGrows ==
  ASSUME NEW a \in Clients, scenario' = scenario, calls[a] \in Nat, calls'[a] \in Nat,
         calls[a] <= calls'[a], NEW d, FromClient(a, d)
  PROVE  FromClient(a, d)'
<1>1. CASE IsSegmentOf(a, d)
  <2>1. d.payload.call \in 1..calls'[a]
    BY <1>1 DEF IsSegmentOf
  <2> QED
    BY <1>1, <2>1 DEF FromClient, IsSegmentOf, Chunk
<1> QED
  BY <1>1 DEF FromClient

(* The number of calls of a client only grows, and a step of a client leaves the
   server's own state alone and adds no datagram to what is on its way to clients. *)
LEMMA ClientStepFrame ==
  ASSUME TransportInv, NEW a \in Clients, ClientStep(a)
  PROVE  /\ \A b \in Clients : calls[b] \in Nat /\ calls'[b] \in Nat /\ calls[b] <= calls'[b]
         /\ UNCHANGED <<now, nextId, managers, alive, executed, faults, scenario>>
         /\ toClient' \in [Clients -> Seq(ToClientTypes)]
         /\ \A b \in Clients : Held(toClient'[b]) \subseteq Held(toClient[b])
<1>1. UNCHANGED <<now, nextId, managers, alive, executed, faults, scenario>>
  BY ClientStepKeeps DEF ClientSends
<1>2. \A b \in Clients : calls[b] \in Nat /\ calls'[b] \in Nat /\ calls[b] <= calls'[b]
  <2>1. calls \in [Clients -> Nat]
    BY TransportAssumption DEF TransportInv, ProcessesOK, ProcessTypes
  <2>2. UNCHANGED calls \/ calls' = [calls EXCEPT ![a] = @ + 1]
    BY DEF ClientStep, Construct, Call, Receive, GiveUpWaiting
  <2> QED
    BY <2>1, <2>2
<1>3. CASE Receive(a)
  <2> DEFINE queue == toClient[a]
  <2>1. queue \in Seq(ToClientTypes) /\ queue # <<>>
    BY <1>3 DEF TransportInv, NetworkOK, Receive
  <2>2. toClient' = [toClient EXCEPT ![a] = Tail(queue)]
    BY <1>3 DEF Receive
  <2> HIDE DEF queue
  <2>3. Tail(queue) \in Seq(ToClientTypes) /\ Held(Tail(queue)) \subseteq Held(queue)
    BY <2>1, HeldTail
  <2> QED
    BY <1>1, <1>2, <2>2, <2>3 DEF TransportInv, NetworkOK, queue
<1>4. CASE ~ Receive(a)
  <2>1. UNCHANGED toClient
    BY <1>4 DEF ClientStep, Construct, Call, GiveUpWaiting
  <2> QED
    BY <1>1, <1>2, <2>1 DEF TransportInv, NetworkOK
<1> QED
  BY <1>3, <1>4

(* What stays of the server keeps its invariant. *)
LEMMA ServerAtRest ==
  ASSUME ServerInv, UNCHANGED <<now, nextId, managers, alive>>
  PROVE  ServerInv'
  BY DEF ServerInv, managers

LEMMA ClientStepInv ==
  ASSUME TransportInv, NEW a \in Clients, ClientStep(a)
  PROVE  TransportInv'
<1> DEFINE more == From(a, sent')
           S    == [from : Clients, datagram : ToServerTypes]
<1>1. /\ ClientStepOK(a) /\ sent' \in Seq(ToServerTypes)
      /\ toServer' = toServer \o more /\ toServer \in Seq(S)
  BY ClientStepKeeps DEF ClientStepOK, ClientSends, TransportInv, NetworkOK
<1>2. /\ more \in Seq(S)
      /\ \A p \in Held(more) : p.from = a /\ p.datagram \in Held(sent')
  BY <1>1, HeldFrom
<1> HIDE DEF more, S
<1>3. toServer' \in Seq(S) /\ Held(toServer') = Held(toServer) \cup Held(more)
  BY <1>1, <1>2, HeldConcat
<1>4. \A p \in Held(toServer') : FromClient(p.from, p.datagram)'
  <2>1. ASSUME NEW p \in Held(toServer) PROVE FromClient(p.from, p.datagram)'
    <3>1. p \in S
      BY <1>1, HeldTypes
    <3>2. p.from \in Clients /\ FromClient(p.from, p.datagram)
      BY <3>1 DEF TransportInv, NetworkOK, S
    <3> QED
      BY <3>2, ClientStepFrame, FromClientGrows
  <2>2. ASSUME NEW p \in Held(more) PROVE FromClient(p.from, p.datagram)'
    BY <1>1, <1>2, <2>2 DEF ClientStepOK
  <2> QED
    BY <1>3, <2>1, <2>2
<1>5. NetworkOK'
  BY <1>3, <1>4, ClientStepFrame DEF NetworkOK, TransportInv, S
<1>6. ServerInv' /\ ScenarioOK'
  BY ClientStepFrame, ServerAtRest DEF TransportInv, ScenarioOK
<1> QED
  BY <1>1, <1>5, <1>6 DEF TransportInv, ClientStepOK

-----------------------------------------------------------------------------
(* The id the answers to a datagram carry: a new one for INIT_REQUEST. *)
TurnId(m) == IF m.type = "INIT_REQUEST" THEN nextId ELSE m.id

(* The segments of an answer go to the id that asked. *)
LEMMA ReplySegmentsHeld ==
  ASSUME NEW c, NEW reply \in Responses \cup {NoReply},
         NEW d \in Held(ReplySegments(c, reply))
  PROVE  d.type = "DATA" /\ d.id = c
<1>1. CASE reply = NoReply
  BY <1>1 DEF ReplySegments, Held
<1>2. CASE reply # NoReply /\ reply = <<>>
  BY <1>2 DEF ReplySegments, Held, Data
<1>3. CASE reply # NoReply /\ reply # <<>>
  <2>1. ReplySegments(c, reply)
          = [i \in 1..Len(reply) |-> Data(c, i - 1, Len(reply), TRUE, reply[i])]
    BY <1>3 DEF ReplySegments, SegmentsOf
  <2>2. PICK i \in 1..Len(reply) : d = Data(c, i - 1, Len(reply), TRUE, reply[i])
    BY <2>1 DEF Held
  <2> QED
    BY <2>2 DEF Data
<1> QED
  BY <1>1, <1>2, <1>3

(* A turn answers to the id it was addressed with, and sends segments of an answer
   only if it has handed a message to the application. *)
LEMMA TurnSays ==
  ASSUME ServerInv, NEW m \in Incoming, NEW lap \in Laps,
         NEW reply \in Responses \cup {NoReply}, HandleClientMessage(m, lap, reply)
  PROVE  \A d \in Held(sent') :
           /\ d.id = TurnId(m)
           /\ \/ d.type \in {"ACK", "NACK", "HS", "HS_COMPLETE"}
              \/ d.type = "DATA" /\ dispatched' # <<>> /\ d \in Held(ReplySegments(m.id, reply))
<1> DEFINE Short(d) == /\ d.id = TurnId(m)
                       /\ d.type \in {"ACK", "NACK", "HS", "HS_COMPLETE"}
<1>1. \A c, k : /\ Ack(c, k).type = "ACK" /\ Ack(c, k).id = c
                /\ Nack(c, k).type = "NACK" /\ Nack(c, k).id = c
                /\ Handshake(c).type = "HS" /\ Handshake(c).id = c
                /\ HandshakeComplete(c).type = "HS_COMPLETE" /\ HandshakeComplete(c).id = c
  BY DEF Ack, Nack, Handshake, HandshakeComplete
<1>2. ASSUME NEW d, sent' = <<d>>, Short(d)
      PROVE  \A x \in Held(sent') : Short(x)
  BY <1>2 DEF Held
<1>3. CASE HandleInitRequest(m, lap)
  <2>1. Short(Handshake(nextId)) /\ sent' = <<Handshake(nextId)>>
    BY <1>1, <1>3 DEF HandleInitRequest, Says, TurnId
  <2> QED
    BY <1>2, <2>1
<1>4. CASE HandleHandshakeMessage(m, lap)
  <2>1. Short(Handshake(m.id)) /\ Short(HandshakeComplete(m.id))
    BY <1>1, <1>4 DEF HandleHandshakeMessage, CompleteKnown, StartUnknown, TurnId
  <2>2. sent' = <<Handshake(m.id)>> \/ sent' = <<HandshakeComplete(m.id)>>
    BY <1>4 DEF HandleHandshakeMessage, CompleteKnown, StartUnknown, Says
  <2> HIDE DEF Short
  <2>3. \A x \in Held(sent') : Short(x)
    BY <1>2, <2>1, <2>2
  <2> QED
    BY <2>3 DEF Short
<1>5. CASE HandleDataMessage(m, lap, reply)
  <2> DEFINE ack      == Ack(m.id, m.seq)
             segments == ReplySegments(m.id, reply)
             answered == /\ sent' = <<ack>> \o segments
                         /\ dispatched' # <<>>
  <2>1. /\ Short(ack) /\ Short(Nack(m.id, m.seq)) /\ Short(Handshake(m.id))
        /\ TurnId(m) = m.id
    BY <1>1, <1>5 DEF HandleDataMessage, TurnId
  <2>2. answered \/ sent' = <<ack>> \/ sent' = <<Nack(m.id, m.seq)>> \/ sent' = <<Handshake(m.id)>>
    <3>1. CASE AskHandshake(m, lap) \/ RefuseSegment(m, lap)
      BY <3>1 DEF AskHandshake, RefuseSegment, Says
    <3>2. CASE AcceptSegment(m, lap, reply)
      <4>1. CASE m.id \in DOMAIN clients
        <5> DEFINE tracked == TrackSegment(clients, m, now + lap["clients"])
                   out     == [id |-> m.id, message |-> AssembledMessage(tracked[m.id])]
        <5>1. StoreSegment(m, lap, reply)
          BY <3>2, <4>1 DEF AcceptSegment
        <5>2. CASE AllSegments(tracked[m.id])
          <6>1. Says(<<ack>> \o segments, <<out>>)
            BY <5>1, <5>2 DEF StoreSegment
          <6> HIDE DEF out, segments, ack
          <6>2. answered
            BY <6>1 DEF Says
          <6> QED
            BY <6>2
        <5>3. CASE ~ AllSegments(tracked[m.id])
          BY <5>1, <5>3 DEF StoreSegment, Says
        <5> QED
          BY <5>2, <5>3
      <4>2. CASE m.id \notin DOMAIN clients
        BY <3>2, <4>2 DEF AcceptSegment, Says
      <4> QED
        BY <4>1, <4>2
    <3> QED
      BY <1>5, <3>1, <3>2 DEF HandleDataMessage
  <2>3. CASE answered
    <3>1. segments \in Seq(Datagram(ClientIds, ServerPayloads))
          /\ ack \in Datagram(ClientIds, ServerPayloads)
      BY <1>5, IncomingTypes, ReplySegmentsType, DatagramTypes DEF HandleDataMessage, ServerPayloads
    <3>2. \A d \in Held(segments) : d.type = "DATA" /\ d.id = m.id
      BY ReplySegmentsHeld
    <3> DEFINE first == <<ack>>
    <3> HIDE DEF segments, ack
    <3>3. first \in Seq(Datagram(ClientIds, ServerPayloads)) /\ Held(first) = {ack}
      BY <3>1 DEF Held
    <3> HIDE DEF first
    <3>4. sent' = first \o segments /\ dispatched' # <<>>
      BY <2>3 DEF first
    <3>5. Held(sent') = Held(first) \cup Held(segments)
      BY <3>1, <3>3, <3>4, HeldConcat
    <3> QED
      BY <2>1, <3>2, <3>3, <3>4, <3>5 DEF segments
  <2>4. CASE ~ answered
    <3> HIDE DEF Short, answered
    <3>1. \A x \in Held(sent') : Short(x)
      BY <1>2, <2>1, <2>2, <2>4
    <3> QED
      BY <3>1 DEF Short
  <2> QED
    BY <2>3, <2>4
<1>6. CASE Ignore(m, lap)
  BY <1>6 DEF Ignore, Says, Held
<1> QED
  BY <1>3, <1>4, <1>5, <1>6 DEF HandleClientMessage

(* What a turn of the server takes from the network and what it puts there. *)
TurnOf(a, m, lap, reply) ==
  /\ toServer # <<>> /\ Head(toServer) = [from |-> a, datagram |-> m]
  /\ HandleClientMessage(m, lap, reply)
  /\ reply = IF dispatched' = <<>> THEN NoReply ELSE AnswerTo(dispatched'[1].message)
  /\ toServer' = Tail(toServer)
  /\ toClient' = [toClient EXCEPT ![a] = @ \o sent']
  /\ executed' = IF dispatched' = <<>> THEN executed
                 ELSE Put(executed, dispatched'[1].message, Count(dispatched'[1].message) + 1)
  /\ UNCHANGED <<clientVars, calls, faults, scenario>>

LEMMA TurnTaken ==
  ASSUME TransportInv, ServerTurn
  PROVE  \E a \in Clients, m \in Incoming, lap \in Laps, reply \in Responses \cup {NoReply} :
           FromClient(a, m) /\ TurnOf(a, m, lap, reply)
<1> DEFINE S == [from : Clients, datagram : ToServerTypes]
           a == Head(toServer).from
           m == Head(toServer).datagram
<1>1. PICK lap \in Laps, reply \in Replies :
        /\ HandleClientMessage(m, lap, reply)
        /\ reply = IF dispatched' = <<>> THEN NoReply ELSE AnswerTo(dispatched'[1].message)
  BY DEF ServerTurn
<1>2. Head(toServer) \in S /\ Head(toServer) \in Held(toServer) /\ toServer # <<>>
  BY HeldTail DEF TransportInv, NetworkOK, ServerTurn
<1>3. a \in Clients /\ Head(toServer) = [from |-> a, datagram |-> m] /\ FromClient(a, m)
  BY <1>2 DEF TransportInv, NetworkOK
<1>4. m \in Incoming
  <2>1. calls[a] \in 0..MaxCalls
    BY <1>3 DEF TransportInv, ProcessesOK, ProcessTypes
  <2> HIDE DEF a, m
  <2> QED
    BY <1>3, <2>1, FromClientTypes DEF TransportInv
<1>5. reply \in Responses \cup {NoReply}
  BY AnswerTypes DEF TransportInv
<1>6. TurnOf(a, m, lap, reply)
  BY <1>1, <1>2, <1>3 DEF ServerTurn, TurnOf
<1> QED
  BY <1>3, <1>4, <1>5, <1>6

(* A turn takes one datagram of client a and sends what it says to a. *)
LEMMA TurnNetwork ==
  ASSUME TransportInv, NEW a \in Clients, NEW m \in Incoming, NEW lap \in Laps,
         NEW reply \in Responses \cup {NoReply}, TurnOf(a, m, lap, reply)
  PROVE  /\ toServer' \in Seq([from : Clients, datagram : ToServerTypes])
         /\ Held(toServer') \subseteq Held(toServer)
         /\ [from |-> a, datagram |-> m] \in Held(toServer)
         /\ sent' \in Seq(ToClientTypes)
         /\ toClient' \in [Clients -> Seq(ToClientTypes)]
         /\ Held(toClient'[a]) = Held(toClient[a]) \cup Held(sent')
         /\ \A b \in Clients \ {a} : toClient'[b] = toClient[b]
<1> DEFINE S == [from : Clients, datagram : ToServerTypes]
<1>1. /\ toServer' \in Seq(S) /\ Held(toServer') \subseteq Held(toServer)
      /\ [from |-> a, datagram |-> m] \in Held(toServer)
  BY HeldTail DEF TransportInv, NetworkOK, TurnOf
<1>2. sent' \in Seq(ToClientTypes)
  BY TurnOutput DEF OutputOK, TurnOf, TransportInv, ToClientTypes
<1>3. toClient[a] \in Seq(ToClientTypes)
  BY DEF TransportInv, NetworkOK
<1> DEFINE joined == toClient[a] \o sent'
<1>4. joined \in Seq(ToClientTypes) /\ Held(joined) = Held(toClient[a]) \cup Held(sent')
  BY <1>2, <1>3, HeldConcat
<1>5. toClient' = [toClient EXCEPT ![a] = joined]
  BY DEF TurnOf
<1> HIDE DEF joined, S
<1>6. toClient' \in [Clients -> Seq(ToClientTypes)] /\ toClient'[a] = joined
      /\ \A b \in Clients \ {a} : toClient'[b] = toClient[b]
  BY <1>4, <1>5 DEF TransportInv, NetworkOK
<1> QED
  BY <1>1, <1>2, <1>4, <1>6 DEF S

(* Where clients do nothing, what is said of them stays. *)
LEMMA ClientsAtRest ==
  ASSUME ProcessesOK, UNCHANGED <<clientVars, calls, scenario>>
  PROVE  ProcessesOK' /\ \A a, d : FromClient(a, d) => FromClient(a, d)'
  BY DEF ProcessesOK, ProcessTypes, ClientOK, clientVars, Message, RequestOf, Chunk,
         FromClient, IsSegmentOf

LEMMA ServerTurnInv ==
  ASSUME TransportInv, ServerTurn
  PROVE  TransportInv'
<1>1. PICK a \in Clients, m \in Incoming, lap \in Laps, reply \in Responses \cup {NoReply} :
        FromClient(a, m) /\ TurnOf(a, m, lap, reply)
  BY TurnTaken
<1>2. ServerInv'
  BY <1>1, TurnKeeps DEF TransportInv, TurnOf
<1>3. ProcessesOK' /\ ScenarioOK' /\ \A b, d : FromClient(b, d) => FromClient(b, d)'
  BY <1>1, ClientsAtRest DEF TransportInv, TurnOf, ScenarioOK
<1>4. \A p \in Held(toServer') : FromClient(p.from, p.datagram)'
  BY <1>1, <1>3, TurnNetwork DEF TransportInv, NetworkOK
<1>5. \A b \in Clients : \A d \in Held(toClient'[b]) : d.type # "INIT_REQUEST"
  <2>1. \A d \in Held(sent') : d.type # "INIT_REQUEST"
    BY <1>1, TurnSays DEF TurnOf, TransportInv
  <2> QED
    BY <1>1, <2>1, TurnNetwork DEF TransportInv, NetworkOK
<1>6. NetworkOK'
  BY <1>1, <1>4, <1>5, TurnNetwork DEF NetworkOK
<1> QED
  BY <1>2, <1>3, <1>6 DEF TransportInv

-----------------------------------------------------------------------------
(* A fault uses up its budget. *)
LEMMA FaultCounted ==
  ASSUME ScenarioOK, NEW kind \in FaultKinds, Fault(kind)
  PROVE  ScenarioOK' /\ \A k \in FaultKinds : faults'[k] <= faults[k]
<1>1. /\ faults' = [faults EXCEPT ![kind] = @ - 1] /\ faults[kind] > 0
      /\ scenario' = scenario
  BY DEF Fault
<1>2. faults \in [FaultKinds -> Nat] /\ scenario.budget \in [FaultKinds -> Nat]
  BY ScenarioTypes DEF ScenarioOK
<1>3. faults' \in [FaultKinds -> Nat] /\ \A k \in FaultKinds : faults'[k] <= faults[k]
  BY <1>1, <1>2
<1> QED
  BY <1>1, <1>2, <1>3 DEF ScenarioOK

(* Loss, delay and repetition change the order and the number of datagrams only. *)
Rearranged ==
  /\ toServer' \in Seq([from : Clients, datagram : ToServerTypes])
  /\ Held(toServer') \subseteq Held(toServer)
  /\ toClient' \in [Clients -> Seq(ToClientTypes)]
  /\ \A a \in Clients : Held(toClient'[a]) \subseteq Held(toClient[a])

LEMMA DisturbRearranges ==
  ASSUME TransportInv, Lose \/ Delay \/ Repeat
  PROVE  Rearranged /\ \E kind \in FaultKinds : NetworkFault(kind)
<1>1. \E kind \in FaultKinds : NetworkFault(kind)
  BY DEF Lose, Delay, Repeat, Disturb, FaultKinds
<1>2. CASE /\ UNCHANGED toClient
           /\ \E i \in DOMAIN toServer :
                toServer' \in {Without(toServer, i), Behind(toServer, i), Repeated(toServer, i)}
  BY <1>1, <1>2, HeldEffects DEF TransportInv, NetworkOK, Rearranged
<1>3. CASE /\ UNCHANGED toServer
           /\ \E a \in Clients : \E i \in DOMAIN toClient[a] :
                \E queue \in {Without(toClient[a], i), Behind(toClient[a], i),
                              Repeated(toClient[a], i)} :
                  toClient' = [toClient EXCEPT ![a] = queue]
  <2>1. PICK a \in Clients : \E i \in DOMAIN toClient[a] :
               \E queue \in {Without(toClient[a], i), Behind(toClient[a], i),
                             Repeated(toClient[a], i)} :
                 toClient' = [toClient EXCEPT ![a] = queue]
    BY <1>3
  <2>2. PICK i \in DOMAIN toClient[a] :
               \E queue \in {Without(toClient[a], i), Behind(toClient[a], i),
                             Repeated(toClient[a], i)} :
                 toClient' = [toClient EXCEPT ![a] = queue]
    BY <2>1
  <2>3. PICK queue \in {Without(toClient[a], i), Behind(toClient[a], i),
                        Repeated(toClient[a], i)} :
               toClient' = [toClient EXCEPT ![a] = queue]
    BY <2>2
  <2>4. toClient[a] \in Seq(ToClientTypes)
    BY DEF TransportInv, NetworkOK
  <2>5. queue \in Seq(ToClientTypes) /\ Held(queue) \subseteq Held(toClient[a])
    BY <2>4, HeldEffects
  <2> QED
    BY <1>1, <1>3, <2>3, <2>5 DEF TransportInv, NetworkOK, Rearranged
<1>4. CASE Lose
  BY <1>2, <1>3, <1>4 DEF Lose, Disturb
<1>5. CASE Delay
  BY <1>2, <1>3, <1>5 DEF Delay, Disturb
<1>6. CASE Repeat
  BY <1>2, <1>3, <1>6 DEF Repeat, Disturb
<1> QED
  BY <1>4, <1>5, <1>6

LEMMA DisturbInv ==
  ASSUME TransportInv, Lose \/ Delay \/ Repeat
  PROVE  TransportInv'
<1>1. Rearranged /\ \E kind \in FaultKinds : NetworkFault(kind)
  BY DisturbRearranges
<1>2. PICK kind \in FaultKinds : NetworkFault(kind)
  BY <1>1
<1>3. ScenarioOK' /\ ServerInv'
  BY <1>2, FaultCounted, ServerAtRest DEF TransportInv, NetworkFault
<1>4. ProcessesOK' /\ \A b, d : FromClient(b, d) => FromClient(b, d)'
  BY <1>2, ClientsAtRest DEF TransportInv, NetworkFault, Fault
<1>5. NetworkOK'
  BY <1>1, <1>4 DEF TransportInv, NetworkOK, Rearranged
<1> QED
  BY <1>3, <1>4, <1>5 DEF TransportInv

(* A DATA datagram whose bytes the network changed. *)
Spoilt(d) == [d EXCEPT !.intact = FALSE]

LEMMA SpoiltTypes ==
  ASSUME NEW P, NEW d \in Datagram(ClientIds, P), d.type = "DATA"
  PROVE  /\ Spoilt(d) \in Datagram(ClientIds, P)
         /\ Spoilt(d) = Data(d.id, d.seq, d.tot, FALSE, d.payload)
         /\ Spoilt(d).type = "DATA" /\ Spoilt(d).id = d.id /\ Spoilt(d).seq = d.seq
         /\ Spoilt(d).tot = d.tot /\ Spoilt(d).payload = d.payload
         /\ Spoilt(d).intact = FALSE
<1> DEFINE D == [type : {"DATA"}, id : ClientIds, seq : Nat, tot : Nat,
                 intact : BOOLEAN, payload : P]
<1>1. d \in D
  BY DEF Datagram
<1>2. PICK c, seq, tot, b, payload : d = Data(c, seq, tot, b, payload)
  BY <1>1 DEF Data
<1>3. Spoilt(d) = Data(d.id, d.seq, d.tot, FALSE, d.payload)
  <2>1. \A x : [d EXCEPT !.intact = x] = Data(c, seq, tot, x, payload)
    BY <1>2 DEF Data
  <2>2. d.id = c /\ d.seq = seq /\ d.tot = tot /\ d.payload = payload
    BY <1>2 DEF Data
  <2> QED
    BY <2>1, <2>2 DEF Spoilt
<1>4. Spoilt(d) \in D
  BY <1>1, <1>3 DEF Data
<1>5. /\ Spoilt(d).type = "DATA" /\ Spoilt(d).id = d.id /\ Spoilt(d).seq = d.seq
      /\ Spoilt(d).tot = d.tot /\ Spoilt(d).payload = d.payload
      /\ Spoilt(d).intact = FALSE
  BY <1>3 DEF Data
<1>6. Spoilt(d) \in Datagram(ClientIds, P)
  BY <1>4 DEF Datagram
<1> QED
  BY <1>3, <1>5, <1>6

LEMMA SpoiltSegment ==
  ASSUME NEW a \in Clients, NEW d \in ToServerTypes, d.type = "DATA", FromClient(a, d)
  PROVE  IsSegmentOf(a, d) /\ IsSegmentOf(a, Spoilt(d))
<1>1. IsSegmentOf(a, d)
  BY DEF FromClient, InitRequest, Handshake
<1>2. /\ Spoilt(d) = Data(d.id, d.seq, d.tot, FALSE, d.payload)
      /\ Spoilt(d).id = d.id /\ Spoilt(d).seq = d.seq
      /\ Spoilt(d).payload = d.payload /\ Spoilt(d).intact = FALSE
  BY SpoiltTypes DEF ToServerTypes
<1>3. d.tot = scenario.request /\ d.payload = Chunk(a, d.payload.call, d.seq + 1)
  BY <1>1 DEF IsSegmentOf, Data
<1> QED
  BY <1>1, <1>2, <1>3 DEF IsSegmentOf

(* What a damaged queue holds is what it held, or one of it spoilt. *)
LEMMA DamageToServerHeld ==
  ASSUME TransportInv, DamageToServer
  PROVE  /\ toServer' \in Seq([from : Clients, datagram : ToServerTypes])
         /\ \A p \in Held(toServer') :
              \/ p \in Held(toServer)
              \/ \E q \in Held(toServer) :
                   /\ q.datagram.type = "DATA" /\ p.from = q.from
                   /\ p.datagram = Spoilt(q.datagram)
<1> DEFINE S == [from : Clients, datagram : ToServerTypes]
<1>1. PICK i \in DOMAIN toServer :
        /\ toServer[i].datagram.type = "DATA"
        /\ toServer' = [toServer EXCEPT ![i].datagram.intact = FALSE]
  BY DEF DamageToServer
<1>2. toServer \in Seq(S) /\ toServer[i] \in S
  <2>1. toServer \in Seq(S)
    BY DEF TransportInv, NetworkOK
  <2> HIDE DEF S
  <2> QED
    BY <2>1
<1> DEFINE q == toServer[i]
           p == [from |-> q.from, datagram |-> Spoilt(q.datagram)]
<1>3. q.datagram \in ToServerTypes /\ q.from \in Clients
      /\ q = [from |-> q.from, datagram |-> q.datagram]
  BY <1>2
<1>4. p \in S
  BY <1>1, <1>3, SpoiltTypes DEF ToServerTypes
<1>5. toServer' = [toServer EXCEPT ![i] = p]
  <2>1. [toServer[i] EXCEPT !.datagram.intact = FALSE] = p
    <3>1. ASSUME NEW f, NEW d
          PROVE  [[from |-> f, datagram |-> d] EXCEPT !.datagram.intact = FALSE]
                   = [from |-> f, datagram |-> Spoilt(d)]
      <4> DEFINE r == [from |-> f, datagram |-> d]
      <4>1. [r EXCEPT !.datagram.intact = FALSE] = [r EXCEPT !.datagram = Spoilt(r.datagram)]
        BY DEF Spoilt
      <4>2. r.datagram = d /\ \A e : [r EXCEPT !.datagram = e] = [from |-> f, datagram |-> e]
        OBVIOUS
      <4> QED
        BY <4>1, <4>2
    <3>2. [[from |-> q.from, datagram |-> q.datagram] EXCEPT !.datagram.intact = FALSE] = p
      BY <3>1
    <3> QED
      BY <1>3, <3>2
  <2>2. [toServer EXCEPT ![i].datagram.intact = FALSE]
          = [toServer EXCEPT ![i] = [toServer[i] EXCEPT !.datagram.intact = FALSE]]
    OBVIOUS
  <2> QED
    BY <1>1, <2>1, <2>2
<1>6. p.from = q.from /\ p.datagram = Spoilt(q.datagram) /\ q \in Held(toServer)
  BY DEF Held
<1> HIDE DEF p, S
<1>7. toServer' \in Seq(S)
  BY <1>2, <1>4, <1>5
<1>8. ASSUME NEW x \in Held(toServer') PROVE x = p \/ x \in Held(toServer)
  BY <1>2, <1>5 DEF Held
<1> QED
  BY <1>1, <1>6, <1>7, <1>8 DEF S

LEMMA DamageToClientHeld ==
  ASSUME TransportInv, DamageToClient
  PROVE  \E a \in Clients : \E q \in Held(toClient[a]) :
           /\ q.type = "DATA" /\ q \in ToClientTypes
           /\ toClient' \in [Clients -> Seq(ToClientTypes)]
           /\ \A d \in Held(toClient'[a]) : d \in Held(toClient[a]) \/ d = Spoilt(q)
           /\ \A b \in Clients \ {a} : toClient'[b] = toClient[b]
<1>1. PICK a \in Clients : \E i \in DOMAIN toClient[a] :
        /\ toClient[a][i].type = "DATA"
        /\ toClient' = [toClient EXCEPT ![a][i].intact = FALSE]
  BY DEF DamageToClient
<1>2. PICK i \in DOMAIN toClient[a] :
        /\ toClient[a][i].type = "DATA"
        /\ toClient' = [toClient EXCEPT ![a][i].intact = FALSE]
  BY <1>1
<1>3. toClient[a] \in Seq(ToClientTypes) /\ toClient[a][i] \in ToClientTypes
      /\ toClient[a][i] \in Held(toClient[a])
  BY DEF TransportInv, NetworkOK, Held
<1> DEFINE p == Spoilt(toClient[a][i])
           queue == [toClient[a] EXCEPT ![i] = p]
<1>4. p \in ToClientTypes
  BY <1>2, <1>3, SpoiltTypes DEF ToClientTypes
<1>5. toClient' = [toClient EXCEPT ![a] = queue]
  BY <1>2 DEF Spoilt
<1> HIDE DEF p
<1>6. queue \in Seq(ToClientTypes) /\ \A d \in Held(queue) : d \in Held(toClient[a]) \/ d = p
  BY <1>3, <1>4 DEF Held
<1> HIDE DEF queue
<1>7. /\ toClient' \in [Clients -> Seq(ToClientTypes)] /\ toClient'[a] = queue
      /\ \A b \in Clients \ {a} : toClient'[b] = toClient[b]
  BY <1>5, <1>6 DEF TransportInv, NetworkOK
<1> QED
  BY <1>2, <1>3, <1>6, <1>7 DEF p

LEMMA DamageInv ==
  ASSUME TransportInv, DamageToServer \/ DamageToClient
  PROVE  TransportInv'
<1>1. NetworkFault("damage") /\ "damage" \in FaultKinds
  BY DEF DamageToServer, DamageToClient, FaultKinds
<1>2. ScenarioOK' /\ ServerInv'
  BY <1>1, FaultCounted, ServerAtRest DEF TransportInv, NetworkFault
<1>3. ProcessesOK' /\ \A b, d : FromClient(b, d) => FromClient(b, d)'
  BY <1>1, ClientsAtRest DEF TransportInv, NetworkFault, Fault
<1>4. CASE DamageToServer
  <2>1. ASSUME NEW p \in Held(toServer') PROVE FromClient(p.from, p.datagram)'
    <3>1. CASE p \in Held(toServer)
      BY <1>3, <3>1 DEF TransportInv, NetworkOK
    <3>2. CASE p \notin Held(toServer)
      <4>1. PICK q \in Held(toServer) : /\ q.datagram.type = "DATA" /\ p.from = q.from
                                        /\ p.datagram = Spoilt(q.datagram)
        BY <1>4, <3>2, DamageToServerHeld
      <4>2. /\ q.from \in Clients /\ q.datagram \in ToServerTypes
            /\ FromClient(q.from, q.datagram)
        BY HeldTypes, ZenonT(60) DEF TransportInv, NetworkOK
      <4>3. FromClient(q.from, Spoilt(q.datagram))
        BY <4>1, <4>2, SpoiltSegment DEF FromClient
      <4> QED
        BY <1>3, <4>1, <4>3
    <3> QED
      BY <3>1, <3>2
  <2>2. toServer' \in Seq([from : Clients, datagram : ToServerTypes]) /\ UNCHANGED toClient
    BY <1>4, DamageToServerHeld DEF DamageToServer
  <2>3. NetworkOK'
    BY <2>1, <2>2 DEF TransportInv, NetworkOK
  <2> QED
    BY <1>2, <1>3, <2>3 DEF TransportInv
<1>5. CASE DamageToClient
  <2>1. PICK a \in Clients : \E q \in Held(toClient[a]) :
           /\ q.type = "DATA" /\ q \in ToClientTypes
           /\ toClient' \in [Clients -> Seq(ToClientTypes)]
           /\ \A d \in Held(toClient'[a]) : d \in Held(toClient[a]) \/ d = Spoilt(q)
           /\ \A b \in Clients \ {a} : toClient'[b] = toClient[b]
    BY <1>5, DamageToClientHeld
  <2>2. PICK q \in Held(toClient[a]) :
           /\ q.type = "DATA" /\ q \in ToClientTypes
           /\ toClient' \in [Clients -> Seq(ToClientTypes)]
           /\ \A d \in Held(toClient'[a]) : d \in Held(toClient[a]) \/ d = Spoilt(q)
           /\ \A b \in Clients \ {a} : toClient'[b] = toClient[b]
    BY <2>1
  <2>3. Spoilt(q).type = "DATA"
    BY <2>2, SpoiltTypes DEF ToClientTypes
  <2>4. UNCHANGED toServer
    BY <1>5 DEF DamageToClient
  <2>5. \A b \in Clients : \A d \in Held(toClient'[b]) : d.type # "INIT_REQUEST"
    BY <2>2, <2>3 DEF TransportInv, NetworkOK
  <2>6. NetworkOK'
    BY <1>3, <2>2, <2>4, <2>5 DEF TransportInv, NetworkOK
  <2> QED
    BY <1>2, <1>3, <2>6 DEF TransportInv
<1> QED
  BY <1>4, <1>5

(* The server process starts anew, or its clock goes on. *)
LEMMA ServerFaultInv ==
  ASSUME TransportInv, RestartServer \/ TimePasses
  PROVE  TransportInv'
<1>1. PICK kind \in FaultKinds : Fault(kind)
  BY DEF RestartServer, TimePasses, FaultKinds
<1>2. ServerInv'
  BY NextServerInv DEF TransportInv, RestartServer, TimePasses, ServerNext
<1>3. ScenarioOK'
  BY <1>1, FaultCounted DEF TransportInv
<1>4. ProcessesOK' /\ \A b, d : FromClient(b, d) => FromClient(b, d)'
  BY <1>1, ClientsAtRest DEF TransportInv, Fault
<1>5. UNCHANGED <<toServer, toClient>>
  BY DEF RestartServer, TimePasses, network
<1>6. NetworkOK'
  BY <1>4, <1>5 DEF TransportInv, NetworkOK
<1> QED
  BY <1>2, <1>3, <1>4, <1>6 DEF TransportInv

-----------------------------------------------------------------------------
LEMMA InitTransportInv == TransportInit => TransportInv
<1> SUFFICES ASSUME TransportInit PROVE TransportInv
  OBVIOUS
<1>1. ServerInv
  BY InitServerInv DEF TransportInit
<1>2. ScenarioOK
  <2>1. scenario \in Scenarios /\ faults = scenario.budget
    BY DEF TransportInit
  <2>2. scenario.budget \in [FaultKinds -> Nat]
    BY <2>1, TransportAssumption DEF Scenario
  <2>3. \A k \in FaultKinds : faults[k] <= scenario.budget[k]
    BY <2>1, <2>2
  <2> QED
    BY <2>1, <2>2, <2>3 DEF ScenarioOK
<1>3. ProcessesOK
  <2>1. ProcessTypes
    BY <1>2, ScenarioTypes, ResendAssumption, TransportAssumption
       DEF TransportInit, ClientInit, ProcessTypes, Places
  <2>2. \A a \in Clients : ClientOK(a)
    BY DEF TransportInit, ClientInit, ClientOK, Named, InCall
  <2> QED
    BY <2>1, <2>2 DEF ProcessesOK
<1>4. NetworkOK
  BY DEF TransportInit, NetworkOK, Held
<1> QED
  BY <1>1, <1>2, <1>3, <1>4 DEF TransportInv

(* Every step of clients, server and network, a stuttering one included. *)
LEMMA TransportSteps ==
  ASSUME [TransportNext]_vars
  PROVE  \/ ServerTurn
         \/ \E a \in Clients : ClientStep(a)
         \/ Lose \/ Delay \/ Repeat
         \/ DamageToServer \/ DamageToClient
         \/ RestartServer \/ TimePasses
         \/ UNCHANGED vars
  BY DEF TransportNext, ClientStep, Rest

LEMMA NextTransportInv ==
  ASSUME TransportInv, [TransportNext]_vars
  PROVE  TransportInv'
<1>1. CASE UNCHANGED vars
  <2>1. ServerInv' /\ ScenarioOK'
    BY <1>1, ServerAtRest DEF vars, serverVars, managers, TransportInv, ScenarioOK
  <2>2. ProcessesOK' /\ \A b, d : FromClient(b, d) => FromClient(b, d)'
    BY <1>1, ClientsAtRest DEF TransportInv, vars
  <2>3. NetworkOK'
    BY <1>1, <2>2 DEF TransportInv, NetworkOK, vars, network
  <2> QED
    BY <2>1, <2>2, <2>3 DEF TransportInv
<1> QED
  BY <1>1, TransportSteps, ServerTurnInv, ClientStepInv, DisturbInv, DamageInv, ServerFaultInv

THEOREM TransportInvariant == TransportSpec => []TransportInv
<1>1. TransportInv /\ [TransportNext]_vars => TransportInv'
  BY NextTransportInv
<1> QED
  BY <1>1, InitTransportInv, PTL DEF TransportSpec

(* Whatever the network does and however often the server is started anew: every
   variable of clients, network and fault budget keeps its type, and a client that
   is in a call has exactly the segments of its present message to send. *)
THEOREM TransportTypeCorrect == TransportSpec => []TransportTypeOK
<1>1. TransportInv => TransportTypeOK
  <2> SUFFICES ASSUME TransportInv PROVE TransportTypeOK
    OBVIOUS
  <2>1. ASSUME NEW a \in Clients PROVE Len(outgoing[a]) \in {0, scenario.request}
    <3>1. CASE pc[a] \in InCall
      BY <3>1, OutgoingSegments DEF TransportInv
    <3>2. CASE pc[a] \notin InCall
      BY <3>2 DEF TransportInv, ProcessesOK, ClientOK
    <3> QED
      BY <3>1, <3>2
  <2>2. \A i \in DOMAIN toServer : toServer[i].from \in Clients
    <3> DEFINE S == [from : Clients, datagram : ToServerTypes]
    <3>1. toServer \in Seq(S) /\ \A p \in S : p.from \in Clients
      BY DEF TransportInv, NetworkOK
    <3> HIDE DEF S
    <3> QED
      BY <3>1
  <2> QED
    BY <2>1, <2>2 DEF TransportTypeOK, TransportInv, ProcessesOK, ProcessTypes, ScenarioOK
<1> QED
  BY <1>1, TransportInvariant, PTL

(* The clients of this program never stop the server, also when datagrams are lost,
   damaged, late or repeated, and after a restart: handleDataMessage never meets a
   complete handshake of a client that is not registered. *)
THEOREM TransportServerUp == TransportSpec => []ServerStaysUp
<1>1. TransportInv => ServerStaysUp
  BY DEF TransportInv, ServerInv, ServerStaysUp, ManagersOK, SessionsLinked
<1> QED
  BY <1>1, TransportInvariant, PTL

-----------------------------------------------------------------------------
(* The ids a client has at hand: its own and those of the segments it may repeat. *)
AtHand(a, c) ==
  \/ pc[a] \in Named /\ clientId[a] = c
  \/ \E d \in Held(outgoing[a]) : d.id = c

(* A client takes ids only from the datagrams it is sent, and sends under no other. *)
TakesIds(a) ==
  /\ \A c \in ClientIds : AtHand(a, c)' =>
       AtHand(a, c) \/ \E d \in Held(toClient[a]) : d.id = c
  /\ \A d \in Held(sent') : d = InitRequest \/ AtHand(a, d.id)

LEMMA CallTakesIds ==
  ASSUME TransportInv, NEW a \in Clients, Call(a)
  PROVE  TakesIds(a)
<1> DEFINE msg == Message(a, calls[a] + 1)
           c   == clientId[a]
<1>1. /\ pc[a] = "idle" /\ outgoing'[a] = SegmentsOf(c, msg)
      /\ pc'[a] = "awaitAck" /\ clientId'[a] = c /\ sent' = <<SegmentsOf(c, msg)[1]>>
  BY DEF TransportInv, ProcessesOK, ProcessTypes, Call, SendMessage, Goto, Emit
<1>2. Len(msg) = scenario.request /\ scenario.request \in Nat \ {0}
  BY RequestTypes, ScenarioTypes, TransportAssumption
     DEF TransportInv, ProcessesOK, ProcessTypes, Call
<1> HIDE DEF msg
<1>3. \A d \in Held(SegmentsOf(c, msg)) : d.id = c
  BY DEF Held, SegmentsOf, Data
<1>4. SegmentsOf(c, msg)[1] \in Held(SegmentsOf(c, msg))
  <2>1. 1 \in DOMAIN SegmentsOf(c, msg)
    BY <1>2 DEF SegmentsOf
  <2> QED
    BY <2>1 DEF Held
<1>5. \A d \in Held(sent') : d.id = c
  BY <1>1, <1>3, <1>4 DEF Held
<1>6. AtHand(a, c)
  BY <1>1 DEF AtHand, Named
<1>7. ASSUME NEW e \in ClientIds, AtHand(a, e)' PROVE e = c
  BY <1>1, <1>3, <1>7 DEF AtHand
<1> QED
  BY <1>5, <1>6, <1>7 DEF TakesIds

LEMMA EndCallTakesIds ==
  ASSUME TransportInv, NEW a \in Clients, pc[a] \in InCall, NEW outcome, EndCall(a, outcome)
  PROVE  TakesIds(a)
  BY DEF TransportInv, ProcessesOK, ProcessTypes, EndCall, Goto, Emit, TakesIds, AtHand,
         Held, Named, InCall

LEMMA TakeTakesIds ==
  ASSUME TransportInv, NEW a \in Clients, NEW m \in Held(toClient[a]), Take(a, m)
  PROVE  TakesIds(a)
<1>1. CASE InitAnswered(a, m)
  BY <1>1 DEF TransportInv, ProcessesOK, ProcessTypes, InitAnswered, Goto, Emit, TakesIds,
              AtHand, Held, Named
<1>2. CASE HandleEpollEvents(a, m)
  <2>1. pc[a] = "awaitAck" /\ pc[a] \in InCall
    BY <1>2 DEF HandleEpollEvents, InCall
  <2>2. CASE AckReceived(a, m)
    <3>1. sent' = <<>> \/ (sent' = <<outgoing[a][acked[a] + 2]>>
                            /\ outgoing[a][acked[a] + 2] \in Held(outgoing[a]))
      BY <2>1, <2>2, CurrentSegment DEF AckReceived, Emit
    <3>2. \A d \in Held(sent') : d \in Held(outgoing[a])
      BY <3>1 DEF Held
    <3>3. UNCHANGED <<clientId, outgoing>>
      BY <2>2 DEF AckReceived
    <3> QED
      BY <2>1, <3>2, <3>3 DEF TakesIds, AtHand, Named
  <2>3. CASE NackReceived(a, m)
    BY <2>1, <2>3, EndCallTakesIds DEF NackReceived
  <2>4. CASE HandshakeReceived(a, m)
    <3> DEFINE hs == Handshake(clientId[a])
               d  == Current(a)
    <3>1. sent' = <<hs, d>> /\ hs.id = clientId[a] /\ d \in Held(outgoing[a])
      BY <2>1, <2>4, CurrentSegment DEF HandshakeReceived, Emit, Handshake
    <3> HIDE DEF hs, d
    <3>2. Held(sent') = {hs, d}
      BY <3>1 DEF Held
    <3>3. \A x \in Held(sent') : AtHand(a, x.id)
      BY <2>1, <3>1, <3>2 DEF AtHand, Named
    <3>4. UNCHANGED outgoing /\ clientId'[a] = m.id
      BY <2>4 DEF HandshakeReceived, TransportInv, ProcessesOK, ProcessTypes
    <3> QED
      BY <3>3, <3>4 DEF TakesIds, AtHand
  <2>5. CASE OtherReceived(a, m)
    BY <2>5 DEF OtherReceived, clientVars, Emit, TakesIds, AtHand, Held
  <2> QED
    BY <1>2, <2>2, <2>3, <2>4, <2>5 DEF HandleEpollEvents
<1>3. CASE ReceiveResponse(a, m)
  <2>1. pc[a] = "awaitResponse" /\ pc[a] \in InCall
    BY <1>3 DEF ReceiveResponse, InCall
  <2>2. CASE \E outcome : EndCall(a, outcome)
    BY <2>1, <2>2, EndCallTakesIds
  <2>3. CASE ~ \E outcome : EndCall(a, outcome)
    <3>1. sent' = <<>> /\ UNCHANGED <<pc, clientId, outgoing>>
      BY <1>3, <2>3 DEF ReceiveResponse, DataReceived, NoDataReceived, Emit
    <3> QED
      BY <3>1 DEF TakesIds, AtHand, Held
  <2> QED
    BY <2>2, <2>3
<1> QED
  BY <1>1, <1>2, <1>3 DEF Take

LEMMA ClientTakesIds ==
  ASSUME TransportInv, NEW a \in Clients, ClientStep(a)
  PROVE  TakesIds(a)
<1>1. CASE Construct(a)
  <2>1. sent' = <<InitRequest>> /\ pc'[a] = "awaitInit" /\ UNCHANGED outgoing
    BY <1>1 DEF TransportInv, ProcessesOK, ProcessTypes, Construct, PerformHandshake, Goto, Emit
  <2>2. Held(sent') = {InitRequest}
    BY <2>1 DEF Held
  <2> QED
    BY <2>1, <2>2 DEF TakesIds, AtHand, Named
<1>2. CASE Call(a)
  BY <1>2, CallTakesIds
<1>3. CASE Receive(a)
  BY <1>3, HeldTail, TakeTakesIds DEF Receive, TransportInv, NetworkOK
<1>4. CASE GiveUpWaiting(a)
  <2>1. Expire(a)
    BY <1>4 DEF GiveUpWaiting
  <2>2. CASE InitTimeout(a)
    BY <2>2 DEF TransportInv, ProcessesOK, ProcessTypes, InitTimeout, Goto, Emit, TakesIds,
                AtHand, Held, Named
  <2>3. CASE AckTimeout(a)
    <3>1. pc[a] = "awaitAck" /\ pc[a] \in InCall
      BY <2>3 DEF AckTimeout, InCall
    <3>2. CASE resends[a] < MaxResends
      <4>1. sent' = <<Current(a)>> /\ UNCHANGED <<pc, clientId, outgoing>>
        BY <2>3, <3>2 DEF AckTimeout, Emit
      <4>2. Held(sent') = {Current(a)}
        BY <4>1 DEF Held
      <4>3. Current(a) \in Held(outgoing[a])
        BY <3>1, CurrentSegment
      <4> QED
        BY <4>1, <4>2, <4>3 DEF TakesIds, AtHand
    <3>3. CASE ~ (resends[a] < MaxResends)
      BY <2>3, <3>1, <3>3, EndCallTakesIds DEF AckTimeout
    <3> QED
      BY <3>2, <3>3
  <2>4. CASE ResponseTimeout(a)
    BY <2>4, EndCallTakesIds DEF ResponseTimeout, InCall
  <2> QED
    BY <2>1, <2>2, <2>3, <2>4 DEF Expire
<1> QED
  BY <1>1, <1>2, <1>3, <1>4 DEF ClientStep

(* What is on its way to the server after a step of client a. *)
LEMMA ClientSendsHeld ==
  ASSUME TransportInv, NEW a \in Clients, ClientStep(a), NEW p \in Held(toServer')
  PROVE  p \in Held(toServer) \/ (p.from = a /\ p.datagram \in Held(sent'))
<1> DEFINE more == From(a, sent')
           S    == [from : Clients, datagram : ToServerTypes]
<1>1. sent' \in Seq(ToServerTypes) /\ toServer' = toServer \o more /\ toServer \in Seq(S)
  BY ClientStepKeeps DEF ClientStepOK, ClientSends, TransportInv, NetworkOK
<1>2. /\ more \in Seq(S)
      /\ \A x \in Held(more) : x.from = a /\ x.datagram \in Held(sent')
  BY <1>1, HeldFrom
<1> HIDE DEF more, S
<1>3. Held(toServer') = Held(toServer) \cup Held(more)
  BY <1>1, <1>2, HeldConcat
<1> QED
  BY <1>2, <1>3

(* The steps of clients and network. *)
NetworkStep ==
  \/ Lose \/ Delay \/ Repeat
  \/ DamageToServer \/ DamageToClient
  \/ RestartServer \/ TimePasses
  \/ UNCHANGED vars

(* Only the server brings an id to a client that the client did not use before. *)
LEMMA ClientUses ==
  ASSUME TransportInv, NEW a \in Clients, ClientStep(a), NEW b \in Clients,
         NEW c \in ClientIds, Uses(b, c)'
  PROVE  Uses(b, c)
<1>1. Uses(b, c) <=> \/ AtHand(b, c)
                     \/ \E p \in Held(toServer) :
                          p.from = b /\ p.datagram # InitRequest /\ p.datagram.id = c
                     \/ \E d \in Held(toClient[b]) : d.id = c
  BY DEF Uses, AtHand
<1>2. CASE \E d \in Held(toClient'[b]) : d.id = c
  BY <1>1, <1>2, ClientStepFrame
<1>3. CASE \E p \in Held(toServer') :
             p.from = b /\ p.datagram # InitRequest /\ p.datagram.id = c
  <2>1. PICK p \in Held(toServer') : p.from = b /\ p.datagram # InitRequest /\ p.datagram.id = c
    BY <1>3
  <2>2. CASE p \in Held(toServer)
    BY <1>1, <2>1, <2>2
  <2>3. CASE p.from = a /\ p.datagram \in Held(sent')
    BY <1>1, <2>1, <2>3, ClientTakesIds DEF TakesIds
  <2> QED
    BY <2>2, <2>3, ClientSendsHeld
<1>4. CASE AtHand(b, c)'
  <2>1. CASE b = a
    BY <1>1, <1>4, <2>1, ClientTakesIds DEF TakesIds
  <2>2. CASE b # a
    BY <1>1, <1>4, <2>2, ClientStepKeeps DEF ClientStepOK, OthersUnchanged, AtHand
  <2> QED
    BY <2>1, <2>2
<1> QED
  BY <1>2, <1>3, <1>4 DEF Uses, AtHand

LEMMA NetworkUses ==
  ASSUME TransportInv, NetworkStep, NEW b \in Clients, NEW c \in ClientIds, Uses(b, c)'
  PROVE  Uses(b, c)
<1>1. UNCHANGED <<pc, clientId, outgoing>>
  BY DEF NetworkStep, Lose, Delay, Repeat, Disturb, DamageToServer, DamageToClient,
         NetworkFault, RestartServer, TimePasses, Fault, clientVars, vars
<1>2. CASE Lose \/ Delay \/ Repeat
  BY <1>1, <1>2, DisturbRearranges DEF Uses, Rearranged
<1>3. CASE DamageToServer
  <2>1. UNCHANGED toClient
    BY <1>3 DEF DamageToServer
  <2>2. ASSUME NEW p \in Held(toServer'), p.from = b, p.datagram # InitRequest,
               p.datagram.id = c
        PROVE  Uses(b, c)
    <3>1. CASE p \in Held(toServer)
      BY <2>2, <3>1 DEF Uses
    <3>2. CASE p \notin Held(toServer)
      <4>1. PICK q \in Held(toServer) : /\ q.datagram.type = "DATA" /\ p.from = q.from
                                        /\ p.datagram = Spoilt(q.datagram)
        BY <1>3, <3>2, DamageToServerHeld
      <4>2. q.datagram \in ToServerTypes
        BY HeldTypes DEF TransportInv, NetworkOK
      <4>3. Spoilt(q.datagram).id = q.datagram.id
        BY <4>1, <4>2, SpoiltTypes DEF ToServerTypes
      <4>4. q.datagram.id = c /\ q.from = b /\ q.datagram # InitRequest
        BY <2>2, <4>1, <4>3 DEF InitRequest
      <4> QED
        BY <4>4 DEF Uses
    <3> QED
      BY <3>1, <3>2
  <2> QED
    BY <1>1, <2>1, <2>2 DEF Uses
<1>4. CASE DamageToClient
  <2>1. UNCHANGED toServer
    BY <1>4 DEF DamageToClient
  <2>2. ASSUME NEW d \in Held(toClient'[b]), d.id = c
        PROVE  \E e \in Held(toClient[b]) : e.id = c
    <3>1. PICK a \in Clients : \E q \in Held(toClient[a]) :
             /\ q.type = "DATA" /\ q \in ToClientTypes
             /\ \A x \in Held(toClient'[a]) : x \in Held(toClient[a]) \/ x = Spoilt(q)
             /\ \A e \in Clients \ {a} : toClient'[e] = toClient[e]
      BY <1>4, DamageToClientHeld
    <3>2. PICK q \in Held(toClient[a]) :
             /\ q.type = "DATA" /\ q \in ToClientTypes
             /\ \A x \in Held(toClient'[a]) : x \in Held(toClient[a]) \/ x = Spoilt(q)
             /\ \A e \in Clients \ {a} : toClient'[e] = toClient[e]
      BY <3>1
    <3>3. Spoilt(q).id = q.id
      BY <3>2, SpoiltTypes DEF ToClientTypes
    <3> QED
      BY <2>2, <3>2, <3>3
  <2> QED
    BY <1>1, <2>1, <2>2 DEF Uses
<1>5. CASE RestartServer \/ TimePasses \/ UNCHANGED vars
  <2>1. UNCHANGED <<toServer, toClient>>
    BY <1>5 DEF RestartServer, TimePasses, network, vars
  <2> QED
    BY <1>1, <2>1 DEF Uses
<1> QED
  BY <1>2, <1>3, <1>4, <1>5 DEF NetworkStep

(* handleInitRequest counts the ids up; nothing else in a turn does. *)
LEMMA TurnNextId ==
  ASSUME NEW m \in Incoming, NEW lap, NEW reply, HandleClientMessage(m, lap, reply)
  PROVE  nextId' = IF m.type = "INIT_REQUEST" THEN nextId + 1 ELSE nextId
  BY DEF HandleClientMessage, HandleInitRequest, HandleHandshakeMessage, CompleteKnown,
         StartUnknown, HandleDataMessage, AskHandshake, RefuseSegment, AcceptSegment, Ignore

(* A turn gives the sender a new id, or answers under one the sender uses already. *)
LEMMA TurnUses ==
  ASSUME TransportInv, NEW a \in Clients, NEW m \in Incoming, NEW lap \in Laps,
         NEW reply \in Responses \cup {NoReply}, FromClient(a, m), TurnOf(a, m, lap, reply),
         NEW b \in Clients, NEW c \in ClientIds, Uses(b, c)'
  PROVE  \/ Uses(b, c)
         \/ m.type = "INIT_REQUEST" /\ b = a /\ c = nextId
<1>1. UNCHANGED <<pc, clientId, outgoing>> /\ Held(toServer') \subseteq Held(toServer)
  BY TurnNetwork DEF TurnOf, clientVars
<1>2. CASE \E d \in Held(toClient'[b]) : d.id = c
  <2>1. PICK d \in Held(toClient'[b]) : d.id = c
    BY <1>2
  <2>2. CASE d \in Held(toClient[b])
    BY <2>1, <2>2 DEF Uses
  <2>3. CASE d \notin Held(toClient[b])
    <3>1. b = a /\ d \in Held(sent')
      BY <2>3, TurnNetwork
    <3>2. c = TurnId(m)
      BY <2>1, <3>1, TurnSays DEF TurnOf, TransportInv
    <3>3. CASE m.type # "INIT_REQUEST"
      <4>1. [from |-> a, datagram |-> m] \in Held(toServer) /\ m # InitRequest /\ m.id = c
        BY <3>2, <3>3, TurnNetwork DEF TurnId, InitRequest
      <4> QED
        BY <3>1, <4>1 DEF Uses
    <3> QED
      BY <3>1, <3>2, <3>3 DEF TurnId
  <2> QED
    BY <2>2, <2>3
<1> QED
  BY <1>1, <1>2 DEF Uses

(* The budget of faults is only used up, and calls are only counted up. *)
LEMMA StepCounts ==
  ASSUME TransportInv, [TransportNext]_vars
  PROVE  /\ scenario' = scenario
         /\ \A kind \in FaultKinds : faults'[kind] <= faults[kind]
         /\ \A b \in Clients : calls[b] \in Nat /\ calls'[b] \in Nat /\ calls[b] <= calls'[b]
         /\ RestartServer => ~ NotRestarted'
         /\ NotRestarted' => NotRestarted
         /\ Unmixed' => Unmixed
         /\ FirstCalls' => FirstCalls
<1>1. /\ \A b \in Clients : calls[b] \in Nat
      /\ \A kind \in FaultKinds : faults[kind] \in Nat /\ scenario.budget[kind] \in Nat
                                    /\ faults[kind] <= scenario.budget[kind]
  BY ScenarioTypes, TransportAssumption
     DEF TransportInv, ScenarioOK, ProcessesOK, ProcessTypes
<1>2. \/ UNCHANGED <<calls, scenario, faults>>
      \/ UNCHANGED <<calls, scenario>> /\ \E kind \in FaultKinds : Fault(kind)
      \/ \E a \in Clients : ClientStep(a)
  BY TransportSteps DEF ServerTurn, Lose, Delay, Repeat, Disturb, DamageToServer,
     DamageToClient, NetworkFault, RestartServer, TimePasses, Fault, FaultKinds, vars
<1>3. /\ scenario' = scenario
      /\ \A kind \in FaultKinds : faults'[kind] <= faults[kind]
      /\ \A b \in Clients : calls[b] \in Nat /\ calls'[b] \in Nat /\ calls[b] <= calls'[b]
  <2>1. CASE \E a \in Clients : ClientStep(a)
    <3>1. UNCHANGED <<faults, scenario>>
          /\ \A b \in Clients : calls[b] \in Nat /\ calls'[b] \in Nat /\ calls[b] <= calls'[b]
      BY <2>1, ClientStepFrame
    <3> QED
      BY <1>1, <3>1
  <2>2. CASE UNCHANGED <<calls, scenario, faults>>
    BY <1>1, <2>2
  <2>3. CASE UNCHANGED <<calls, scenario>> /\ \E kind \in FaultKinds : Fault(kind)
    BY <1>1, <2>3, FaultCounted DEF TransportInv
  <2> QED
    BY <1>2, <2>1, <2>2, <2>3
<1>4. NotRestarted' => NotRestarted
  <2>1. "restart" \in FaultKinds
    BY DEF FaultKinds
  <2>2. ASSUME faults'["restart"] = scenario.budget["restart"]
        PROVE  faults["restart"] = scenario.budget["restart"]
    BY <1>1, <1>3, <2>1, <2>2
  <2> QED
    BY <1>3, <2>2 DEF NotRestarted
<1>5. RestartServer => ~ NotRestarted'
  <2> SUFFICES ASSUME RestartServer PROVE ~ NotRestarted'
    OBVIOUS
  <2>1. /\ faults' = [faults EXCEPT !["restart"] = @ - 1] /\ faults["restart"] > 0
        /\ "restart" \in FaultKinds /\ faults \in [FaultKinds -> Nat]
    BY DEF RestartServer, Fault, FaultKinds, TransportInv, ScenarioOK
  <2>2. faults'["restart"] = faults["restart"] - 1
    BY <2>1
  <2>3. faults'["restart"] # scenario.budget["restart"]
    BY <1>1, <2>1, <2>2
  <2> QED
    BY <1>3, <2>3 DEF NotRestarted
<1>6. FirstCalls' => FirstCalls
  BY <1>3 DEF FirstCalls
<1> QED
  BY <1>3, <1>4, <1>5, <1>6 DEF Unmixed

(* Until the server is started anew, an id is used by one client only. *)
LEMMA IdsStayOwned ==
  ASSUME TransportInv, IdsOwned, [TransportNext]_vars
  PROVE  IdsOwned'
<1> SUFFICES ASSUME NotRestarted'
             PROVE  /\ \A b \in Clients : \A c \in ClientIds : Uses(b, c)' => c < nextId'
                    /\ \A a, b \in Clients : \A c \in ClientIds :
                         Uses(a, c)' /\ Uses(b, c)' => a = b
  BY DEF IdsOwned
<1>1. CASE ServerTurn
  <2>1. PICK a \in Clients, m \in Incoming, lap \in Laps, reply \in Responses \cup {NoReply} :
          FromClient(a, m) /\ TurnOf(a, m, lap, reply)
    BY <1>1, TurnTaken
  <2>2. NotRestarted
    BY <2>1 DEF NotRestarted, TurnOf
  <2>3. nextId \in Nat /\ nextId' = (IF m.type = "INIT_REQUEST" THEN nextId + 1 ELSE nextId)
    BY <2>1, TurnNextId DEF TurnOf, TransportInv, ServerInv
  <2>4. \A b \in Clients : \A c \in ClientIds : Uses(b, c)' =>
          Uses(b, c) \/ (m.type = "INIT_REQUEST" /\ b = a /\ c = nextId)
    BY <2>1, TurnUses
  <2>5. \A c \in ClientIds : c \in Nat
    BY BoundAssumption DEF ClientIds
  <2>6. \A b \in Clients : \A c \in ClientIds : Uses(b, c) => c < nextId /\ c # nextId
    BY <2>2, <2>3, <2>5 DEF IdsOwned
  <2>7. \A b \in Clients : \A c \in ClientIds : Uses(b, c)' => c < nextId'
    BY <2>3, <2>4, <2>5, <2>6
  <2>8. \A b, e \in Clients : \A c \in ClientIds : Uses(b, c)' /\ Uses(e, c)' => b = e
    BY <2>2, <2>4, <2>6 DEF IdsOwned
  <2> QED
    BY <2>7, <2>8
<1>2. CASE RestartServer
  BY <1>2, StepCounts
<1>3. CASE ~ ServerTurn /\ ~ RestartServer
  <2>1. (\E a \in Clients : ClientStep(a)) \/ NetworkStep
    BY <1>3, TransportSteps DEF NetworkStep
  <2>2. \A b \in Clients : \A c \in ClientIds : Uses(b, c)' => Uses(b, c)
    BY <2>1, ClientUses, NetworkUses
  <2>3. CASE \E a \in Clients : ClientStep(a)
    <3>1. UNCHANGED <<nextId, faults, scenario>>
      BY <2>3, ClientStepFrame
    <3> QED
      BY <2>2, <3>1 DEF IdsOwned, NotRestarted
  <2>4. CASE NetworkStep
    <3>1. UNCHANGED <<nextId, scenario>>
      BY <1>3, <2>4 DEF NetworkStep, Lose, Delay, Repeat, Disturb, DamageToServer,
         DamageToClient, NetworkFault, TimePasses, Fault, Tick, vars, serverVars
    <3>2. NotRestarted
      BY StepCounts
    <3> QED
      BY <2>2, <3>1, <3>2 DEF IdsOwned
  <2> QED
    BY <2>1, <2>3, <2>4
<1> QED
  BY <1>1, <1>2, <1>3

(* Ids are distinct until the first restart, whatever else happens to datagrams:
   a lost, late or repeated INIT_REQUEST or handshake costs an id, never gives one
   to two clients (generateClientId, udp_server.cpp:233). *)
THEOREM TransportIdsDistinct == TransportSpec => [](NotRestarted => IdsAreDistinct)
<1>1. TransportInit => IdsOwned
  BY DEF TransportInit, ClientInit, IdsOwned, Uses, Named, Held
<1>2. TransportInv /\ IdsOwned /\ [TransportNext]_vars => IdsOwned'
  BY IdsStayOwned
<1>3. TransportInv /\ IdsOwned => (NotRestarted => IdsAreDistinct)
  <2> SUFFICES ASSUME TransportInv, IdsOwned, NotRestarted,
                      NEW a \in Clients, NEW b \in Clients,
                      clientId[a] # NoId, clientId[a] = clientId[b]
               PROVE  a = b
    BY DEF IdsAreDistinct
  <2>1. /\ pc[a] \in Named /\ clientId[a] \in ClientIds
        /\ pc[b] \in Named
    BY DEF TransportInv, ProcessesOK, ClientOK
  <2>2. Uses(a, clientId[a]) /\ Uses(b, clientId[a])
    BY <2>1 DEF Uses
  <2> QED
    BY <2>1, <2>2 DEF IdsOwned
<1> QED
  BY <1>1, <1>2, <1>3, TransportInvariant, PTL DEF TransportSpec

-----------------------------------------------------------------------------
(* What the server has stored for a client, and what it hands to the application. *)

(* The segments of client c after segment m was added to them. *)
Collected(c, m) == Put(clients[c].segments, m.seq, m.payload)

(* The purge at the end of a turn takes clients away and changes none. *)
LEMMA PurgeKeeps ==
  ASSUME NEW hs, NEW cl, NEW queue, NEW lap, EndTurn(hs, cl, queue, lap),
         NEW c \in DOMAIN clients'
  PROVE  c \in DOMAIN cl /\ clients'[c] = cl[c]
  BY DEF EndTurn, RemoveInactiveClients, Keep

(* One accepted segment, taken apart. *)
LEMMA AcceptParts ==
  ASSUME ServerInv, alive, NEW m \in Incoming, m.type = "DATA", NEW lap \in Laps, NEW reply,
         AcceptSegment(m, lap, reply)
  PROVE  /\ m.intact /\ m.id \in DOMAIN clients
         /\ \A c \in DOMAIN clients' : \A seq \in DOMAIN clients'[c].segments :
              IF c = m.id THEN /\ seq \in DOMAIN Collected(c, m)
                               /\ clients'[c].segments[seq] = Collected(c, m)[seq]
                          ELSE c \in DOMAIN clients /\ clients'[c] = clients[c]
         /\ \/ dispatched' = <<>>
            \/ /\ DOMAIN Collected(m.id, m) = 0..(m.tot - 1)
               /\ dispatched' = <<[id |-> m.id,
                                   message |-> [i \in 1..m.tot |-> Collected(m.id, m)[i - 1]]]>>
<1> DEFINE t       == now + lap["clients"]
           new     == [segments |-> Collected(m.id, m), total_segments |-> m.tot,
                       last_active |-> t]
           tracked == TrackSegment(clients, m, t)
           queue   == PushActivity(inactiveClients, m.id, t)
<1>1. m.intact /\ m.id \in DOMAIN clients
  BY AcceptKeeps DEF AcceptSegment
<1>2. StoreSegment(m, lap, reply)
  BY <1>1 DEF AcceptSegment
<1>3. tracked = Put(clients, m.id, new)
  BY <1>1 DEF TrackSegment, Collected, PayloadRead
<1>4. /\ new.segments = Collected(m.id, m) /\ new.total_segments = m.tot
      /\ [new EXCEPT !.segments = EmptyMap].segments = EmptyMap
  OBVIOUS
<1> HIDE DEF new
<1>5. /\ tracked[m.id] = new /\ DOMAIN tracked = DOMAIN clients
      /\ \A c \in DOMAIN clients \ {m.id} : tracked[c] = clients[c]
  BY <1>1, <1>3 DEF Put
<1>6. CASE AllSegments(tracked[m.id])
  <2> DEFINE cl  == ClearSegments(tracked, m.id)
             out == [id |-> m.id, message |-> AssembledMessage(tracked[m.id])]
  <2>1. EndTurn(handshakes, cl, queue, lap) /\ dispatched' = <<out>>
    BY <1>2, <1>6 DEF StoreSegment, Says
  <2> HIDE DEF tracked
  <2>2. /\ cl[m.id].segments = EmptyMap /\ DOMAIN cl = DOMAIN clients
        /\ \A c \in DOMAIN clients \ {m.id} : cl[c] = clients[c]
    BY <1>1, <1>4, <1>5 DEF ClearSegments, Put
  <2>3. DOMAIN Collected(m.id, m) = 0..(m.tot - 1)
    BY <1>4, <1>5, <1>6 DEF AllSegments
  <2>4. AssembledMessage(tracked[m.id]) = [i \in 1..m.tot |-> Collected(m.id, m)[i - 1]]
    BY <1>4, <1>5 DEF AssembledMessage
  <2>5. DOMAIN EmptyMap = {}
    BY DEF EmptyMap
  <2> HIDE DEF cl
  <2>6. \A c \in DOMAIN clients' : c \in DOMAIN cl /\ clients'[c] = cl[c]
    BY <2>1, PurgeKeeps
  <2>7. \A c \in DOMAIN clients' : \A seq \in DOMAIN clients'[c].segments :
          c # m.id /\ c \in DOMAIN clients /\ clients'[c] = clients[c]
    BY <2>2, <2>5, <2>6
  <2> QED
    BY <1>1, <2>1, <2>3, <2>4, <2>7
<1>7. CASE ~ AllSegments(tracked[m.id])
  <2>1. EndTurn(handshakes, tracked, queue, lap) /\ dispatched' = <<>>
    BY <1>2, <1>7 DEF StoreSegment, Says
  <2> HIDE DEF tracked
  <2>2. \A c \in DOMAIN clients' : c \in DOMAIN tracked /\ clients'[c] = tracked[c]
    BY <2>1, PurgeKeeps
  <2> QED
    BY <1>1, <1>4, <1>5, <2>1, <2>2
<1> QED
  BY <1>6, <1>7

(* A turn adds no segment to a buffer but the intact one it was handed. *)
LEMMA TurnBuffers ==
  ASSUME ServerInv, NEW m \in Incoming, NEW lap \in Laps, NEW reply,
         HandleClientMessage(m, lap, reply),
         NEW c \in DOMAIN clients', NEW seq \in DOMAIN clients'[c].segments
  PROVE  \/ /\ c \in DOMAIN clients /\ seq \in DOMAIN clients[c].segments
            /\ clients'[c].segments[seq] = clients[c].segments[seq]
         \/ /\ m.type = "DATA" /\ m.intact /\ c = m.id /\ seq = m.seq
            /\ clients'[c].segments[seq] = m.payload
<1>1. CASE HandleDataMessage(m, lap, reply) /\ AcceptSegment(m, lap, reply)
  <2>1. m.type = "DATA" /\ alive
    BY <1>1 DEF HandleDataMessage, HandleClientMessage
  <2>2. /\ m.intact /\ m.id \in DOMAIN clients
        /\ IF c = m.id THEN /\ seq \in DOMAIN Collected(c, m)
                            /\ clients'[c].segments[seq] = Collected(c, m)[seq]
                       ELSE c \in DOMAIN clients /\ clients'[c] = clients[c]
    BY <1>1, <2>1, AcceptParts
  <2> QED
    BY <2>1, <2>2 DEF Collected, Put
<1>2. CASE \E hs, queue : EndTurn(hs, clients, queue, lap)
  BY <1>2, PurgeKeeps
<1>3. CASE CompleteKnown(m, lap)
  <2> DEFINE t  == now + lap["clients"]
             cl == RegisterClient(clients, m.id, t)
  <2>1. \E hs, queue : EndTurn(hs, cl, queue, lap)
    BY <1>3 DEF CompleteKnown
  <2>2. c \in DOMAIN cl /\ clients'[c] = cl[c]
    BY <2>1, PurgeKeeps
  <2> DEFINE fresh == [segments |-> EmptyMap, total_segments |-> 0, last_active |-> t]
  <2>3. fresh.segments = EmptyMap /\ DOMAIN EmptyMap = {} /\ cl = Put(clients, m.id, fresh)
    BY DEF EmptyMap, RegisterClient
  <2> HIDE DEF fresh, cl
  <2> QED
    BY <2>2, <2>3 DEF Put
<1>4. \/ HandleDataMessage(m, lap, reply) /\ AcceptSegment(m, lap, reply)
      \/ \E hs, queue : EndTurn(hs, clients, queue, lap)
      \/ CompleteKnown(m, lap)
  BY DEF HandleClientMessage, HandleInitRequest, HandleHandshakeMessage, StartUnknown,
         HandleDataMessage, AskHandshake, RefuseSegment, Ignore
<1> QED
  BY <1>1, <1>2, <1>3, <1>4

(* A message is handed on when the segment of this turn was the last one missing. *)
LEMMA TurnDispatches ==
  ASSUME ServerInv, NEW m \in Incoming, NEW lap \in Laps, NEW reply,
         HandleClientMessage(m, lap, reply), dispatched' # <<>>
  PROVE  /\ m.type = "DATA" /\ m.intact /\ m.id \in DOMAIN clients
         /\ DOMAIN Collected(m.id, m) = 0..(m.tot - 1)
         /\ dispatched' = <<[id |-> m.id,
                             message |-> [i \in 1..m.tot |-> Collected(m.id, m)[i - 1]]]>>
<1>1. HandleDataMessage(m, lap, reply) /\ AcceptSegment(m, lap, reply)
  BY DEF HandleClientMessage, HandleInitRequest, HandleHandshakeMessage, CompleteKnown,
         StartUnknown, HandleDataMessage, AskHandshake, RefuseSegment, Ignore, Says
<1> QED
  BY <1>1, AcceptParts DEF HandleDataMessage, HandleClientMessage

(* The sender of a segment uses its id. *)
LEMMA SenderUses ==
  ASSUME TransportInv, NEW a \in Clients, NEW m \in Incoming, NEW lap \in Laps,
         NEW reply \in Responses \cup {NoReply}, FromClient(a, m), TurnOf(a, m, lap, reply),
         m.type = "DATA"
  PROVE  IsSegmentOf(a, m) /\ m.id \in ClientIds /\ Uses(a, m.id)
<1>1. IsSegmentOf(a, m) /\ m # InitRequest
  BY DEF FromClient, InitRequest, Handshake
<1>2. [from |-> a, datagram |-> m] \in Held(toServer)
  BY TurnNetwork
<1>3. Uses(a, m.id)
  BY <1>1, <1>2 DEF Uses
<1> QED
  BY <1>1, <1>3 DEF IsSegmentOf

(* What is stored stays the property of the client that sent it. *)
LEMMA StoredStays ==
  ASSUME TransportInv, [TransportNext]_vars, ~ RestartServer,
         NEW c \in ClientIds, NEW seq, NEW x, IsStored(c, seq, x)
  PROVE  IsStored(c, seq, x)'
<1>1. /\ scenario' = scenario
      /\ NotRestarted' => NotRestarted
      /\ \A b \in Clients : calls[b] \in Nat /\ calls'[b] \in Nat /\ calls[b] <= calls'[b]
  BY StepCounts
<1>2. x = Chunk(x.client, x.call, seq + 1) /\ x.client \in Clients
      /\ x.call \in 1..calls[x.client] /\ seq \in 0..(scenario.request - 1)
  BY DEF IsStored
<1>3. x.call \in 1..calls'[x.client]
  BY <1>1, <1>2
<1>4. ASSUME NotRestarted'
      PROVE  c < nextId' /\ \A a \in Clients : Uses(a, c)' => a = x.client
  <2>1. c < nextId /\ \A a \in Clients : Uses(a, c) => a = x.client
    BY <1>1, <1>4 DEF IsStored
  <2>2. nextId \in Nat /\ c \in Nat
    BY BoundAssumption DEF TransportInv, ServerInv, ClientIds
  <2>3. CASE ServerTurn
    <3>1. PICK a \in Clients, m \in Incoming, lap \in Laps, reply \in Responses \cup {NoReply} :
            FromClient(a, m) /\ TurnOf(a, m, lap, reply)
      BY <2>3, TurnTaken
    <3>2. nextId' = (IF m.type = "INIT_REQUEST" THEN nextId + 1 ELSE nextId)
      BY <3>1, TurnNextId DEF TurnOf
    <3>3. \A b \in Clients : Uses(b, c)' => Uses(b, c) \/ c = nextId
      BY <3>1, TurnUses
    <3>4. c < nextId' /\ c # nextId
      BY <2>1, <2>2, <3>2
    <3> QED
      BY <2>1, <3>3, <3>4
  <2>4. CASE \E b \in Clients : ClientStep(b)
    BY <2>1, <2>4, ClientStepFrame, ClientUses
  <2>5. CASE NetworkStep
    <3>1. UNCHANGED nextId
      BY <2>5 DEF NetworkStep, Lose, Delay, Repeat, Disturb, DamageToServer,
         DamageToClient, NetworkFault, TimePasses, Fault, Tick, vars, serverVars
    <3> QED
      BY <2>1, <2>5, <3>1, NetworkUses
  <2> QED
    BY <2>3, <2>4, <2>5, TransportSteps DEF NetworkStep
<1>5. x = Chunk(x.client, x.call, seq + 1)'
  BY <1>2 DEF Chunk
<1> QED
  BY <1>1, <1>2, <1>3, <1>4, <1>5 DEF IsStored

(* The server's buffers hold only what the owner of the id has sent. *)
LEMMA BuffersStayOwned ==
  ASSUME TransportInv, IdsOwned, BuffersOwned, [TransportNext]_vars
  PROVE  BuffersOwned'
<1>1. DOMAIN clients \subseteq ClientIds /\ DOMAIN clients' \subseteq ClientIds
  BY NextTransportInv DEF TransportInv, ServerInv, ManagersOK, ClientsOK
<1>2. CASE RestartServer
  BY <1>2 DEF RestartServer, Restart, BuffersOwned, EmptyMap
<1>3. CASE ServerTurn /\ ~ RestartServer
  <2>1. PICK a \in Clients, m \in Incoming, lap \in Laps, reply \in Responses \cup {NoReply} :
          FromClient(a, m) /\ TurnOf(a, m, lap, reply)
    BY <1>3, TurnTaken
  <2>2. ASSUME NEW c \in DOMAIN clients', NEW seq \in DOMAIN clients'[c].segments,
               NEW x, x = clients'[c].segments[seq]
        PROVE  IsStored(c, seq, x)'
    <3>1. \/ /\ c \in DOMAIN clients /\ seq \in DOMAIN clients[c].segments
             /\ x = clients[c].segments[seq]
          \/ /\ m.type = "DATA" /\ c = m.id /\ seq = m.seq /\ x = m.payload
      BY <2>1, <2>2, TurnBuffers DEF TurnOf, TransportInv
    <3>2. ASSUME c \in DOMAIN clients, seq \in DOMAIN clients[c].segments,
                 x = clients[c].segments[seq]
          PROVE  IsStored(c, seq, x)
      BY <3>2 DEF BuffersOwned
    <3>3. ASSUME m.type = "DATA", c = m.id, seq = m.seq, x = m.payload
          PROVE  IsStored(c, seq, x)
      <4>1. IsSegmentOf(a, m) /\ m.id \in ClientIds /\ Uses(a, m.id)
        BY <2>1, <3>3, SenderUses
      <4>2. m.payload = Chunk(a, m.payload.call, m.seq + 1)
        BY <4>1 DEF IsSegmentOf, Data
      <4>3. m.payload.client = a /\ m.payload.call \in 1..calls[a]
            /\ m.seq \in 0..(scenario.request - 1)
        BY <4>1, <4>2 DEF IsSegmentOf, Chunk
      <4>4. NotRestarted => c < nextId /\ \A b \in Clients : Uses(b, c) => b = a
        BY <3>3, <4>1 DEF IdsOwned
      <4> QED
        BY <3>3, <4>2, <4>3, <4>4 DEF IsStored
    <3>4. IsStored(c, seq, x)
      BY <3>1, <3>2, <3>3
    <3>5. IsStored(c, seq, x)'
      BY <1>1, <1>3, <3>4, StoredStays
    <3> QED
      BY <3>5
  <2> QED
    BY <2>2 DEF BuffersOwned
<1>4. CASE ~ ServerTurn /\ ~ RestartServer
  <2>1. UNCHANGED clients
    <3>1. CASE \E a \in Clients : ClientStep(a)
      BY <3>1, ClientStepFrame DEF managers
    <3>2. CASE ~ \E a \in Clients : ClientStep(a)
      BY <1>4, <3>2, TransportSteps DEF Lose, Delay, Repeat, Disturb, DamageToServer,
         DamageToClient, NetworkFault, TimePasses, Tick, managers, vars, serverVars
    <3> QED
      BY <3>1, <3>2
  <2>2. ASSUME NEW c \in DOMAIN clients, NEW seq \in DOMAIN clients[c].segments,
               NEW x, x = clients[c].segments[seq]
        PROVE  IsStored(c, seq, x)'
    <3>1. IsStored(c, seq, x) /\ c \in ClientIds
      BY <1>1, <2>2 DEF BuffersOwned
    <3> QED
      BY <1>4, <3>1, StoredStays
  <2> QED
    BY <2>1, <2>2 DEF BuffersOwned
<1> QED
  BY <1>2, <1>3, <1>4

(* The message of a turn is a message of the sender: its segments cannot have come
   from two clients, nor from two calls. *)
LEMMA DispatchedIsRequest ==
  ASSUME TransportInv, IdsOwned, BuffersOwned, Unmixed,
         NEW a \in Clients, NEW m \in Incoming, NEW lap \in Laps,
         NEW reply \in Responses \cup {NoReply}, FromClient(a, m), TurnOf(a, m, lap, reply),
         dispatched' # <<>>
  PROVE  \E k \in 1..calls[a] : dispatched'[1].message = Message(a, k)
<1> DEFINE k      == m.payload.call
           pieces == Collected(m.id, m)
<1>1. /\ m.type = "DATA" /\ m.id \in DOMAIN clients
      /\ DOMAIN pieces = 0..(m.tot - 1)
      /\ dispatched' = <<[id |-> m.id, message |-> [i \in 1..m.tot |-> pieces[i - 1]]]>>
  BY TurnDispatches DEF TurnOf, TransportInv
<1>2. IsSegmentOf(a, m) /\ m.id \in ClientIds /\ Uses(a, m.id)
  BY <1>1, SenderUses
<1>3. /\ m.tot = scenario.request /\ m.payload = Chunk(a, k, m.seq + 1)
      /\ m.seq \in 0..(scenario.request - 1) /\ k \in 1..calls[a]
  BY <1>2 DEF IsSegmentOf, Data
<1> HIDE DEF k
<1>4. ASSUME NEW i \in 1..scenario.request
      PROVE  pieces[i - 1] = Chunk(a, k, i)
  <2>1. scenario.request \in Nat /\ i - 1 \in DOMAIN pieces /\ (i - 1) + 1 = i
    BY <1>1, <1>3, ScenarioTypes DEF TransportInv
  <2>2. CASE i - 1 = m.seq
    BY <1>3, <2>1, <2>2 DEF Collected, Put
  <2>3. CASE i - 1 # m.seq
    <3> DEFINE x == clients[m.id].segments[i - 1]
    <3>1. i - 1 \in DOMAIN clients[m.id].segments /\ pieces[i - 1] = x
      BY <2>1, <2>3 DEF Collected, Put
    <3>2. IsStored(m.id, i - 1, x)
      BY <1>1, <3>1 DEF BuffersOwned
    <3> HIDE DEF x
    <3>3. scenario.request # 1
      BY <1>3, <2>3
    <3>4. FirstCalls /\ (NotRestarted \/ OneClientOnly)
      BY <3>3 DEF Unmixed
    <3>5. x.client = a /\ x.call \in 1..calls[a] /\ x = Chunk(x.client, x.call, (i - 1) + 1)
      BY <1>2, <3>2, <3>4 DEF IsStored, OneClientOnly
    <3>6. calls[a] \in Nat /\ calls[a] <= 1
      BY <3>4, StepCounts, TransportAssumption
         DEF FirstCalls, TransportInv, ProcessesOK, ProcessTypes
    <3>7. x.call = k
      BY <1>3, <3>5, <3>6
    <3> QED
      BY <2>1, <3>1, <3>5, <3>7
  <2> QED
    BY <2>2, <2>3
<1> HIDE DEF pieces
<1>5. [i \in 1..m.tot |-> pieces[i - 1]] = Message(a, k)
  BY <1>3, <1>4 DEF Message, RequestOf
<1>6. dispatched'[1].message = [i \in 1..m.tot |-> pieces[i - 1]]
  BY <1>1
<1> QED
  BY <1>3, <1>5, <1>6

LEMMA ExecutedStaysWhole ==
  ASSUME TransportInv, IdsOwned, BuffersOwned, ExecutedWhole, [TransportNext]_vars
  PROVE  ExecutedWhole'
<1> SUFFICES ASSUME Unmixed' PROVE OnlyWholeRequests'
  BY DEF ExecutedWhole
<1>1. Unmixed /\ DOMAIN executed \subseteq Requests
  BY StepCounts DEF ExecutedWhole, OnlyWholeRequests
<1>2. CASE ServerTurn
  <2>1. PICK a \in Clients, m \in Incoming, lap \in Laps, reply \in Responses \cup {NoReply} :
          FromClient(a, m) /\ TurnOf(a, m, lap, reply)
    BY <1>2, TurnTaken
  <2>2. CASE dispatched' = <<>>
    BY <1>1, <2>1, <2>2 DEF TurnOf, OnlyWholeRequests
  <2>3. CASE dispatched' # <<>>
    <3> DEFINE message == dispatched'[1].message
    <3>1. PICK k \in 1..calls[a] : message = Message(a, k)
      BY <1>1, <2>1, <2>3, DispatchedIsRequest
    <3>2. k \in 1..MaxCalls
      BY TransportAssumption DEF TransportInv, ProcessesOK, ProcessTypes
    <3>3. message \in Requests
      BY <3>1, <3>2, RequestTypes DEF TransportInv
    <3>4. executed' = Put(executed, message, Count(message) + 1)
      BY <2>1, <2>3 DEF TurnOf
    <3> HIDE DEF message
    <3> QED
      BY <1>1, <3>3, <3>4 DEF OnlyWholeRequests, Put
  <2> QED
    BY <2>2, <2>3
<1>3. CASE ~ ServerTurn
  <2>1. CASE \E a \in Clients : ClientStep(a)
    BY <1>1, <2>1, ClientStepFrame DEF OnlyWholeRequests
  <2>2. CASE ~ \E a \in Clients : ClientStep(a)
    <3>1. UNCHANGED executed
      BY <1>3, <2>2, TransportSteps DEF Lose, Delay, Repeat, Disturb, DamageToServer,
         DamageToClient, NetworkFault, RestartServer, TimePasses, Fault, vars
    <3> QED
      BY <1>1, <3>1 DEF OnlyWholeRequests
  <2> QED
    BY <2>1, <2>2
<1> QED
  BY <1>2, <1>3

(* The application is handed only messages some client sent. *)
OwnershipInv == IdsOwned /\ BuffersOwned /\ ExecutedWhole

THEOREM OwnershipInvariant == TransportSpec => []OwnershipInv
<1>1. TransportInit => OwnershipInv
  BY DEF TransportInit, ServerInit, ClientInit, OwnershipInv, IdsOwned, Uses, Named, Held,
         BuffersOwned, ExecutedWhole, OnlyWholeRequests, EmptyMap
<1>2. TransportInv /\ OwnershipInv /\ [TransportNext]_vars => OwnershipInv'
  BY IdsStayOwned, BuffersStayOwned, ExecutedStaysWhole DEF OwnershipInv
<1> QED
  BY <1>1, <1>2, TransportInvariant, PTL DEF TransportSpec

(* No message is put together from segments of two messages as long as two cannot
   meet in one buffer: messages of one segment under any faults and restarts, or
   the first message of each client, with one client only if the server is started
   anew.  Beyond that it can happen, see trackSegment, connection_manager.cpp:30. *)
THEOREM TransportRequestsWhole == TransportSpec => [](Unmixed => OnlyWholeRequests)
<1>1. OwnershipInv => (Unmixed => OnlyWholeRequests)
  BY DEF OwnershipInv, ExecutedWhole
<1> QED
  BY <1>1, OwnershipInvariant, PTL

-----------------------------------------------------------------------------
(* A set of n of the numbers below n has all of them. *)
LEMMA FullSet ==
  ASSUME NEW n \in Nat, NEW S \in SUBSET (0..(n - 1)), Cardinality(S) = n
  PROVE  S = 0..(n - 1)
<1>1. IsFiniteSet(0..(n - 1)) /\ Cardinality(0..(n - 1)) = n
  <2> DEFINE last == n - 1
  <2>1. last \in Int /\ 0 \in Int /\ (IF 0 > last THEN 0 ELSE last - 0 + 1) = n
    OBVIOUS
  <2> HIDE DEF last
  <2>2. IsFiniteSet(0..last) /\ Cardinality(0..last) = n
    BY <2>1, FS_Interval
  <2> QED
    BY <2>2 DEF last
<1> QED
  BY <1>1, FS_Subset

(* An answer is sent in segments that name the message and their place in it. *)
LEMMA AnswerSegments ==
  ASSUME TransportInv, NEW a \in Clients, NEW k \in 1..calls[a], NEW c,
         NEW d \in Held(ReplySegments(c, AnswerTo(Message(a, k))))
  PROVE  IsAnswerSegment(a, d) /\ d.intact
<1> DEFINE reply == AnswerTo(Message(a, k))
<1>1. k \in 1..MaxCalls /\ scenario.answer \in Nat \ {0} /\ scenario.request \in Nat \ {0}
  BY ScenarioTypes, TransportAssumption DEF TransportInv, ProcessesOK, ProcessTypes
<1>2. Message(a, k)[1] = Chunk(a, k, 1)
  BY <1>1, RequestTypes DEF TransportInv
<1>3. reply = [i \in 1..scenario.answer |-> AnswerPart(a, k, i)]
  BY <1>2 DEF AnswerTo, AnswerOf, AnswerPart
<1>4. reply \in Replies
  BY <1>1 DEF Replies
<1>5. reply \in Responses
  <2>1. Message(a, k) \in Requests
    BY <1>1, RequestTypes DEF TransportInv
  <2> QED
    BY <2>1, WiringAssumption DEF TransportAnswers, AnswerTo, TransportInv, ScenarioOK
<1>6. reply # NoReply /\ reply \in Seq(Payloads)
  BY <1>5, MessageAssumption
<1> HIDE DEF reply
<1>7. Len(reply) = scenario.answer /\ reply # <<>>
  BY <1>1, <1>3, <1>6
<1>8. d \in Held([i \in 1..scenario.answer |->
                    Data(c, i - 1, scenario.answer, TRUE, AnswerPart(a, k, i))])
  BY <1>3, <1>6, <1>7 DEF ReplySegments, SegmentsOf, reply
<1>9. PICK i \in 1..scenario.answer :
        d = Data(c, i - 1, scenario.answer, TRUE, AnswerPart(a, k, i))
  BY <1>8 DEF Held
<1>10. i - 1 \in 0..(scenario.answer - 1) /\ (i - 1) + 1 = i
  BY <1>1
<1>11. /\ d.seq = i - 1 /\ d.tot = scenario.answer /\ d.payload = AnswerPart(a, k, i)
       /\ d.intact = TRUE
  BY <1>9 DEF Data
<1> QED
  BY <1>10, <1>11 DEF IsAnswerSegment, IsAnswerPart

(* What a turn sends to the client of the segment, when buffers are not mixed. *)
LEMMA TurnAnswers ==
  ASSUME TransportInv, OwnershipInv, Unmixed,
         NEW a \in Clients, NEW m \in Incoming, NEW lap \in Laps,
         NEW reply \in Responses \cup {NoReply}, FromClient(a, m), TurnOf(a, m, lap, reply),
         NEW d \in Held(sent'), d.type = "DATA"
  PROVE  IsAnswerSegment(a, d) /\ d.intact
<1>1. dispatched' # <<>> /\ d \in Held(ReplySegments(m.id, reply))
  BY TurnSays DEF TurnOf, TransportInv
<1>2. PICK k \in 1..calls[a] : dispatched'[1].message = Message(a, k)
  BY <1>1, DispatchedIsRequest DEF OwnershipInv
<1>3. reply = AnswerTo(Message(a, k))
  BY <1>1, <1>2 DEF TurnOf
<1> QED
  BY <1>1, <1>3, AnswerSegments

(* The ways a client's collection and result change. *)
Gathered(a, m) == Put(incoming[a], m.seq, PayloadRead(m))

LEMMA ClientCollects ==
  ASSUME TransportInv, NEW a \in Clients, ClientStep(a)
  PROVE  /\ \/ incoming'[a] = incoming[a] \/ incoming'[a] = EmptyMap
            \/ \E m \in Held(toClient[a]) : m.type = "DATA" /\ incoming'[a] = Gathered(a, m)
         /\ \/ result'[a] = result[a] \/ result'[a].kind # "answer"
            \/ \E m \in Held(toClient[a]) :
                 /\ m.type = "DATA" /\ Cardinality(DOMAIN Gathered(a, m)) = m.tot
                 /\ result'[a] = Answer(TextOf(Gathered(a, m), m.tot))
<1>1. DOMAIN incoming = Clients /\ DOMAIN result = Clients
  BY DEF TransportInv, ProcessesOK, ProcessTypes
<1>2. \A kind \in {"pending", "NACK", "nullopt", "timeout"} : Outcome(kind).kind # "answer"
  BY DEF Outcome
<1>3. ASSUME NEW outcome, EndCall(a, outcome)
      PROVE  incoming'[a] = EmptyMap /\ result'[a] = outcome
  BY <1>1, <1>3 DEF EndCall
<1>4. ASSUME NEW kind \in {"NACK", "nullopt", "timeout"}, EndCall(a, Outcome(kind))
      PROVE  incoming'[a] = EmptyMap /\ result'[a].kind # "answer"
  BY <1>2, <1>3, <1>4
<1>5. CASE UNCHANGED incoming /\ (UNCHANGED result \/ result'[a] = Outcome("pending"))
  BY <1>2, <1>5
<1>6. CASE \E m \in Held(toClient[a]) : DataReceived(a, m)
  <2>1. PICK m \in Held(toClient[a]) : DataReceived(a, m)
    BY <1>6
  <2> DEFINE text == TextOf(Gathered(a, m), m.tot)
  <2>2. m.type = "DATA"
    BY <2>1 DEF DataReceived
  <2>3. CASE Cardinality(DOMAIN Gathered(a, m)) = m.tot /\ IsEmptyText(text)
    <3>1. EndCall(a, Outcome("nullopt"))
      BY <2>1, <2>3 DEF DataReceived, Gathered
    <3> QED
      BY <1>4, <3>1
  <2>4. CASE Cardinality(DOMAIN Gathered(a, m)) = m.tot /\ ~ IsEmptyText(text)
    <3>1. EndCall(a, Answer(text))
      BY <2>1, <2>4 DEF DataReceived, Gathered
    <3>2. incoming'[a] = EmptyMap /\ result'[a] = Answer(text)
      BY <1>3, <3>1
    <3> QED
      BY <2>2, <2>4, <3>2
  <2>5. CASE Cardinality(DOMAIN Gathered(a, m)) # m.tot
    <3>1. incoming'[a] = Gathered(a, m) /\ UNCHANGED result
      BY <1>1, <2>1, <2>5 DEF DataReceived, Gathered
    <3> QED
      BY <2>2, <3>1
  <2> QED
    BY <2>3, <2>4, <2>5
<1>7. \/ UNCHANGED incoming /\ (UNCHANGED result \/ result'[a] = Outcome("pending"))
      \/ \E m \in Held(toClient[a]) : DataReceived(a, m)
      \/ \E kind \in {"NACK", "nullopt", "timeout"} : EndCall(a, Outcome(kind))
  <2>1. CASE Construct(a)
    BY <2>1 DEF Construct, PerformHandshake
  <2>2. CASE Call(a)
    BY <1>1, <2>2 DEF Call, SendMessage
  <2>3. CASE Receive(a)
    <3> DEFINE m == Head(toClient[a])
    <3>1. Take(a, m) /\ m \in Held(toClient[a])
      BY <2>3, HeldTail DEF Receive, TransportInv, NetworkOK
    <3> HIDE DEF m
    <3> QED
      BY <3>1 DEF Take, InitAnswered, HandleEpollEvents, AckReceived, NackReceived,
         HandshakeReceived, OtherReceived, clientVars, ReceiveResponse, NoDataReceived
  <2>4. CASE GiveUpWaiting(a)
    BY <2>4 DEF GiveUpWaiting, Expire, InitTimeout, AckTimeout, ResponseTimeout
  <2> QED
    BY <2>1, <2>2, <2>3, <2>4 DEF ClientStep
<1> QED
  BY <1>4, <1>5, <1>6, <1>7

(* A part of an answer stays one while calls are counted up. *)
LEMMA PartsStay ==
  ASSUME TransportInv, [TransportNext]_vars, NEW a \in Clients
  PROVE  /\ \A d : IsAnswerSegment(a, d) => IsAnswerSegment(a, d)'
         /\ \A i, piece : IsPieceRead(a, i, piece) => IsPieceRead(a, i, piece)'
<1>1. scenario' = scenario /\ \A k \in 1..calls[a] : k \in 1..calls'[a]
  BY StepCounts
<1>2. \A i, piece : IsAnswerPart(a, i, piece) => IsAnswerPart(a, i, piece)'
  BY <1>1 DEF IsAnswerPart, AnswerPart, Chunk
<1>3. \A i, piece : IsPieceRead(a, i, piece) => IsPieceRead(a, i, piece)'
  BY <1>1 DEF IsPieceRead, AnswerPart, Chunk, Damaged
<1> QED
  BY <1>1, <1>2, <1>3 DEF IsAnswerSegment

(* What client a has after one more segment of an answer. *)
LEMMA GatheredPieces ==
  ASSUME TransportInv, NEW a \in Clients, NEW m \in Held(toClient[a]), m.type = "DATA",
         AnswersSent(a), AnswersCollected(a)
  PROVE  /\ \A seq \in DOMAIN Gathered(a, m) :
              /\ seq \in 0..(scenario.answer - 1)
              /\ IsPieceRead(a, seq + 1, Gathered(a, m)[seq])
         /\ Cardinality(DOMAIN Gathered(a, m)) = m.tot =>
              DOMAIN Gathered(a, m) = 0..(scenario.answer - 1)
<1>1. IsAnswerSegment(a, m)
  BY DEF AnswersSent
<1>2. IsPieceRead(a, m.seq + 1, PayloadRead(m))
  BY <1>1 DEF IsAnswerSegment, IsAnswerPart, IsPieceRead, PayloadRead
<1>3. \A seq \in DOMAIN Gathered(a, m) :
        /\ seq \in 0..(scenario.answer - 1)
        /\ IsPieceRead(a, seq + 1, Gathered(a, m)[seq])
  BY <1>1, <1>2 DEF IsAnswerSegment, AnswersCollected, Gathered, Put
<1>4. scenario.answer \in Nat /\ m.tot = scenario.answer
  BY <1>1, ScenarioTypes DEF IsAnswerSegment, TransportInv
<1>5. DOMAIN Gathered(a, m) \in SUBSET (0..(scenario.answer - 1))
  BY <1>3
<1> QED
  BY <1>3, <1>4, <1>5, FullSet

(* The text that is returned then has every piece in its place. *)
LEMMA TextOfPieces ==
  ASSUME TransportInv, NEW a \in Clients, NEW m \in Held(toClient[a]), m.type = "DATA",
         AnswersSent(a), AnswersCollected(a), Cardinality(DOMAIN Gathered(a, m)) = m.tot
  PROVE  /\ TextOf(Gathered(a, m), m.tot)
              = [i \in 1..scenario.answer |-> TextOf(Gathered(a, m), m.tot)[i]]
         /\ \A i \in 1..scenario.answer :
              /\ i - 1 \in DOMAIN Gathered(a, m)
              /\ TextOf(Gathered(a, m), m.tot)[i] = Gathered(a, m)[i - 1]
              /\ IsPieceRead(a, i, Gathered(a, m)[i - 1])
<1>1. m.tot = scenario.answer /\ scenario.answer \in Nat
  BY ScenarioTypes DEF AnswersSent, IsAnswerSegment, TransportInv
<1>2. \A i \in 1..scenario.answer : i - 1 \in 0..(scenario.answer - 1) /\ (i - 1) + 1 = i
  BY <1>1
<1>3. /\ DOMAIN Gathered(a, m) = 0..(scenario.answer - 1)
      /\ \A seq \in DOMAIN Gathered(a, m) : IsPieceRead(a, seq + 1, Gathered(a, m)[seq])
  BY GatheredPieces
<1>4. \A i \in 1..scenario.answer :
        i - 1 \in DOMAIN Gathered(a, m) /\ IsPieceRead(a, i, Gathered(a, m)[i - 1])
  <2> TAKE i \in 1..scenario.answer
  <2>1. i - 1 \in DOMAIN Gathered(a, m) /\ (i - 1) + 1 = i
    BY <1>2, <1>3
  <2>2. IsPieceRead(a, (i - 1) + 1, Gathered(a, m)[i - 1])
    BY <1>3, <2>1
  <2> QED
    BY <2>1, <2>2
<1> QED
  BY <1>1, <1>4 DEF TextOf

(* The answers of a client stay its own in its own steps, and in those of others. *)
LEMMA ClientAnswersOwned ==
  ASSUME TransportInv, [TransportNext]_vars, NEW a \in Clients, ClientStep(a), NEW b \in Clients,
         AnswersSent(b), AnswersCollected(b), AnswersReturned(b)
  PROVE  (AnswersSent(b) /\ AnswersCollected(b) /\ AnswersReturned(b))'
<1>1. scenario' = scenario
  BY StepCounts
<1>2. AnswersSent(b)'
  BY ClientStepFrame, PartsStay DEF AnswersSent
<1>3. CASE b # a
  <2>1. incoming'[b] = incoming[b] /\ result'[b] = result[b]
    BY <1>3, ClientStepKeeps DEF ClientStepOK, OthersUnchanged
  <2> QED
    BY <1>1, <1>2, <2>1, PartsStay DEF AnswersCollected, AnswersReturned
<1>4. CASE b = a
  <2>1. AnswersCollected(a)'
    <3>1. CASE incoming'[a] = incoming[a]
      BY <1>1, <1>4, <3>1, PartsStay DEF AnswersCollected
    <3>2. CASE incoming'[a] = EmptyMap
      BY <3>2 DEF AnswersCollected, EmptyMap
    <3>3. CASE \E m \in Held(toClient[a]) : m.type = "DATA" /\ incoming'[a] = Gathered(a, m)
      <4>1. PICK m \in Held(toClient[a]) : m.type = "DATA" /\ incoming'[a] = Gathered(a, m)
        BY <3>3
      <4>2. \A seq \in DOMAIN incoming'[a] :
              /\ seq \in 0..(scenario.answer - 1)
              /\ IsPieceRead(a, seq + 1, incoming'[a][seq])
        BY <1>4, <4>1, GatheredPieces
      <4>3. ASSUME NEW seq \in DOMAIN incoming'[a], NEW piece, piece = incoming'[a][seq]
            PROVE  seq \in 0..(scenario'.answer - 1) /\ IsPieceRead(a, seq + 1, piece)'
        BY <1>1, <4>2, <4>3, PartsStay
      <4> QED
        BY <4>3 DEF AnswersCollected
    <3> QED
      BY <3>1, <3>2, <3>3, ClientCollects
  <2>2. AnswersReturned(a)'
    <3>1. CASE result'[a] = result[a]
      BY <1>1, <1>4, <3>1, PartsStay DEF AnswersReturned
    <3>2. CASE result'[a].kind # "answer"
      BY <3>2 DEF AnswersReturned
    <3>3. CASE \E m \in Held(toClient[a]) :
                 /\ m.type = "DATA" /\ Cardinality(DOMAIN Gathered(a, m)) = m.tot
                 /\ result'[a] = Answer(TextOf(Gathered(a, m), m.tot))
      <4>1. PICK m \in Held(toClient[a]) :
                 /\ m.type = "DATA" /\ Cardinality(DOMAIN Gathered(a, m)) = m.tot
                 /\ result'[a] = Answer(TextOf(Gathered(a, m), m.tot))
        BY <3>3
      <4> PICK text : text = TextOf(Gathered(a, m), m.tot)
        OBVIOUS
      <4>2. /\ text = [i \in 1..scenario.answer |-> text[i]]
            /\ \A i \in 1..scenario.answer : IsPieceRead(a, i, text[i])
        BY <1>4, <4>1, TextOfPieces
      <4>3. result'[a].text = text
        BY <4>1 DEF Answer
      <4>4. \A i \in 1..scenario.answer : IsPieceRead(a, i, text[i])'
        BY <4>2, PartsStay
      <4> QED
        BY <1>1, <4>2, <4>3, <4>4 DEF AnswersReturned
    <3> QED
      BY <3>1, <3>2, <3>3, ClientCollects
  <2> QED
    BY <1>2, <1>4, <2>1, <2>2
<1> QED
  BY <1>3, <1>4

LEMMA AnswersStayOwned ==
  ASSUME TransportInv, OwnershipInv, AnswersOwned, [TransportNext]_vars
  PROVE  AnswersOwned'
<1> SUFFICES ASSUME Unmixed', NEW b \in Clients
             PROVE  (AnswersSent(b) /\ AnswersCollected(b) /\ AnswersReturned(b))'
  BY DEF AnswersOwned
<1>1. Unmixed /\ scenario' = scenario
  BY StepCounts
<1>2. AnswersSent(b) /\ AnswersCollected(b) /\ AnswersReturned(b)
  BY <1>1 DEF AnswersOwned
<1>3. CASE \E a \in Clients : ClientStep(a)
  BY <1>2, <1>3, ClientAnswersOwned
<1>4. CASE ServerTurn \/ NetworkStep
  <2>1. UNCHANGED <<incoming, result>>
    <3>1. CASE ServerTurn
      BY <3>1 DEF ServerTurn, clientVars
    <3>2. CASE NetworkStep
      BY <3>2 DEF NetworkStep, Lose, Delay, Repeat, Disturb, DamageToServer,
         DamageToClient, NetworkFault, RestartServer, TimePasses, Fault, clientVars, vars
    <3> QED
      BY <1>4, <3>1, <3>2
  <2>2. (AnswersCollected(b) /\ AnswersReturned(b))'
    BY <1>1, <1>2, <2>1, PartsStay DEF AnswersCollected, AnswersReturned
  <2>3. \A d \in Held(toClient'[b]) : d.type = "DATA" => IsAnswerSegment(b, d)
    <3>1. CASE ServerTurn
      <4>1. PICK a \in Clients, m \in Incoming, lap \in Laps, reply \in Responses \cup {NoReply} :
              FromClient(a, m) /\ TurnOf(a, m, lap, reply)
        BY <3>1, TurnTaken
      <4>2. \A d \in Held(sent') : d.type = "DATA" => IsAnswerSegment(a, d)
        BY <1>1, <4>1, TurnAnswers
      <4> QED
        BY <1>2, <4>1, <4>2, TurnNetwork DEF AnswersSent
    <3>2. CASE Lose \/ Delay \/ Repeat
      BY <1>2, <3>2, DisturbRearranges DEF Rearranged, AnswersSent
    <3>3. CASE DamageToClient
      <4>1. PICK a \in Clients : \E q \in Held(toClient[a]) :
               /\ q.type = "DATA" /\ q \in ToClientTypes
               /\ \A d \in Held(toClient'[a]) : d \in Held(toClient[a]) \/ d = Spoilt(q)
               /\ \A e \in Clients \ {a} : toClient'[e] = toClient[e]
        BY <3>3, DamageToClientHeld
      <4>2. PICK q \in Held(toClient[a]) :
               /\ q.type = "DATA" /\ q \in ToClientTypes
               /\ \A d \in Held(toClient'[a]) : d \in Held(toClient[a]) \/ d = Spoilt(q)
               /\ \A e \in Clients \ {a} : toClient'[e] = toClient[e]
        BY <4>1
      <4>3. /\ Spoilt(q).seq = q.seq /\ Spoilt(q).tot = q.tot /\ Spoilt(q).payload = q.payload
        BY <4>2, SpoiltTypes DEF ToClientTypes
      <4>4. b = a => IsAnswerSegment(b, q) /\ IsAnswerSegment(b, Spoilt(q))
        BY <1>2, <4>2, <4>3 DEF AnswersSent, IsAnswerSegment
      <4> QED
        BY <1>2, <4>2, <4>4 DEF AnswersSent
    <3>4. CASE DamageToServer \/ RestartServer \/ TimePasses \/ UNCHANGED vars
      BY <1>2, <3>4 DEF DamageToServer, RestartServer, TimePasses, network, vars, AnswersSent
    <3> QED
      BY <1>4, <3>1, <3>2, <3>3, <3>4 DEF NetworkStep
  <2>4. AnswersSent(b)'
    BY <2>3, PartsStay DEF AnswersSent
  <2> QED
    BY <2>2, <2>4
<1> QED
  BY <1>3, <1>4, TransportSteps DEF NetworkStep

-----------------------------------------------------------------------------
(* In the answer to a first call, a piece that is not the one the server sent was
   damaged on its way. *)
LEMMA ChangedTypes ==
  ASSUME ScenarioOK, NEW a \in Clients
  PROVE  /\ Changed(a) \subseteq 1..scenario.answer
         /\ IsFiniteSet(Changed(a)) /\ Cardinality(Changed(a)) \in Nat
<1>1. Changed(a) \in SUBSET (1..scenario.answer)
  BY DEF Changed
<1>2. IsFiniteSet(1..scenario.answer)
  BY ScenarioTypes, FS_Interval
<1> QED
  BY <1>1, <1>2, FS_Subset, FS_CardinalityType

(* A piece the client reads differs from the one sent only if it is damaged. *)
LEMMA GatheredChanged ==
  ASSUME TransportInv, FirstCalls, NEW a \in Clients, NEW m \in Held(toClient[a]),
         m.type = "DATA", AnswersSent(a), NEW i \in 1..scenario.answer,
         i - 1 \in DOMAIN Gathered(a, m), Gathered(a, m)[i - 1] # AnswerPart(a, 1, i)
  PROVE  i \in Changed(a)
<1>1. CASE i - 1 # m.seq
  BY <1>1 DEF Gathered, Put, Changed
<1>2. CASE i - 1 = m.seq
  <2>1. PICK k \in 1..calls[a] : m.payload = AnswerPart(a, k, m.seq + 1)
    BY DEF AnswersSent, IsAnswerSegment, IsAnswerPart
  <2>2. k = 1 /\ m.seq + 1 = i
    <3>1. calls[a] \in Nat /\ calls[a] <= 1
      BY TransportAssumption DEF FirstCalls, TransportInv, ProcessesOK, ProcessTypes
    <3>2. k = 1
      BY <3>1
    <3>3. (i - 1) + 1 = i
      BY ScenarioTypes DEF TransportInv
    <3> QED
      BY <1>2, <3>2, <3>3
  <2>3. PayloadRead(m) # m.payload
    BY <1>2, <2>1, <2>2 DEF Gathered, Put
  <2>4. ~ m.intact
    BY <2>3 DEF PayloadRead
  <2> QED
    BY <1>2, <2>4 DEF Changed
<1> QED
  BY <1>1, <1>2

LEMMA ClientChanges ==
  ASSUME TransportInv, [TransportNext]_vars, Unmixed', FirstCalls', AnswersOwned,
         NEW a \in Clients, ClientStep(a), NEW b \in Clients
  PROVE  Changed(b)' \subseteq Changed(b)
<1>1. /\ scenario' = scenario /\ FirstCalls
      /\ AnswersSent(b) /\ AnswersCollected(b) /\ AnswersReturned(b)
  BY StepCounts DEF AnswersOwned
<1>2. Held(toClient'[b]) \subseteq Held(toClient[b])
  BY ClientStepFrame
<1> SUFFICES ASSUME NEW i \in Changed(b)' PROVE i \in Changed(b)
  OBVIOUS
<1>3. i \in 1..scenario.answer
  BY <1>1 DEF Changed
<1>4. AnswerPart(b, 1, i)' = AnswerPart(b, 1, i)
  BY DEF AnswerPart, Chunk
<1>5. CASE \E d \in Held(toClient'[b]) : d.type = "DATA" /\ d.seq = i - 1 /\ ~ d.intact
  BY <1>2, <1>3, <1>5 DEF Changed
<1>6. CASE i - 1 \in DOMAIN incoming'[b] /\ incoming'[b][i - 1] # AnswerPart(b, 1, i)
  <2>1. CASE incoming'[b] = incoming[b]
    BY <1>3, <1>6, <2>1 DEF Changed
  <2>2. CASE incoming'[b] = EmptyMap
    BY <1>6, <2>2 DEF EmptyMap
  <2>3. CASE b = a /\ \E m \in Held(toClient[a]) : m.type = "DATA" /\ incoming'[a] = Gathered(a, m)
    BY <1>1, <1>3, <1>6, <2>3, GatheredChanged
  <2>4. b # a => incoming'[b] = incoming[b]
    BY ClientStepKeeps DEF ClientStepOK, OthersUnchanged
  <2> QED
    BY <2>1, <2>2, <2>3, <2>4, ClientCollects
<1>7. CASE result'[b].kind = "answer" /\ result'[b].text[i] # AnswerPart(b, 1, i)
  <2>1. CASE result'[b] = result[b]
    BY <1>3, <1>7, <2>1 DEF Changed
  <2>2. CASE b = a /\ \E m \in Held(toClient[a]) :
               /\ m.type = "DATA" /\ Cardinality(DOMAIN Gathered(a, m)) = m.tot
               /\ result'[a] = Answer(TextOf(Gathered(a, m), m.tot))
    <3>1. PICK m \in Held(toClient[a]) :
               /\ m.type = "DATA" /\ Cardinality(DOMAIN Gathered(a, m)) = m.tot
               /\ result'[a] = Answer(TextOf(Gathered(a, m), m.tot))
      BY <2>2
    <3>2. result'[a].text = TextOf(Gathered(a, m), m.tot)
      BY <3>1 DEF Answer
    <3>3. /\ i - 1 \in DOMAIN Gathered(a, m)
          /\ TextOf(Gathered(a, m), m.tot)[i] = Gathered(a, m)[i - 1]
      BY <1>1, <1>3, <2>2, <3>1, TextOfPieces
    <3>4. Gathered(a, m)[i - 1] # AnswerPart(a, 1, i)
      BY <1>7, <2>2, <3>2, <3>3
    <3> QED
      BY <1>1, <1>3, <2>2, <3>1, <3>3, <3>4, GatheredChanged
  <2>3. b # a => result'[b] = result[b]
    BY ClientStepKeeps DEF ClientStepOK, OthersUnchanged
  <2> QED
    BY <1>7, <2>1, <2>2, <2>3, ClientCollects
<1> QED
  BY <1>4, <1>5, <1>6, <1>7 DEF Changed

(* The server sends no damaged segment, and only damage spoils one on its way. *)
LEMMA TurnChanges ==
  ASSUME TransportInv, [TransportNext]_vars, OwnershipInv, Unmixed, ServerTurn, NEW b \in Clients
  PROVE  Changed(b)' \subseteq Changed(b)
<1>1. PICK a \in Clients, m \in Incoming, lap \in Laps, reply \in Responses \cup {NoReply} :
        FromClient(a, m) /\ TurnOf(a, m, lap, reply)
  BY TurnTaken
<1>2. UNCHANGED <<incoming, result, scenario>>
  BY <1>1 DEF TurnOf, clientVars
<1>3. \A d \in Held(sent') : d.type = "DATA" => d.intact
  BY <1>1, TurnAnswers
<1>4. \A d \in Held(toClient'[b]) : d \in Held(toClient[b]) \/ d \in Held(sent')
  BY <1>1, TurnNetwork
<1>5. \A i : AnswerPart(b, 1, i)' = AnswerPart(b, 1, i)
  BY DEF AnswerPart, Chunk
<1> QED
  BY <1>2, <1>3, <1>4, <1>5 DEF Changed

LEMMA NetworkChanges ==
  ASSUME TransportInv, [TransportNext]_vars, NetworkStep, NEW b \in Clients
  PROVE  \/ Changed(b)' \subseteq Changed(b)
         \/ DamageToClient /\ \E i : Changed(b)' \subseteq Changed(b) \cup {i}
<1>1. UNCHANGED <<incoming, result, scenario>>
  BY StepCounts DEF NetworkStep, Lose, Delay, Repeat, Disturb, DamageToServer,
     DamageToClient, NetworkFault, RestartServer, TimePasses, Fault, clientVars, vars
<1>2. \A i : AnswerPart(b, 1, i)' = AnswerPart(b, 1, i)
  BY DEF AnswerPart, Chunk
<1>3. CASE Held(toClient'[b]) \subseteq Held(toClient[b])
  BY <1>1, <1>2, <1>3 DEF Changed
<1>4. CASE DamageToClient
  <2>1. PICK a \in Clients : \E q \in Held(toClient[a]) :
           /\ q.type = "DATA" /\ q \in ToClientTypes
           /\ \A d \in Held(toClient'[a]) : d \in Held(toClient[a]) \/ d = Spoilt(q)
           /\ \A e \in Clients \ {a} : toClient'[e] = toClient[e]
    BY <1>4, DamageToClientHeld
  <2>2. PICK q \in Held(toClient[a]) :
           /\ q.type = "DATA" /\ q \in ToClientTypes
           /\ \A d \in Held(toClient'[a]) : d \in Held(toClient[a]) \/ d = Spoilt(q)
           /\ \A e \in Clients \ {a} : toClient'[e] = toClient[e]
    BY <2>1
  <2>3. Spoilt(q).seq = q.seq /\ q.seq \in Nat
    <3>1. q.seq \in Nat
      BY <2>2 DEF ToClientTypes, Datagram
    <3> QED
      BY <2>2, <3>1, SpoiltTypes DEF ToClientTypes
  <2> DEFINE place == q.seq + 1
  <2>4. ASSUME NEW i \in 1..scenario.answer, q.seq = i - 1 PROVE i = place
    BY <2>3, <2>4, ScenarioTypes DEF TransportInv
  <2>5. \A d \in Held(toClient'[b]) : d \in Held(toClient[b]) \/ d = Spoilt(q)
    BY <2>2
  <2> HIDE DEF place
  <2>6. Changed(b)' \subseteq Changed(b) \cup {place}
    BY <1>1, <1>2, <2>3, <2>4, <2>5 DEF Changed
  <2> QED
    BY <1>4, <2>6
<1>5. CASE Lose \/ Delay \/ Repeat
  BY <1>3, <1>5, DisturbRearranges DEF Rearranged
<1>6. CASE DamageToServer \/ RestartServer \/ TimePasses \/ UNCHANGED vars
  BY <1>3, <1>6 DEF DamageToServer, RestartServer, TimePasses, network, vars
<1> QED
  BY <1>4, <1>5, <1>6 DEF NetworkStep

LEMMA OneMore ==
  ASSUME NEW S, IsFiniteSet(S), NEW i
  PROVE  /\ IsFiniteSet(S \cup {i})
         /\ Cardinality(S \cup {i}) <= Cardinality(S) + 1
         /\ Cardinality(S \cup {i}) \in Nat
<1>1. Cardinality(S) \in Nat /\ IsFiniteSet(S \cup {i})
  BY FS_CardinalityType, FS_AddElement
<1>2. Cardinality(S \cup {i}) \in {Cardinality(S), Cardinality(S) + 1}
  BY FS_AddElement
<1> QED
  BY <1>1, <1>2

(* Every piece of a first answer that was changed has cost one fault. *)
LEMMA DamageStaysCounted ==
  ASSUME TransportInv, OwnershipInv, AnswersOwned, DamageCounted, [TransportNext]_vars
  PROVE  DamageCounted'
<1> SUFFICES ASSUME Unmixed', FirstCalls', NEW b \in Clients
             PROVE  Cardinality(Changed(b)') <= scenario'.budget["damage"] - faults'["damage"]
  BY DEF DamageCounted
<1>1. /\ Unmixed /\ FirstCalls /\ scenario' = scenario
      /\ "damage" \in FaultKinds /\ faults'["damage"] <= faults["damage"]
  BY StepCounts DEF FaultKinds
<1>2. Cardinality(Changed(b)) <= scenario.budget["damage"] - faults["damage"]
  BY <1>1 DEF DamageCounted
<1>3. /\ faults["damage"] \in Nat /\ faults'["damage"] \in Nat
      /\ scenario.budget["damage"] \in Nat
  BY <1>1, NextTransportInv, ScenarioTypes DEF TransportInv, ScenarioOK
<1>4. /\ IsFiniteSet(Changed(b)) /\ Cardinality(Changed(b)) \in Nat
  BY ChangedTypes DEF TransportInv
<1>5. CASE Changed(b)' \subseteq Changed(b)
  <2>1. Cardinality(Changed(b)') <= Cardinality(Changed(b)) /\ Cardinality(Changed(b)') \in Nat
    BY <1>4, <1>5, FS_Subset, FS_CardinalityType
  <2> QED
    BY <1>1, <1>2, <1>3, <1>4, <2>1
<1>6. CASE DamageToClient /\ \E i : Changed(b)' \subseteq Changed(b) \cup {i}
  <2>1. PICK i : Changed(b)' \subseteq Changed(b) \cup {i}
    BY <1>6
  <2>2. /\ IsFiniteSet(Changed(b) \cup {i})
        /\ Cardinality(Changed(b) \cup {i}) <= Cardinality(Changed(b)) + 1
        /\ Cardinality(Changed(b) \cup {i}) \in Nat
    BY <1>4, OneMore, ZenonT(60)
  <2>3. /\ Cardinality(Changed(b)') <= Cardinality(Changed(b) \cup {i})
        /\ Cardinality(Changed(b)') \in Nat
    BY <2>1, <2>2, FS_Subset, FS_CardinalityType
  <2>4. faults'["damage"] = faults["damage"] - 1
    <3>1. faults' = [faults EXCEPT !["damage"] = @ - 1] /\ faults \in [FaultKinds -> Nat]
      BY <1>6 DEF DamageToClient, NetworkFault, Fault, TransportInv, ScenarioOK
    <3> QED
      BY <1>1, <3>1
  <2> QED
    BY <1>1, <1>2, <1>3, <1>4, <2>2, <2>3, <2>4
<1>7. Changed(b)' \subseteq Changed(b)
      \/ (DamageToClient /\ \E i : Changed(b)' \subseteq Changed(b) \cup {i})
  BY <1>1, ClientChanges, TurnChanges, NetworkChanges, TransportSteps DEF NetworkStep
<1> QED
  BY <1>5, <1>6, <1>7

(* The text a first call returns is the answer to it, segment by segment, but for as
   many damaged segments as the network damaged: under any losses, repetitions and
   delays, and under restarts too for messages of one segment or one client
   (receiveResponse, udp_client.cpp:247). *)
THEOREM TransportTextsAreAnswers ==
  TransportSpec => [](Unmixed /\ FirstCalls => TextsAreAnswers)
<1>1. TransportInit => AnswersOwned /\ DamageCounted
  <2> SUFFICES ASSUME TransportInit PROVE AnswersOwned /\ DamageCounted
    OBVIOUS
  <2>1. \A a \in Clients : /\ incoming[a] = EmptyMap /\ result[a].kind = "pending"
                           /\ Held(toClient[a]) = {} /\ DOMAIN EmptyMap = {}
    BY DEF TransportInit, ClientInit, Outcome, Held, EmptyMap
  <2>2. AnswersOwned
    BY <2>1 DEF AnswersOwned, AnswersSent, AnswersCollected, AnswersReturned
  <2>3. \A a \in Clients : Changed(a) = {}
    BY <2>1 DEF Changed
  <2>4. /\ faults = scenario.budget /\ scenario.budget["damage"] \in Nat
        /\ Cardinality({}) = 0
    BY InitTransportInv, ScenarioTypes, FS_EmptySet DEF TransportInit, TransportInv, FaultKinds
  <2>5. DamageCounted
    BY <2>3, <2>4 DEF DamageCounted
  <2> QED
    BY <2>2, <2>5
<1>2. /\ TransportInv /\ OwnershipInv /\ AnswersOwned /\ DamageCounted
      /\ [TransportNext]_vars
      => AnswersOwned' /\ DamageCounted'
  BY AnswersStayOwned, DamageStaysCounted
<1>3. TransportInv /\ AnswersOwned /\ DamageCounted =>
        (Unmixed /\ FirstCalls => TextsAreAnswers)
  <2> SUFFICES ASSUME TransportInv, AnswersOwned, DamageCounted, Unmixed, FirstCalls,
                      NEW a \in Clients, result[a].kind = "answer"
               PROVE  LET text == result[a].text
                          reply == AnswerTo(Message(a, calls[a]))
                          changed == {i \in DOMAIN text : text[i] # reply[i]}
                      IN /\ DOMAIN text = DOMAIN reply
                         /\ \A i \in changed : text[i] = Damaged(reply[i])
                         /\ Cardinality(changed) <= scenario.budget["damage"] - faults["damage"]
    BY DEF TextsAreAnswers
  <2> DEFINE text    == result[a].text
             reply   == AnswerTo(Message(a, calls[a]))
             changed == {i \in DOMAIN text : text[i] # reply[i]}
  <2>1. /\ text = [i \in 1..scenario.answer |-> text[i]]
        /\ DOMAIN text = 1..scenario.answer
        /\ \A i \in 1..scenario.answer : IsPieceRead(a, i, text[i])
    BY DEF AnswersOwned, AnswersReturned
  <2>2. calls[a] \in Nat /\ calls[a] <= 1 /\ scenario.answer \in Nat \ {0}
        /\ scenario.request \in Nat \ {0}
    BY TransportAssumption, ScenarioTypes DEF FirstCalls, TransportInv, ProcessesOK, ProcessTypes
  <2>3. \A i \in 1..scenario.answer :
          text[i] = AnswerPart(a, 1, i) \/ text[i] = Damaged(AnswerPart(a, 1, i))
    BY <2>1, <2>2 DEF IsPieceRead
  <2>4. calls[a] = 1
    <3>1. 1 \in 1..scenario.answer
      BY <2>2
    <3>2. \E k \in 1..calls[a] : TRUE
      BY <2>1, <3>1 DEF IsPieceRead
    <3> QED
      BY <2>2, <3>2
  <2>5. reply = [i \in 1..scenario.answer |-> AnswerPart(a, 1, i)]
    <3>1. Message(a, calls[a])[1] = Chunk(a, 1, 1)
      BY <2>2, <2>4 DEF Message, RequestOf
    <3> QED
      BY <3>1 DEF AnswerTo, AnswerOf, AnswerPart
  <2>6. changed \in SUBSET Changed(a)
    BY <2>1, <2>5 DEF Changed
  <2>7. IsFiniteSet(Changed(a)) /\ Cardinality(Changed(a)) \in Nat
        /\ Cardinality(Changed(a)) <= scenario.budget["damage"] - faults["damage"]
    BY ChangedTypes DEF TransportInv, DamageCounted
  <2>8. scenario.budget["damage"] - faults["damage"] \in Int
    BY ScenarioTypes DEF TransportInv, ScenarioOK, FaultKinds
  <2>9. \A i \in changed : text[i] = Damaged(reply[i])
    BY <2>1, <2>3, <2>5
  <2>10. DOMAIN text = DOMAIN reply
    BY <2>1, <2>5
  <2> HIDE DEF changed
  <2>11. Cardinality(changed) <= Cardinality(Changed(a)) /\ Cardinality(changed) \in Nat
    BY <2>6, <2>7, FS_Subset, FS_CardinalityType
  <2>12. Cardinality(changed) <= scenario.budget["damage"] - faults["damage"]
    BY <2>7, <2>8, <2>11
  <2> QED
    BY <2>9, <2>10, <2>12 DEF changed
<1> QED
  BY <1>1, <1>2, <1>3, TransportInvariant, OwnershipInvariant, PTL DEF TransportSpec

(* A first call that returns a text returns the answer to its own message, as long
   as no datagram was damaged. *)
THEOREM TransportAnswersMatch ==
  TransportSpec => []( /\ Unmixed /\ FirstCalls
                       /\ faults["damage"] = scenario.budget["damage"]
                       => AnswersMatch )
<1>1. /\ TransportInv /\ AnswersOwned
      /\ (Unmixed /\ FirstCalls => TextsAreAnswers)
      => ( /\ Unmixed /\ FirstCalls
           /\ faults["damage"] = scenario.budget["damage"]
           => AnswersMatch )
  <2> SUFFICES ASSUME TransportInv, AnswersOwned, TextsAreAnswers, Unmixed,
                      faults["damage"] = scenario.budget["damage"],
                      NEW a \in Clients, result[a].kind = "answer"
               PROVE  result[a].text = AnswerTo(Message(a, calls[a]))
    BY DEF AnswersMatch
  <2> DEFINE text    == result[a].text
             reply   == AnswerTo(Message(a, calls[a]))
             changed == {i \in DOMAIN text : text[i] # reply[i]}
  <2>1. /\ DOMAIN text = DOMAIN reply
        /\ Cardinality(changed) <= scenario.budget["damage"] - faults["damage"]
    BY DEF TextsAreAnswers
  <2>2. text = [i \in 1..scenario.answer |-> text[i]]
    BY DEF AnswersOwned, AnswersReturned
  <2>3. changed \in SUBSET (1..scenario.answer)
    BY <2>2
  <2>4. scenario.answer \in Int /\ scenario.budget["damage"] - faults["damage"] = 0
    BY ScenarioTypes DEF TransportInv, FaultKinds
  <2> HIDE DEF changed
  <2>5. IsFiniteSet(1..scenario.answer)
    BY <2>4, FS_Interval
  <2>6. IsFiniteSet(changed) /\ Cardinality(changed) \in Nat
    BY <2>3, <2>5, FS_Subset, FS_CardinalityType
  <2>7. Cardinality(changed) = 0
    BY <2>1, <2>4, <2>6
  <2>8. changed = {}
    BY <2>6, <2>7, FS_EmptySet
  <2>9. \A i \in 1..scenario.answer : text[i] = reply[i]
    BY <2>2, <2>8 DEF changed
  <2>10. reply = [i \in 1..scenario.answer |-> reply[i]]
    BY <2>1, <2>2 DEF AnswerTo, AnswerOf
  <2> QED
    BY <2>2, <2>9, <2>10
<1>2. TransportSpec => []AnswersOwned
  <2>1. TransportInit => AnswersOwned
    BY DEF TransportInit, ClientInit, Outcome, Held, EmptyMap, AnswersOwned, AnswersSent,
           AnswersCollected, AnswersReturned
  <2> QED
    BY <2>1, AnswersStayOwned, TransportInvariant, OwnershipInvariant, PTL DEF TransportSpec
<1> QED
  BY <1>1, <1>2, TransportInvariant, TransportTextsAreAnswers, PTL

=============================================================================
