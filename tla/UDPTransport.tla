----------------------------- MODULE UDPTransport -----------------------------
(* Clients and server of the transport joined by the network.

   The network keeps the order of the datagrams between two processes, except
   that, within the budget of the scenario, it may lose a datagram, deliver it
   late or twice, or change the bytes of a DATA datagram; the server process may
   be started anew.  The messages are numbered so that a request and its answer
   can be recognised: the k-th message of client a is Message(a, k), and the
   application (external here) answers every message it is handed once, naming
   the first chunk of the message: the route is looked up in its first bytes. *)
EXTENDS UDPServer, UDPClient

CONSTANTS
  MaxCalls,         \* bound: sendMessage calls per client
  Patient,          \* TRUE: a wait expires only if nothing for it is on its way
  Scenarios         \* the circumstances clients and server may find: see Scenario

(* A pause is a second that passes while the server waits for datagrams. *)
FaultKinds == {"loss", "damage", "delay", "repetition", "pause", "restart"}

(* The segments of a request and of an answer, and how many faults of each kind
   may happen. *)
Scenario == [request : Nat \ {0}, answer : Nat \ {0}, budget : [FaultKinds -> Nat]]

ASSUME TransportAssumption ==
  MaxCalls \in Nat /\ Patient \in BOOLEAN /\ Scenarios \subseteq Scenario

VARIABLES
  scenario,     \* the one of this behaviour
  toServer,     \* datagrams on the way to the server, with their senders
  toClient,     \* datagrams on the way to each client or in its socket buffer
  calls,        \* how many sendMessage calls each client has made
  executed,     \* how often each message was handed to the application
  faults        \* what is left of the budget

network == <<toServer, toClient>>
vars == <<serverVars, clientVars, network, calls, executed, faults, scenario>>

Chunk(a, k, i) == [client |-> a, call |-> k, part |-> i]

RequestOf(s, a, k) == [i \in 1..s.request |-> Chunk(a, k, i)]

AnswerOf(s, message) == [i \in 1..s.answer |-> [answers |-> message[1], part |-> i]]

Message(a, k) == RequestOf(scenario, a, k)

AnswerTo(message) == AnswerOf(scenario, message)

(* What Messages, Responses and Payloads of UDPServer are here. *)
Requests ==
  {RequestOf(s, a, k) : s \in Scenarios, a \in Clients, k \in 1..MaxCalls}

TransportAnswers == {AnswerOf(s, req) : s \in Scenarios, req \in Requests}

TransportChunks ==
  UNION {{msg[i] : i \in DOMAIN msg} : msg \in Requests \cup TransportAnswers}

(* The server is the one of UDPServer, for at least these messages and answers. *)
ASSUME WiringAssumption ==
  Requests \subseteq Messages /\ TransportAnswers \subseteq Responses

TransportInit ==
  /\ ServerInit /\ ClientInit
  /\ toServer = <<>>
  /\ toClient = [a \in Clients |-> <<>>]
  /\ calls = [a \in Clients |-> 0]
  /\ executed = EmptyMap
  /\ scenario \in Scenarios
  /\ faults = scenario.budget

-----------------------------------------------------------------------------
From(a, datagrams) ==
  [i \in 1..Len(datagrams) |-> [from |-> a, datagram |-> datagrams[i]]]

Count(message) == IF message \in DOMAIN executed THEN executed[message] ELSE 0

Replies == {NoReply} \cup {AnswerTo(Message(a, k)) : a \in Clients, k \in 1..MaxCalls}

(* One turn of the server's loop; its answers go back to the sender's address. *)
ServerTurn ==
  /\ toServer # <<>>
  /\ \E lap \in Laps, reply \in Replies :
       /\ HandleClientMessage(Head(toServer).datagram, lap, reply)
       /\ reply = IF dispatched' = <<>> THEN NoReply
                                        ELSE AnswerTo(dispatched'[1].message)
  /\ toServer' = Tail(toServer)
  /\ toClient' = [toClient EXCEPT ![Head(toServer).from] = @ \o sent']
  /\ executed' = IF dispatched' = <<>> THEN executed
                 ELSE LET message == dispatched'[1].message IN
                      Put(executed, message, Count(message) + 1)
  /\ UNCHANGED <<clientVars, calls, faults, scenario>>

(* What a client sends joins the datagrams on the way to the server. *)
ClientSends(a) ==
  /\ toServer' = toServer \o From(a, sent')
  /\ dispatched' = <<>>
  /\ UNCHANGED <<now, nextId, managers, alive, executed, faults, scenario>>

Construct(a) ==
  PerformHandshake(a) /\ ClientSends(a) /\ UNCHANGED <<toClient, calls>>

Call(a) ==
  /\ calls[a] < MaxCalls
  /\ calls' = [calls EXCEPT ![a] = @ + 1]
  /\ SendMessage(a, Message(a, calls[a] + 1))
  /\ ClientSends(a) /\ UNCHANGED toClient

Receive(a) ==
  /\ toClient[a] # <<>>
  /\ Take(a, Head(toClient[a]))
  /\ toClient' = [toClient EXCEPT ![a] = Tail(@)]
  /\ ClientSends(a) /\ UNCHANGED calls

NothingOnItsWay(a) ==
  /\ toClient[a] = <<>>
  /\ \A i \in DOMAIN toServer : toServer[i].from # a

GiveUpWaiting(a) ==
  /\ Patient => NothingOnItsWay(a)
  /\ Expire(a)
  /\ ClientSends(a) /\ UNCHANGED <<toClient, calls>>

-----------------------------------------------------------------------------
Fault(kind) ==
  /\ faults[kind] > 0
  /\ faults' = [faults EXCEPT ![kind] = @ - 1]
  /\ UNCHANGED <<clientVars, calls, executed, scenario>>

NetworkFault(kind) ==
  Fault(kind) /\ Says(<<>>, <<>>) /\ UNCHANGED <<now, nextId, managers, alive>>

Without(seq, i) == SubSeq(seq, 1, i - 1) \o SubSeq(seq, i + 1, Len(seq))

Behind(seq, i) == Append(Without(seq, i), seq[i])

Repeated(seq, i) == Append(seq, seq[i])

(* The i-th of the datagrams on their way to one process. *)
Disturb(kind, Effect(_, _)) ==
  /\ NetworkFault(kind)
  /\ \/ /\ \E i \in DOMAIN toServer : toServer' = Effect(toServer, i)
        /\ UNCHANGED toClient
     \/ /\ \E a \in Clients : \E i \in DOMAIN toClient[a] :
             toClient' = [toClient EXCEPT ![a] = Effect(@, i)]
        /\ UNCHANGED toServer

Lose == Disturb("loss", Without)

Delay == Disturb("delay", Behind)

Repeat == Disturb("repetition", Repeated)

DamageToServer ==
  /\ NetworkFault("damage")
  /\ \E i \in DOMAIN toServer :
       /\ toServer[i].datagram.type = "DATA"
       /\ toServer' = [toServer EXCEPT ![i].datagram.intact = FALSE]
  /\ UNCHANGED toClient

DamageToClient ==
  /\ NetworkFault("damage")
  /\ \E a \in Clients : \E i \in DOMAIN toClient[a] :
       /\ toClient[a][i].type = "DATA"
       /\ toClient' = [toClient EXCEPT ![a][i].intact = FALSE]
  /\ UNCHANGED toServer

RestartServer == Fault("restart") /\ Restart /\ UNCHANGED network

TimePasses == Fault("pause") /\ Tick /\ UNCHANGED network

(* All calls are made and have ended; late datagrams may still be on their way. *)
AllDone ==
  \A a \in Clients : pc[a] = "closed" \/ (pc[a] = "idle" /\ calls[a] = MaxCalls)

Rest == AllDone /\ toServer = <<>> /\ UNCHANGED vars

TransportNext ==
  \/ ServerTurn
  \/ \E a \in Clients : Construct(a) \/ Call(a) \/ Receive(a) \/ GiveUpWaiting(a)
  \/ Lose \/ Delay \/ Repeat
  \/ DamageToServer \/ DamageToClient
  \/ RestartServer
  \/ TimePasses
  \/ Rest

TransportSpec == TransportInit /\ [][TransportNext]_vars

(* The server is scheduled, and a blocked client wakes up: for a datagram, or
   because its wait expires. *)
TransportFairness ==
  /\ WF_vars(ServerTurn)
  /\ \A a \in Clients : WF_vars(Receive(a) \/ GiveUpWaiting(a))

FairTransportSpec == TransportSpec /\ TransportFairness

-----------------------------------------------------------------------------
(* Every variable of clients and network keeps its type. *)
TransportTypeOK ==
  /\ pc \in [Clients -> Places]
  /\ clientId \in [Clients -> ClientIds \cup {NoId}]
  /\ scenario \in Scenarios
  /\ acked \in [Clients -> 0..scenario.request]
  /\ resends \in [Clients -> 0..MaxResends]
  /\ calls \in [Clients -> 0..MaxCalls]
  /\ \A a \in Clients : Len(outgoing[a]) \in {0, scenario.request}
  /\ faults \in [FaultKinds -> Nat]
  /\ \A i \in DOMAIN toServer : toServer[i].from \in Clients

(* The last call of a client, if it returned a text, returned the answer to its
   own message and not a late answer to an earlier one (nothing in the answer
   says what it answers, see receiveResponse, udp_client.cpp:247). *)
AnswersMatch ==
  \A a \in Clients : result[a].kind = "answer" =>
    result[a].text = AnswerTo(Message(a, calls[a]))

(* Whatever is lost, damaged, late or repeated, and with a server that forgot
   everything: the text that the only call of a client returns has all segments of
   the answer to it, each in its place, and none is another one for any reason but
   that the network changed its bytes (receiveResponse, udp_client.cpp:247). *)
TextsAreAnswers ==
  \A a \in Clients : result[a].kind = "answer" =>
    LET text == result[a].text
        reply == AnswerTo(Message(a, calls[a]))
        changed == {i \in DOMAIN text : text[i] # reply[i]}
    IN /\ DOMAIN text = DOMAIN reply
       /\ \A i \in changed : text[i] = Damaged(reply[i])
       /\ Cardinality(changed) <= scenario.budget["damage"] - faults["damage"]

(* What a call returns was not changed on its way: the client checks the integrity
   of the segments before it joins them (README.md:172), so that no changed segment
   gets into the answer (README.md:80). *)
AnswersAreIntact ==
  \A a \in Clients : result[a].kind = "answer" =>
    LET reply == AnswerTo(Message(a, calls[a])) IN
    \A i \in DOMAIN result[a].text :
      result[a].text[i] \notin {Damaged(reply[n]) : n \in DOMAIN reply}

(* The application is handed only messages that some client sent, never one put
   together from segments of two messages (connection_manager.cpp:30). *)
OnlyWholeRequests == DOMAIN executed \subseteq Requests

(* Two clients never use the same id (generateClientId, udp_server.cpp:233). *)
IdsAreDistinct ==
  \A a, b \in Clients : a # b /\ clientId[a] # NoId => clientId[a] # clientId[b]

(* No call of sendMessage, nor the constructor, blocks for ever. *)
CallsEnd == \A a \in Clients : Waiting(a) ~> ~ Waiting(a)

Faultless == \A kind \in FaultKinds : scenario.budget[kind] = 0

(* Over a network without faults every call of sendMessage returns a text, also of
   the first call, which the server answers with a handshake (sendAndReceiveAck,
   udp_client.cpp:157). *)
CallsAnswered ==
  \A a \in Clients :
    Faultless /\ pc[a] = "awaitAck" ~> result[a].kind = "answer"

-----------------------------------------------------------------------------
(* The state of RequestResponse. *)
CallStatus ==
  [a \in Clients |-> IF pc[a] \in {"awaitAck", "awaitResponse"} THEN "called"
                     ELSE IF result[a].kind = "answer" THEN "answered" ELSE "free"]

Executions == [a \in Clients |-> [k \in 1..MaxCalls |-> Count(Message(a, k))]]

MostExecutions == IF scenario.budget["loss"] = 0 THEN 1 ELSE MaxResends + 1

Calls == INSTANCE RequestResponse WITH
  status <- CallStatus, number <- calls, executions <- Executions,
  most <- MostExecutions

(* What the two classes together promise to the caller of sendMessage: its message
   is handled during the call only, at least once when a text is returned, and at
   most once for each time a segment was sent (sendAndReceiveAck,
   udp_client.cpp:152). *)
IsRequestResponse == Calls!Spec
=============================================================================
