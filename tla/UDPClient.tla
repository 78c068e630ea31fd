------------------------------ MODULE UDPClient ------------------------------
(* The client side of the transport: one UDPClient object per element of
   Clients, used by one thread at a time (its users hold socket_mtx around
   sendMessage).  The object is blocked either in recvfrom or in epoll_wait, so a
   step is what happens between two of these waits: the call of an operation,
   the next datagram, or the expiry of the wait.

   Every step sets "sent" to the datagrams it passes to sendto; which of them
   arrive, and what arrives here, is the business of the module that composes
   clients and server. *)
EXTENDS Datagrams, FiniteSets

CONSTANTS
  Clients,      \* the client processes
  NoId,         \* client_id before the handshake
  MaxResends    \* bound: 1-second waits for an ACK before the 10 s are over

ASSUME ResendAssumption == MaxResends \in Nat

VARIABLES
  pc,           \* where the object is: see Places
  clientId,     \* UDPClient::client_id, or NoId
  outgoing,     \* the segments of the current sendMessage
  acked,        \* how many of them have been acknowledged
  resends,      \* expired waits in the current sendMessage
  incoming,     \* receiveResponse: segments of the answer by seq_num
  result        \* how the last sendMessage of a client ended

clientVars == <<pc, clientId, outgoing, acked, resends, incoming, result>>

(* closed: the constructor threw, there is no object. *)
Places == {"new", "awaitInit", "idle", "awaitAck", "awaitResponse", "closed"}

(* sendMessage has not returned, returned a text or nullopt, or threw. *)
Answer(text) == [kind |-> "answer", text |-> text]
Outcome(kind) == [kind |-> kind]

ClientInit ==
  /\ pc = [a \in Clients |-> "new"]
  /\ clientId = [a \in Clients |-> NoId]
  /\ outgoing = [a \in Clients |-> <<>>]
  /\ acked = [a \in Clients |-> 0]
  /\ resends = [a \in Clients |-> 0]
  /\ incoming = [a \in Clients |-> EmptyMap]
  /\ result = [a \in Clients |-> Outcome("pending")]

Goto(a, place) == pc' = [pc EXCEPT ![a] = place]

Emit(datagrams) == sent' = datagrams

Current(a) == outgoing[a][acked[a] + 1]

-----------------------------------------------------------------------------
(* The constructor sends INIT_REQUEST once and takes the next datagram for the
   answer to it. *)
PerformHandshake(a) ==
  /\ pc[a] = "new"
  /\ Goto(a, "awaitInit")
  /\ Emit(<<InitRequest>>)
  /\ UNCHANGED <<clientId, outgoing, acked, resends, incoming, result>>

InitAnswered(a, m) ==
  /\ pc[a] = "awaitInit"
  /\ IF m.type = "HS"
       THEN Goto(a, "idle") /\ clientId' = [clientId EXCEPT ![a] = m.id]
       ELSE Goto(a, "closed") /\ UNCHANGED clientId
  /\ Emit(<<>>)
  /\ UNCHANGED <<outgoing, acked, resends, incoming, result>>

(* SO_RCVTIMEO expires: the constructor throws and does not try again. *)
InitTimeout(a) ==
  /\ pc[a] = "awaitInit"
  /\ Goto(a, "closed")
  /\ Emit(<<>>)
  /\ UNCHANGED <<clientId, outgoing, acked, resends, incoming, result>>

-----------------------------------------------------------------------------
(* sendMessage(message): the segments carry the id the client has now. *)
SendMessage(a, message) ==
  LET segments == SegmentsOf(clientId[a], message) IN
  /\ pc[a] = "idle"
  /\ outgoing' = [outgoing EXCEPT ![a] = segments]
  /\ result' = [result EXCEPT ![a] = Outcome("pending")]
  /\ Goto(a, "awaitAck")
  /\ Emit(<<segments[1]>>)
  /\ UNCHANGED <<clientId, acked, resends, incoming>>

(* The locals of sendMessage and receiveResponse go with the call. *)
EndCall(a, outcome) ==
  /\ Goto(a, "idle")
  /\ result' = [result EXCEPT ![a] = outcome]
  /\ outgoing' = [outgoing EXCEPT ![a] = <<>>]
  /\ acked' = [acked EXCEPT ![a] = 0]
  /\ resends' = [resends EXCEPT ![a] = 0]
  /\ incoming' = [incoming EXCEPT ![a] = EmptyMap]
  /\ Emit(<<>>)
  /\ UNCHANGED clientId

(* Any ACK ends the wait: neither its id nor its seq_num is compared.  Then
   sendMessage sends the next segment or begins receiveResponse. *)
AckReceived(a, m) ==
  /\ m.type = "ACK"
  /\ acked' = [acked EXCEPT ![a] = @ + 1]
  /\ IF acked[a] + 1 < Len(outgoing[a])
       THEN Emit(<<outgoing[a][acked[a] + 2]>>) /\ UNCHANGED pc
       ELSE Emit(<<>>) /\ Goto(a, "awaitResponse")
  /\ UNCHANGED <<clientId, outgoing, resends, incoming, result>>

(* handleNack throws out of sendMessage. *)
NackReceived(a, m) == m.type = "NACK" /\ EndCall(a, Outcome("NACK"))

(* The answer carries the old id, the object takes the id of the datagram, and
   the segment is sent again as it was built. *)
HandshakeReceived(a, m) ==
  /\ m.type = "HS"
  /\ clientId' = [clientId EXCEPT ![a] = m.id]
  /\ Emit(<<Handshake(clientId[a]), Current(a)>>)
  /\ UNCHANGED <<pc, outgoing, acked, resends, incoming, result>>

(* Faulty variant: HS_COMPLETE makes the client send the segment once more. *)
OtherReceivedResends(a, m) ==
  /\ m.type \in {"DATA", "INIT_REQUEST", "HS_COMPLETE"}
  /\ Emit(IF m.type = "HS_COMPLETE" THEN <<Current(a)>> ELSE <<>>)
  /\ UNCHANGED clientVars

(* awaitAck drops everything else, the answer to the segment included. *)
OtherReceived(a, m) ==
  /\ m.type \in {"DATA", "INIT_REQUEST", "HS_COMPLETE"}
  /\ Emit(<<>>)
  /\ UNCHANGED clientVars

HandleEpollEvents(a, m) ==
  /\ pc[a] = "awaitAck"
  /\ \/ AckReceived(a, m)
     \/ NackReceived(a, m)
     \/ HandshakeReceived(a, m)
     \/ OtherReceived(a, m)

(* Faulty variant: one wait too many. *)
AckTimeoutOneMore(a) ==
  /\ pc[a] = "awaitAck"
  /\ IF resends[a] <= MaxResends
       THEN /\ resends' = [resends EXCEPT ![a] = @ + 1]
            /\ Emit(<<Current(a)>>)
            /\ UNCHANGED <<pc, clientId, outgoing, acked, incoming, result>>
       ELSE EndCall(a, Outcome("timeout"))

(* Faulty variant: the client waits on when the 10 s are over. *)
AckTimeoutNever(a) ==
  /\ pc[a] = "awaitAck"
  /\ resends[a] < MaxResends
  /\ resends' = [resends EXCEPT ![a] = @ + 1]
  /\ Emit(<<Current(a)>>)
  /\ UNCHANGED <<pc, clientId, outgoing, acked, incoming, result>>

(* epoll_wait returned nothing for a second: the segment is sent again, unless
   the 10 s of this sendMessage are over. *)
AckTimeout(a) ==
  /\ pc[a] = "awaitAck"
  /\ IF resends[a] < MaxResends
       THEN /\ resends' = [resends EXCEPT ![a] = @ + 1]
            /\ Emit(<<Current(a)>>)
            /\ UNCHANGED <<pc, clientId, outgoing, acked, incoming, result>>
       ELSE EndCall(a, Outcome("timeout"))

-----------------------------------------------------------------------------
(* segments[i] of a missing i is the empty string, and so is the payload of a
   segment without data: a text is the pieces that are joined, empty ones too. *)
TextOf(segments, tot) ==
  [i \in 1..tot |-> IF i - 1 \in DOMAIN segments THEN segments[i - 1] ELSE NoPayload]

IsEmptyText(text) == \A i \in DOMAIN text : text[i] = NoPayload

(* Faulty variant: the segments of the last answer stay. *)
DataReceivedKeepingSegments(a, m) ==
  LET segments == Put(incoming[a], m.seq, PayloadRead(m)) IN
  /\ m.type = "DATA"
  /\ incoming' = [incoming EXCEPT ![a] = segments]
  /\ outgoing' = [outgoing EXCEPT ![a] = <<>>]
  /\ acked' = [acked EXCEPT ![a] = 0]
  /\ resends' = [resends EXCEPT ![a] = 0]
  /\ IF Cardinality(DOMAIN segments) = m.tot
       THEN /\ Goto(a, "idle")
            /\ result' = [result EXCEPT ![a] = Answer(TextOf(segments, m.tot))]
       ELSE UNCHANGED <<pc, result>>
  /\ Emit(<<>>) /\ UNCHANGED clientId

(* Faulty variant: the segment with the last number ends the answer. *)
DataReceivedUntilLast(a, m) ==
  LET segments == Put(incoming[a], m.seq, PayloadRead(m)) IN
  /\ m.type = "DATA"
  /\ IF m.seq = m.tot - 1
       THEN EndCall(a, Answer(TextOf(segments, m.tot)))
       ELSE /\ incoming' = [incoming EXCEPT ![a] = segments]
            /\ Emit(<<>>)
            /\ UNCHANGED <<pc, clientId, outgoing, acked, resends, result>>

(* receiveResponse keeps a DATA payload by seq_num, whatever its id and its
   checksum, until it has as many as the last segment announces; the locals of
   the call are gone afterwards, and an empty text is reported as nullopt. *)
DataReceived(a, m) ==
  LET segments == Put(incoming[a], m.seq, PayloadRead(m))
      text     == TextOf(segments, m.tot)
  IN /\ m.type = "DATA"
     /\ IF Cardinality(DOMAIN segments) = m.tot
          THEN EndCall(a, IF IsEmptyText(text) THEN Outcome("nullopt") ELSE Answer(text))
          ELSE /\ incoming' = [incoming EXCEPT ![a] = segments]
               /\ Emit(<<>>)
               /\ UNCHANGED <<pc, clientId, outgoing, acked, resends, result>>

(* Any other datagram ends the wait, and what was collected is forgotten. *)
NoDataReceived(a, m) == m.type # "DATA" /\ EndCall(a, Outcome("nullopt"))

ReceiveResponse(a, m) ==
  pc[a] = "awaitResponse" /\ (DataReceived(a, m) \/ NoDataReceived(a, m))

(* Faulty variant: an expired wait begins again. *)
ResponseTimeoutIgnored(a) ==
  pc[a] = "awaitResponse" /\ Emit(<<>>) /\ UNCHANGED clientVars

(* SO_RCVTIMEO expires in receiveMessage, which throws. *)
ResponseTimeout(a) == pc[a] = "awaitResponse" /\ EndCall(a, Outcome("timeout"))

-----------------------------------------------------------------------------
(* A blocked client takes the next datagram of its socket, or gives up waiting. *)
Take(a, m) == InitAnswered(a, m) \/ HandleEpollEvents(a, m) \/ ReceiveResponse(a, m)

Expire(a) == InitTimeout(a) \/ AckTimeout(a) \/ ResponseTimeout(a)

Waiting(a) == pc[a] \in {"awaitInit", "awaitAck", "awaitResponse"}
=============================================================================
