------------------------------ MODULE UDPServer ------------------------------
(* The server side of the transport: UDPServer with its HandshakeManager and its
   ConnectionManager.  One action is one turn of the loop of UDPServer::start:
   a datagram is received and handled to the end, then both managers remove
   what has expired.

   Every manager reads std::time on its own, so a turn has up to four readings
   of the clock: the handshake bookkeeping of the handler (at "now"), its
   connection bookkeeping, and one per purge; "lap" holds how much later than
   the first reading each of the other three is.  The application behind
   handleMessage is external here: it answers a message with any of Responses
   or does not answer. *)
EXTENDS Datagrams, FiniteSets

CONSTANTS
  HANDSHAKE_TIMEOUT,    \* seconds a handshake is kept after its last activity
  INACTIVITY_TIMEOUT,   \* seconds a client is kept after its last segment
  MaxLag,               \* bound: seconds between the readings of one turn
  MaxTime,              \* bound: the clock
  MaxIds,               \* bound: ids handed out by one server process
  Payloads,             \* the chunks messages are cut into
  Messages,             \* what clients ask: non-empty sequences of chunks
  Responses,            \* what the application answers: sequences of chunks
  NoReply               \* the application does not answer

ASSUME TimeoutAssumption ==
  /\ HANDSHAKE_TIMEOUT \in Nat /\ INACTIVITY_TIMEOUT \in Nat /\ MaxLag \in Nat
  /\ HANDSHAKE_TIMEOUT + MaxLag <= INACTIVITY_TIMEOUT

ASSUME BoundAssumption == MaxTime \in Nat /\ MaxIds \in Nat

ASSUME MessageAssumption ==
  /\ Messages \subseteq Seq(Payloads) \ {<<>>}
  /\ Responses \subseteq Seq(Payloads)
  /\ NoReply \notin Responses

VARIABLES
  now,              \* std::time
  nextId,           \* the static counter of generateClientId
  handshakes,       \* HandshakeManager::handshakes
  clients,          \* ConnectionManager::clients
  inactiveClients,  \* ConnectionManager::inactiveClients, a heap of (time, id)
  alive,            \* the process runs; FALSE once an exception left start
  dispatched        \* what the last step handed to handleMessage, at most one

managers == <<handshakes, clients, inactiveClients>>
serverVars == <<now, nextId, handshakes, clients, inactiveClients, alive,
                dispatched, sent>>

ClientIds == 0..(MaxIds - 1)

ServerPayloads == Payloads \cup {NoPayload}

Laps == {lap \in [{"clients", "purgeHandshakes", "purgeClients"} -> 0..MaxLag] :
           /\ lap["clients"] <= lap["purgeHandshakes"]
           /\ lap["purgeHandshakes"] <= lap["purgeClients"]}

-----------------------------------------------------------------------------
(* HandshakeManager *)

StartHandshake(hs, c, t) ==
  Put(hs, c, [handshake_complete |-> FALSE, last_active |-> t])

(* Faulty variant: the flag is never set. *)
CompleteHandshakeWithoutFlag(hs, c, t) ==
  Put(hs, c, [handshake_complete |-> FALSE, last_active |-> t])

CompleteHandshake(hs, c, t) ==
  Put(hs, c, [handshake_complete |-> TRUE, last_active |-> t])

IsClientKnown(c) == c \in DOMAIN handshakes

IsHandshakeComplete(c) == handshakes[c].handshake_complete

RemoveExpiredHandshakes(hs, t) ==
  Keep(hs, {c \in DOMAIN hs : t <= hs[c].last_active + HANDSHAKE_TIMEOUT})

-----------------------------------------------------------------------------
(* ConnectionManager *)

(* Faulty variant: the client is not registered. *)
RegisterClientNever(cl, c, t) == cl

RegisterClient(cl, c, t) ==
  Put(cl, c, [segments |-> EmptyMap, total_segments |-> 0, last_active |-> t])

(* Faulty variant: the segments are counted from 1. *)
TrackSegmentFromOne(cl, m, t) ==
  Put(cl, m.id, [segments |-> Put(cl[m.id].segments, m.seq - 1, PayloadRead(m)),
                 total_segments |-> m.tot, last_active |-> t])

TrackSegment(cl, m, t) ==
  Put(cl, m.id, [segments |-> Put(cl[m.id].segments, m.seq, PayloadRead(m)),
                 total_segments |-> m.tot, last_active |-> t])

AllSegments(client) ==
  DOMAIN client.segments = 0..(client.total_segments - 1)

AssembledMessage(client) ==
  [i \in 1..client.total_segments |-> client.segments[i - 1]]

(* Faulty variant: the buffer is not emptied. *)
ClearSegmentsNever(cl, c) == cl

ClearSegments(cl, c) ==
  Put(cl, c, [cl[c] EXCEPT !.segments = EmptyMap])

(* updateClientActivity pushes an entry and leaves the older ones of the client
   in the heap.  Two equal entries are popped together: the heap is a set. *)
PushActivity(queue, c, t) == queue \cup {<<t, c>>}

Stale(entry, t) == entry[1] + INACTIVITY_TIMEOUT < t

(* Faulty variant: a stale entry evicts although the client was seen since. *)
RemoveInactiveClientsByEntry(cl, queue, t) ==
  Keep(cl, {c \in DOMAIN cl :
              ~ \E entry \in queue : entry[2] = c /\ Stale(entry, t)})

RemoveInactiveClients(cl, queue, t) ==
  Keep(cl, {c \in DOMAIN cl :
              ~ /\ \E entry \in queue : entry[2] = c /\ Stale(entry, t)
                /\ cl[c].last_active + INACTIVITY_TIMEOUT < t})

PopInactive(queue, t) == {entry \in queue : ~ Stale(entry, t)}

-----------------------------------------------------------------------------
(* sendMessage cuts the answer; the empty answer is one segment without data. *)
ReplySegments(c, reply) ==
  IF reply = NoReply THEN <<>>
  ELSE IF reply = <<>> THEN <<Data(c, 0, 1, TRUE, NoPayload)>>
  ELSE SegmentsOf(c, reply)

(* The end of a turn: both removeInactiveClients, on what the handler left. *)
EndTurn(hs, cl, queue, lap) ==
  LET t == now + lap["purgeClients"] IN
  /\ t <= MaxTime
  /\ handshakes' = RemoveExpiredHandshakes(hs, now + lap["purgeHandshakes"])
  /\ clients' = RemoveInactiveClients(cl, queue, t)
  /\ inactiveClients' = PopInactive(queue, t)
  /\ now' = t

Says(datagrams, messages) == sent' = datagrams /\ dispatched' = messages

(* Faulty variant: every client is given the same id. *)
HandleInitRequestSameId(m, lap) ==
  /\ m.type = "INIT_REQUEST"
  /\ nextId < MaxIds
  /\ EndTurn(StartHandshake(handshakes, nextId, now), clients,
             inactiveClients, lap)
  /\ Says(<<Handshake(nextId)>>, <<>>)
  /\ UNCHANGED <<nextId, alive>>

HandleInitRequest(m, lap) ==
  /\ m.type = "INIT_REQUEST"
  /\ nextId < MaxIds
  /\ nextId' = nextId + 1
  /\ EndTurn(StartHandshake(handshakes, nextId, now), clients,
             inactiveClients, lap)
  /\ Says(<<Handshake(nextId)>>, <<>>)
  /\ UNCHANGED alive

CompleteKnown(m, lap) ==
  /\ m.type = "HS" /\ IsClientKnown(m.id)
  /\ LET t == now + lap["clients"] IN
     EndTurn(CompleteHandshake(handshakes, m.id, now),
             RegisterClient(clients, m.id, t),
             PushActivity(inactiveClients, m.id, t), lap)
  /\ Says(<<HandshakeComplete(m.id)>>, <<>>)
  /\ UNCHANGED <<nextId, alive>>

StartUnknown(m, lap) ==
  /\ m.type = "HS" /\ ~ IsClientKnown(m.id)
  /\ EndTurn(StartHandshake(handshakes, m.id, now), clients,
             inactiveClients, lap)
  /\ Says(<<Handshake(m.id)>>, <<>>)
  /\ UNCHANGED <<nextId, alive>>

HandleHandshakeMessage(m, lap) == CompleteKnown(m, lap) \/ StartUnknown(m, lap)

Authenticated(c) == IsClientKnown(c) /\ IsHandshakeComplete(c)

AskHandshake(m, lap) ==
  /\ ~ Authenticated(m.id)
  /\ EndTurn(handshakes, clients, inactiveClients, lap)
  /\ Says(<<Handshake(m.id)>>, <<>>)
  /\ UNCHANGED <<nextId, alive>>

(* Faulty variant: the damaged segment is acknowledged. *)
RefuseSegmentWithAck(m, lap) ==
  /\ Authenticated(m.id) /\ ~ m.intact
  /\ EndTurn(handshakes, clients, inactiveClients, lap)
  /\ Says(<<Ack(m.id, m.seq)>>, <<>>)
  /\ UNCHANGED <<nextId, alive>>

RefuseSegment(m, lap) ==
  /\ Authenticated(m.id) /\ ~ m.intact
  /\ EndTurn(handshakes, clients, inactiveClients, lap)
  /\ Says(<<Nack(m.id, m.seq)>>, <<>>)
  /\ UNCHANGED <<nextId, alive>>

StoreSegment(m, lap, reply) ==
  LET t       == now + lap["clients"]
      tracked == TrackSegment(clients, m, t)
      queue   == PushActivity(inactiveClients, m.id, t)
  IN IF AllSegments(tracked[m.id])
       THEN /\ EndTurn(handshakes, ClearSegments(tracked, m.id), queue, lap)
            /\ Says(<<Ack(m.id, m.seq)>> \o ReplySegments(m.id, reply),
                    <<[id |-> m.id, message |-> AssembledMessage(tracked[m.id])]>>)
       ELSE /\ EndTurn(handshakes, tracked, queue, lap)
            /\ Says(<<Ack(m.id, m.seq)>>, <<>>)

(* trackSegment throws ClientNotFoundException for a client that is not
   registered, after the ACK: nothing between the handler and main catches it. *)
AcceptSegment(m, lap, reply) ==
  /\ Authenticated(m.id) /\ m.intact
  /\ alive' = (m.id \in DOMAIN clients)
  /\ UNCHANGED nextId
  /\ IF m.id \in DOMAIN clients
       THEN StoreSegment(m, lap, reply)
       ELSE Says(<<Ack(m.id, m.seq)>>, <<>>) /\ UNCHANGED <<managers, now>>

HandleDataMessage(m, lap, reply) ==
  /\ m.type = "DATA"
  /\ \/ AskHandshake(m, lap)
     \/ RefuseSegment(m, lap)
     \/ AcceptSegment(m, lap, reply)

(* ACK, NACK and HS_COMPLETE change nothing; the turn still ends with a purge. *)
Ignore(m, lap) ==
  /\ m.type \in {"ACK", "NACK", "HS_COMPLETE"}
  /\ EndTurn(handshakes, clients, inactiveClients, lap)
  /\ Says(<<>>, <<>>)
  /\ UNCHANGED <<nextId, alive>>

HandleClientMessage(m, lap, reply) ==
  /\ alive
  /\ \/ HandleInitRequest(m, lap)
     \/ HandleHandshakeMessage(m, lap)
     \/ HandleDataMessage(m, lap, reply)
     \/ Ignore(m, lap)

-----------------------------------------------------------------------------
(* Time passes while the loop is blocked in epoll_wait. *)
Tick ==
  /\ now < MaxTime
  /\ now' = now + 1
  /\ Says(<<>>, <<>>)
  /\ UNCHANGED <<nextId, managers, alive>>

(* The process stops and is started again: nothing is kept, and the counter of
   the ids starts at 0 again. *)
Restart ==
  /\ handshakes' = EmptyMap /\ clients' = EmptyMap /\ inactiveClients' = {}
  /\ nextId' = 0 /\ alive' = TRUE
  /\ Says(<<>>, <<>>)
  /\ UNCHANGED now

ServerInit ==
  /\ now = 0 /\ nextId = 0 /\ alive = TRUE
  /\ handshakes = EmptyMap /\ clients = EmptyMap /\ inactiveClients = {}
  /\ sent = <<>> /\ dispatched = <<>>

(* What the network may hand to the server: any id, any segment of any message,
   intact or not. *)
Incoming ==
  {InitRequest, Ack(0, 0)}
    \cup {Handshake(c) : c \in ClientIds}
    \cup UNION {{Data(c, i - 1, Len(msg), ok, msg[i]) :
                   i \in 1..Len(msg), c \in ClientIds, ok \in BOOLEAN} :
                  msg \in Messages}

ServerNext ==
  \/ \E m \in Incoming, lap \in Laps, reply \in Responses \cup {NoReply} :
       HandleClientMessage(m, lap, reply)
  \/ Tick
  \/ Restart

ServerSpec == ServerInit /\ [][ServerNext]_serverVars

-----------------------------------------------------------------------------
HandshakeState == [handshake_complete : BOOLEAN, last_active : Nat]

IsClientState(client) ==
  /\ DOMAIN client = {"segments", "total_segments", "last_active"}
  /\ IsMap(client.segments, Nat, ServerPayloads)
  /\ client.total_segments \in Nat
  /\ client.last_active \in Nat

(* Every variable of the server keeps its type. *)
ServerTypeOK ==
  /\ now \in Nat
  /\ nextId \in Nat
  /\ IsMap(handshakes, ClientIds, HandshakeState)
  /\ DOMAIN clients \subseteq ClientIds
  /\ \A c \in DOMAIN clients : IsClientState(clients[c])
  /\ inactiveClients \in SUBSET (Nat \X ClientIds)
  /\ alive \in BOOLEAN
  /\ sent \in Seq(Datagram(ClientIds, ServerPayloads))
  /\ dispatched \in Seq([id : ClientIds, message : Seq(ServerPayloads)])

(* No datagram stops the server: whoever has a complete handshake is still
   registered, so the trackSegment of handleDataMessage (udp_server.cpp:160)
   never throws the ClientNotFoundException that nothing catches. *)
ServerStaysUp ==
  /\ alive
  /\ \A c \in DOMAIN handshakes :
       handshakes[c].handshake_complete => c \in DOMAIN clients

(* An acknowledged segment is not lost by the turn that acknowledges it: it is in
   the client's buffer, or in the message handed to the application. *)
AckedIsKept ==
  \A i \in DOMAIN sent : sent[i].type = "ACK" =>
    \/ dispatched # <<>>
    \/ /\ sent[i].id \in DOMAIN clients
       /\ sent[i].seq \in DOMAIN clients[sent[i].id].segments

(* The state of IdleEviction. *)
LastSeen == [c \in DOMAIN clients |-> clients[c].last_active]

Eviction == INSTANCE IdleEviction WITH
  Ids <- ClientIds, Timeout <- INACTIVITY_TIMEOUT, lastSeen <- LastSeen

(* The lazy heap of ConnectionManager evicts like a scan of all clients: no client
   goes early for an old entry, none stays for lack of one
   (removeInactiveClients, connection_manager.cpp:48). *)
EvictsExactlyTheIdle == Eviction!Spec
=============================================================================
