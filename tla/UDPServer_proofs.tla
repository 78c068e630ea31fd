--------------------------- MODULE UDPServer_proofs ---------------------------
(* Theorems about UDPServer, for all timeouts with HANDSHAKE_TIMEOUT + MaxLag <=
   INACTIVITY_TIMEOUT, any number of clients and any messages. *)
EXTENDS UDPServer, TLAPS

(* The strengthening that makes ServerStaysUp inductive.  A complete handshake
   is younger than the activity of its client (completeHandshake reads the clock
   before registerClient does, and data refreshes only the client), so a client
   can be evicted only when its handshake has expired too. *)
SessionsLinked(hs, cl) ==
  \A c \in DOMAIN hs : hs[c].handshake_complete =>
    c \in DOMAIN cl /\ hs[c].last_active <= cl[c].last_active

(* The newest entry of every client is in the heap. *)
ClientsQueued(cl, queue) == \A c \in DOMAIN cl : <<cl[c].last_active, c>> \in queue

(* No handshake is younger than the clock. *)
HandshakesPast(hs, t) == \A c \in DOMAIN hs : hs[c].last_active <= t

HandshakesOK(hs) == IsMap(hs, ClientIds, HandshakeState)

ClientsOK(cl) ==
  DOMAIN cl \subseteq ClientIds /\ \A c \in DOMAIN cl : IsClientState(cl[c])

ManagersOK(hs, cl, queue) ==
  /\ HandshakesOK(hs)
  /\ ClientsOK(cl)
  /\ queue \in SUBSET (Nat \X ClientIds)
  /\ SessionsLinked(hs, cl)
  /\ ClientsQueued(cl, queue)

ServerInv ==
  /\ now \in Nat
  /\ nextId \in Nat
  /\ alive = TRUE
  /\ ManagersOK(handshakes, clients, inactiveClients)
  /\ HandshakesPast(handshakes, now)

-----------------------------------------------------------------------------
(* The maps after the operations of the two managers. *)

(* startHandshake and completeHandshake add at most the entry of the client. *)
LEMMA PutHandshake ==
  ASSUME NEW hs, HandshakesOK(hs), NEW c \in ClientIds, NEW t \in Nat,
         NEW b \in BOOLEAN
  PROVE  /\ HandshakesOK(Put(hs, c, [handshake_complete |-> b, last_active |-> t]))
         /\ DOMAIN Put(hs, c, [handshake_complete |-> b, last_active |-> t])
              = DOMAIN hs \cup {c}
  BY DEF HandshakesOK, IsMap, Put, HandshakeState

(* Assigning a client its state keeps the type of ConnectionManager::clients. *)
LEMMA PutClient ==
  ASSUME NEW cl, ClientsOK(cl), NEW c \in ClientIds, NEW v, IsClientState(v)
  PROVE  ClientsOK(Put(cl, c, v))
  BY DEF ClientsOK, Put

(* The readings of the clock in a turn are numbers and come one after another. *)
LEMMA LapType ==
  ASSUME NEW lap \in Laps
  PROVE  /\ lap["clients"] \in Nat /\ lap["purgeHandshakes"] \in Nat
         /\ lap["purgeClients"] \in Nat /\ lap["purgeClients"] <= MaxLag
         /\ lap["clients"] <= lap["purgeHandshakes"]
         /\ lap["purgeHandshakes"] <= lap["purgeClients"]
  BY TimeoutAssumption DEF Laps

(* Both purges keep what links the two managers: this is where the assumption
   about the two timeouts is needed. *)
LEMMA EndTurnKeeps ==
  ASSUME now \in Nat,
         NEW hs, NEW cl, NEW queue, ManagersOK(hs, cl, queue),
         HandshakesPast(hs, now),
         NEW lap \in Laps, EndTurn(hs, cl, queue, lap)
  PROVE  /\ now' \in Nat
         /\ ManagersOK(handshakes', clients', inactiveClients')
         /\ HandshakesPast(handshakes', now')
<1> DEFINE tH == now + lap["purgeHandshakes"]
           tC == now + lap["purgeClients"]
<1>1. /\ tH \in Nat /\ tC \in Nat /\ now <= tH /\ tH <= tC /\ tC <= tH + MaxLag
  BY LapType, TimeoutAssumption
<1>2. /\ handshakes' = RemoveExpiredHandshakes(hs, tH)
      /\ clients' = RemoveInactiveClients(cl, queue, tC)
      /\ inactiveClients' = PopInactive(queue, tC)
      /\ now' = tC
  BY DEF EndTurn
<1> HIDE DEF tH, tC
<1>3. /\ \A c \in DOMAIN hs : hs[c] \in HandshakeState
      /\ \A c \in DOMAIN hs : hs[c].last_active \in Nat
  BY DEF ManagersOK, HandshakesOK, IsMap, HandshakeState
<1>4. \A c \in DOMAIN cl : cl[c].last_active \in Nat
  BY DEF ManagersOK, ClientsOK, IsClientState
<1>5. HandshakesOK(handshakes')
  BY <1>2, <1>3 DEF ManagersOK, HandshakesOK, IsMap, RemoveExpiredHandshakes, Keep
<1>6. ClientsOK(clients')
  BY <1>2 DEF ManagersOK, ClientsOK, RemoveInactiveClients, Keep
<1>7. inactiveClients' \in SUBSET (Nat \X ClientIds)
  BY <1>2 DEF ManagersOK, PopInactive
<1>8. SessionsLinked(handshakes', clients')
  <2> SUFFICES ASSUME NEW c \in DOMAIN handshakes', handshakes'[c].handshake_complete
               PROVE  /\ c \in DOMAIN clients'
                      /\ handshakes'[c].last_active <= clients'[c].last_active
    BY DEF SessionsLinked
  <2>1. /\ c \in DOMAIN hs /\ handshakes'[c] = hs[c]
        /\ tH <= hs[c].last_active + HANDSHAKE_TIMEOUT
    BY <1>2 DEF RemoveExpiredHandshakes, Keep
  <2>2. c \in DOMAIN cl /\ hs[c].last_active <= cl[c].last_active
    BY <2>1 DEF ManagersOK, SessionsLinked
  <2>3. ~ (cl[c].last_active + INACTIVITY_TIMEOUT < tC)
    BY <1>1, <1>3, <1>4, <2>1, <2>2, TimeoutAssumption
  <2> QED
    BY <1>2, <2>1, <2>2, <2>3 DEF RemoveInactiveClients, Keep
<1>9. ClientsQueued(clients', inactiveClients')
  <2> SUFFICES ASSUME NEW c \in DOMAIN clients'
               PROVE  <<clients'[c].last_active, c>> \in inactiveClients'
    BY DEF ClientsQueued
  <2>1. /\ c \in DOMAIN cl /\ clients'[c] = cl[c]
        /\ ~ /\ \E entry \in queue : entry[2] = c /\ Stale(entry, tC)
             /\ cl[c].last_active + INACTIVITY_TIMEOUT < tC
    BY <1>2 DEF RemoveInactiveClients, Keep
  <2>2. <<cl[c].last_active, c>> \in queue
    BY <2>1 DEF ManagersOK, ClientsQueued
  <2>3. ~ Stale(<<cl[c].last_active, c>>, tC)
    BY <2>1, <2>2 DEF Stale
  <2> QED
    BY <1>2, <2>1, <2>2, <2>3 DEF PopInactive
<1>10. HandshakesPast(handshakes', now')
  BY <1>1, <1>2, <1>3 DEF HandshakesPast, RemoveExpiredHandshakes, Keep
<1> QED
  BY <1>1, <1>2, <1>5, <1>6, <1>7, <1>8, <1>9, <1>10 DEF ManagersOK

-----------------------------------------------------------------------------
(* The datagrams that reach the server. *)
LEMMA IncomingTypes ==
  ASSUME NEW m \in Incoming
  PROVE  /\ m.type = "HS" => m.id \in ClientIds
         /\ m.type = "DATA" => /\ m.id \in ClientIds /\ m.seq \in Nat
                               /\ m.tot \in Nat /\ m.payload \in Payloads
<1>1. CASE m \in {InitRequest, Ack(0, 0)}
  BY <1>1 DEF InitRequest, Ack
<1>2. CASE \E c \in ClientIds : m = Handshake(c)
  BY <1>2 DEF Handshake
<1>3. CASE \E msg \in Messages : \E i \in 1..Len(msg), c \in ClientIds, ok \in BOOLEAN :
             m = Data(c, i - 1, Len(msg), ok, msg[i])
  <2>1. PICK msg \in Messages, c \in ClientIds, ok \in BOOLEAN :
          \E i \in 1..Len(msg) : m = Data(c, i - 1, Len(msg), ok, msg[i])
    BY <1>3
  <2>2. PICK i \in 1..Len(msg) : m = Data(c, i - 1, Len(msg), ok, msg[i])
    BY <2>1
  <2>3. msg \in Seq(Payloads)
    BY MessageAssumption
  <2>4. msg[i] \in Payloads /\ Len(msg) \in Nat /\ i - 1 \in Nat
    BY <2>3
  <2> QED
    BY <2>2, <2>4 DEF Data
<1> QED
  BY <1>1, <1>2, <1>3 DEF Incoming

(* A segment that is accepted is intact: its payload is read as it was sent. *)
LEMMA AcceptedPayload ==
  ASSUME NEW m \in Incoming, m.type = "DATA", NEW lap, NEW reply,
         AcceptSegment(m, lap, reply)
  PROVE  PayloadRead(m) \in ServerPayloads
  BY IncomingTypes DEF AcceptSegment, PayloadRead, ServerPayloads

(* A segment stored in the state of a registered client. *)
LEMMA TrackSegmentOK ==
  ASSUME NEW cl, ClientsOK(cl), NEW m, m.id \in DOMAIN cl, m.seq \in Nat,
         m.tot \in Nat, PayloadRead(m) \in ServerPayloads, NEW t \in Nat
  PROVE  /\ ClientsOK(TrackSegment(cl, m, t))
         /\ DOMAIN TrackSegment(cl, m, t) = DOMAIN cl
         /\ \A c \in DOMAIN cl :
              TrackSegment(cl, m, t)[c].last_active
                = IF c = m.id THEN t ELSE cl[c].last_active
         /\ TrackSegment(cl, m, t)[m.id].total_segments = m.tot
         /\ m.seq \in DOMAIN TrackSegment(cl, m, t)[m.id].segments
<1> DEFINE segments == Put(cl[m.id].segments, m.seq, PayloadRead(m))
           v == [segments |-> segments, total_segments |-> m.tot, last_active |-> t]
<1>1. IsMap(cl[m.id].segments, Nat, ServerPayloads)
  BY DEF ClientsOK, IsClientState
<1>2. IsMap(segments, Nat, ServerPayloads) /\ m.seq \in DOMAIN segments
  BY <1>1 DEF IsMap, Put
<1>3. IsClientState(v)
  BY <1>2 DEF IsClientState
<1>4. m.id \in ClientIds
  BY DEF ClientsOK
<1>5. TrackSegment(cl, m, t) = Put(cl, m.id, v)
  BY DEF TrackSegment
<1> HIDE DEF v, segments
<1>6. ClientsOK(Put(cl, m.id, v))
  BY <1>3, <1>4, PutClient
<1>7. v.last_active = t /\ v.total_segments = m.tot /\ m.seq \in DOMAIN v.segments
  BY <1>2 DEF v
<1> QED
  BY <1>5, <1>6, <1>7 DEF Put

(* clearSegments empties the buffer and leaves the time of the last segment. *)
LEMMA ClearSegmentsOK ==
  ASSUME NEW cl, ClientsOK(cl), NEW c \in DOMAIN cl
  PROVE  /\ ClientsOK(ClearSegments(cl, c))
         /\ DOMAIN ClearSegments(cl, c) = DOMAIN cl
         /\ \A x \in DOMAIN cl :
              ClearSegments(cl, c)[x].last_active = cl[x].last_active
<1> DEFINE v == [cl[c] EXCEPT !.segments = EmptyMap]
<1>1. IsClientState(cl[c]) /\ c \in ClientIds
  BY DEF ClientsOK
<1>2. IsMap(EmptyMap, Nat, ServerPayloads)
  BY DEF IsMap, EmptyMap
<1>3. IsClientState(v) /\ v.last_active = cl[c].last_active
  BY <1>1, <1>2 DEF IsClientState
<1>4. ClearSegments(cl, c) = Put(cl, c, v)
  BY DEF ClearSegments
<1> HIDE DEF v
<1>5. ClientsOK(Put(cl, c, v))
  BY <1>1, <1>3, PutClient
<1> QED
  BY <1>3, <1>4, <1>5 DEF Put

-----------------------------------------------------------------------------
(* hs2 and cl2 are hs and cl but for client c, seen at t and not before its
   handshake was. *)
Touched(hs, cl, hs2, cl2, c, t) ==
  /\ HandshakesOK(hs2) /\ DOMAIN hs2 \subseteq DOMAIN hs \cup {c}
  /\ \A x \in DOMAIN hs2 \ {c} : hs2[x] = hs[x]
  /\ c \in DOMAIN hs2 => hs2[c].last_active <= t
  /\ ClientsOK(cl2) /\ DOMAIN cl2 = DOMAIN cl \cup {c}
  /\ \A x \in DOMAIN cl2 :
       cl2[x].last_active = IF x = c THEN t ELSE cl[x].last_active

(* A client that is touched keeps the two managers linked. *)
LEMMA TouchKeeps ==
  ASSUME NEW hs, NEW cl, NEW queue, ManagersOK(hs, cl, queue),
         NEW hs2, NEW cl2, NEW c \in ClientIds, NEW t \in Nat,
         Touched(hs, cl, hs2, cl2, c, t)
  PROVE  ManagersOK(hs2, cl2, PushActivity(queue, c, t))
<1>1. SessionsLinked(hs2, cl2)
  BY DEF ManagersOK, SessionsLinked, Touched
<1>2. ClientsQueued(cl2, PushActivity(queue, c, t))
  BY DEF ManagersOK, ClientsQueued, PushActivity, Touched
<1>3. PushActivity(queue, c, t) \in SUBSET (Nat \X ClientIds)
  BY DEF ManagersOK, PushActivity
<1> QED
  BY <1>1, <1>2, <1>3 DEF ManagersOK, Touched

(* A handshake that is (re)started is not complete and disturbs nothing else. *)
LEMMA StartKeeps ==
  ASSUME NEW hs, NEW cl, NEW queue, ManagersOK(hs, cl, queue),
         NEW c \in ClientIds, NEW t \in Nat
  PROVE  ManagersOK(StartHandshake(hs, c, t), cl, queue)
<1>1. HandshakesOK(StartHandshake(hs, c, t))
  BY PutHandshake DEF ManagersOK, StartHandshake
<1>2. SessionsLinked(StartHandshake(hs, c, t), cl)
  BY DEF ManagersOK, SessionsLinked, StartHandshake, Put
<1> QED
  BY <1>1, <1>2 DEF ManagersOK

-----------------------------------------------------------------------------
(* A server that has just started satisfies the invariant. *)
THEOREM InitServerInv == ServerInit => ServerInv
  BY DEF ServerInit, ServerInv, ManagersOK, HandshakesOK, ClientsOK, IsMap,
         EmptyMap, SessionsLinked, ClientsQueued, HandshakesPast

(* handleInitRequest keeps the invariant: the new handshake is not complete. *)
LEMMA InitRequestKeeps ==
  ASSUME ServerInv, alive, NEW m, NEW lap \in Laps, HandleInitRequest(m, lap)
  PROVE  ServerInv'
<1> DEFINE hs == StartHandshake(handshakes, nextId, now)
<1>1. nextId \in ClientIds /\ now \in Nat /\ nextId' \in Nat
  BY BoundAssumption DEF ServerInv, HandleInitRequest, ClientIds
<1>2. ManagersOK(hs, clients, inactiveClients)
  BY <1>1, StartKeeps DEF ServerInv
<1>3. HandshakesPast(hs, now)
  BY <1>1 DEF ServerInv, HandshakesPast, StartHandshake, Put
<1>4. EndTurn(hs, clients, inactiveClients, lap)
  BY DEF HandleInitRequest
<1> HIDE DEF hs
<1> QED
  BY <1>1, <1>2, <1>3, <1>4, EndTurnKeeps DEF ServerInv, HandleInitRequest

(* handleHandshakeMessage keeps the invariant: it completes a handshake and
   registers the client in the same turn. *)
LEMMA HandshakeKeeps ==
  ASSUME ServerInv, alive, NEW m \in Incoming, NEW lap \in Laps,
         HandleHandshakeMessage(m, lap)
  PROVE  ServerInv'
<1>1. m.id \in ClientIds /\ now \in Nat
  BY IncomingTypes DEF ServerInv, HandleHandshakeMessage, CompleteKnown, StartUnknown
<1>2. CASE CompleteKnown(m, lap)
  <2> DEFINE t  == now + lap["clients"]
             hs == CompleteHandshake(handshakes, m.id, now)
             cl == RegisterClient(clients, m.id, t)
  <2>1. t \in Nat /\ now <= t
    BY <1>1, LapType
  <2>2. HandshakesOK(hs) /\ DOMAIN hs = DOMAIN handshakes \cup {m.id}
    BY <1>1, PutHandshake DEF ServerInv, ManagersOK, CompleteHandshake
  <2>3. /\ \A x \in DOMAIN hs \ {m.id} : hs[x] = handshakes[x]
        /\ hs[m.id].last_active = now
    BY DEF CompleteHandshake, Put
  <2>4. IsClientState([segments |-> EmptyMap, total_segments |-> 0, last_active |-> t])
    BY <2>1 DEF IsClientState, IsMap, EmptyMap
  <2>5. ClientsOK(cl)
    BY <1>1, <2>4, PutClient DEF ServerInv, ManagersOK, RegisterClient
  <2>6. /\ DOMAIN cl = DOMAIN clients \cup {m.id}
        /\ \A x \in DOMAIN cl : cl[x].last_active
             = IF x = m.id THEN t ELSE clients[x].last_active
    BY DEF RegisterClient, Put
  <2>7. HandshakesPast(hs, now)
    BY <1>1, <2>2, <2>3 DEF ServerInv, HandshakesPast
  <2>8. EndTurn(hs, cl, PushActivity(inactiveClients, m.id, t), lap)
    BY <1>2 DEF CompleteKnown
  <2> HIDE DEF t, hs, cl
  <2>9. ManagersOK(hs, cl, PushActivity(inactiveClients, m.id, t))
    <3>1. Touched(handshakes, clients, hs, cl, m.id, t)
      BY <1>1, <2>1, <2>2, <2>3, <2>5, <2>6 DEF Touched
    <3> QED
      BY <1>1, <2>1, <3>1, TouchKeeps DEF ServerInv
  <2> QED
    BY <1>1, <1>2, <2>7, <2>8, <2>9, EndTurnKeeps DEF ServerInv, CompleteKnown
<1>3. CASE StartUnknown(m, lap)
  <2> DEFINE hs == StartHandshake(handshakes, m.id, now)
  <2>1. ManagersOK(hs, clients, inactiveClients)
    BY <1>1, StartKeeps DEF ServerInv
  <2>2. HandshakesPast(hs, now)
    BY <1>1 DEF ServerInv, HandshakesPast, StartHandshake, Put
  <2>3. EndTurn(hs, clients, inactiveClients, lap)
    BY <1>3 DEF StartUnknown
  <2> HIDE DEF hs
  <2> QED
    BY <1>1, <1>3, <2>1, <2>2, <2>3, EndTurnKeeps DEF ServerInv, StartUnknown
<1> QED
  BY <1>2, <1>3 DEF HandleHandshakeMessage

(* The turns that change no manager before the purge. *)
LEMMA QuietTurnKeeps ==
  ASSUME ServerInv, alive, NEW lap \in Laps, UNCHANGED <<nextId, alive>>,
         EndTurn(handshakes, clients, inactiveClients, lap)
  PROVE  ServerInv'
  BY EndTurnKeeps DEF ServerInv

(* The registered client of an authenticated segment: this is the step at which
   the exception would leave start(). *)
LEMMA AcceptKeeps ==
  ASSUME ServerInv, alive, NEW m \in Incoming, m.type = "DATA",
         NEW lap \in Laps, NEW reply, AcceptSegment(m, lap, reply)
  PROVE  ServerInv' /\ m.id \in DOMAIN clients
<1> DEFINE t       == now + lap["clients"]
           tracked == TrackSegment(clients, m, t)
           queue   == PushActivity(inactiveClients, m.id, t)
<1>1. /\ m.id \in ClientIds /\ m.seq \in Nat /\ m.tot \in Nat
      /\ PayloadRead(m) \in ServerPayloads /\ now \in Nat /\ t \in Nat /\ now <= t
  BY IncomingTypes, AcceptedPayload, LapType DEF ServerInv
<1>2. m.id \in DOMAIN handshakes /\ m.id \in DOMAIN clients
  BY DEF ServerInv, ManagersOK, SessionsLinked, AcceptSegment, Authenticated,
         IsClientKnown, IsHandshakeComplete
<1>3. StoreSegment(m, lap, reply) /\ alive' = TRUE /\ UNCHANGED nextId
  BY <1>2 DEF AcceptSegment
<1>4. /\ ClientsOK(tracked) /\ DOMAIN tracked = DOMAIN clients
      /\ \A c \in DOMAIN clients : tracked[c].last_active
           = IF c = m.id THEN t ELSE clients[c].last_active
  <2>1. ClientsOK(clients)
    BY DEF ServerInv, ManagersOK
  <2>2. /\ m.id \in DOMAIN clients /\ m.seq \in Nat /\ m.tot \in Nat
        /\ PayloadRead(m) \in ServerPayloads /\ t \in Nat
    BY <1>1, <1>2
  <2> HIDE DEF t
  <2> QED
    BY <2>1, <2>2, TrackSegmentOK, SMTT(30)
<1>5. /\ HandshakesOK(handshakes) /\ HandshakesPast(handshakes, now)
      /\ handshakes[m.id].last_active <= t
  <2>1. HandshakesOK(handshakes) /\ HandshakesPast(handshakes, now)
    BY DEF ServerInv, ManagersOK
  <2>2. /\ handshakes[m.id].last_active \in Nat
        /\ handshakes[m.id].last_active <= now
    BY <1>2, <2>1 DEF HandshakesPast, HandshakesOK, IsMap, HandshakeState
  <2> HIDE DEF t
  <2> QED
    BY <1>1, <2>1, <2>2
<1>6. CASE EndTurn(handshakes, ClearSegments(tracked, m.id), queue, lap)
  <2> DEFINE cleared == ClearSegments(tracked, m.id)
  <2> HIDE DEF t, tracked
  <2>1. /\ ClientsOK(cleared) /\ DOMAIN cleared = DOMAIN tracked
        /\ \A c \in DOMAIN tracked : cleared[c].last_active = tracked[c].last_active
    BY <1>2, <1>4, ClearSegmentsOK
  <2> HIDE DEF cleared
  <2>2. ManagersOK(handshakes, cleared, queue)
    <3>1. Touched(handshakes, clients, handshakes, cleared, m.id, t)
      BY <1>2, <1>4, <1>5, <2>1 DEF Touched
    <3> QED
      BY <1>1, <3>1, TouchKeeps DEF ServerInv
  <2>3. EndTurn(handshakes, cleared, queue, lap)
    BY <1>6 DEF cleared
  <2> HIDE DEF queue
  <2> QED
    BY <1>1, <1>2, <1>3, <1>5, <2>2, <2>3, EndTurnKeeps DEF ServerInv
<1>7. CASE EndTurn(handshakes, tracked, queue, lap)
  <2> HIDE DEF t, tracked
  <2>1. ManagersOK(handshakes, tracked, queue)
    <3>1. Touched(handshakes, clients, handshakes, tracked, m.id, t)
      BY <1>2, <1>4, <1>5 DEF Touched
    <3> QED
      BY <1>1, <3>1, TouchKeeps DEF ServerInv
  <2> HIDE DEF queue
  <2> QED
    BY <1>1, <1>2, <1>3, <1>5, <1>7, <2>1, EndTurnKeeps DEF ServerInv
<1> QED
  BY <1>3, <1>6, <1>7 DEF StoreSegment

(* Every turn of the loop of start keeps the invariant. *)
LEMMA TurnKeeps ==
  ASSUME ServerInv, NEW m \in Incoming, NEW lap \in Laps, NEW reply,
         HandleClientMessage(m, lap, reply)
  PROVE  ServerInv'
<1>1. alive
  BY DEF HandleClientMessage
<1>2. CASE HandleInitRequest(m, lap)
  BY <1>1, <1>2, InitRequestKeeps
<1>3. CASE HandleHandshakeMessage(m, lap)
  BY <1>1, <1>3, HandshakeKeeps
<1>4. CASE HandleDataMessage(m, lap, reply)
  <2>1. CASE AskHandshake(m, lap)
    BY <1>1, <2>1, QuietTurnKeeps DEF AskHandshake
  <2>2. CASE RefuseSegment(m, lap)
    BY <1>1, <2>2, QuietTurnKeeps DEF RefuseSegment
  <2>3. CASE AcceptSegment(m, lap, reply)
    BY <1>1, <1>4, <2>3, AcceptKeeps DEF HandleDataMessage
  <2> QED
    BY <1>4, <2>1, <2>2, <2>3 DEF HandleDataMessage
<1>5. CASE Ignore(m, lap)
  BY <1>1, <1>5, QuietTurnKeeps DEF Ignore
<1> QED
  BY <1>2, <1>3, <1>4, <1>5 DEF HandleClientMessage

(* So does every step: the invariant is inductive. *)
LEMMA NextServerInv == ServerInv /\ [ServerNext]_serverVars => ServerInv'
<1> SUFFICES ASSUME ServerInv, [ServerNext]_serverVars
             PROVE  ServerInv'
  OBVIOUS
<1>1. CASE \E m \in Incoming, lap \in Laps, reply \in Responses \cup {NoReply} :
             HandleClientMessage(m, lap, reply)
  BY <1>1, TurnKeeps
<1>2. CASE Tick
  BY <1>2 DEF Tick, ServerInv, managers, HandshakesPast, ManagersOK, HandshakesOK,
              IsMap, HandshakeState
<1>3. CASE Restart
  BY <1>3 DEF Restart, ServerInv, ManagersOK, HandshakesOK, ClientsOK, IsMap,
              EmptyMap, SessionsLinked, ClientsQueued, HandshakesPast
<1>4. CASE UNCHANGED serverVars
  BY <1>4 DEF serverVars, ServerInv
<1> QED
  BY <1>1, <1>2, <1>3, <1>4 DEF ServerNext

(* The managers are linked in every reachable state, for all values of the
   timeouts that satisfy TimeoutAssumption. *)
THEOREM ServerInvariant == ServerSpec => []ServerInv
<1>1. ServerInit => ServerInv
  BY InitServerInv
<1>2. ServerInv /\ [ServerNext]_serverVars => ServerInv'
  BY NextServerInv
<1> QED
  BY <1>1, <1>2, PTL DEF ServerSpec

(* No sequence of datagrams, delays and restarts makes the server throw: the
   ClientNotFoundException of trackSegment is unreachable. *)
THEOREM ServerNeverThrows == ServerSpec => []ServerStaysUp
<1>1. ServerInv => ServerStaysUp
  BY DEF ServerInv, ServerStaysUp, ManagersOK, SessionsLinked
<1> QED
  BY <1>1, ServerInvariant, PTL

-----------------------------------------------------------------------------
(* What a step sends and dispatches. *)
OutputOK ==
  /\ sent \in Seq(Datagram(ClientIds, ServerPayloads))
  /\ dispatched \in Seq([id : ClientIds, message : Seq(ServerPayloads)])

(* The constructors build datagrams. *)
LEMMA DatagramTypes ==
  ASSUME NEW c \in ClientIds, NEW seq \in Nat, NEW tot \in Nat,
         NEW payload \in ServerPayloads
  PROVE  /\ Ack(c, seq) \in Datagram(ClientIds, ServerPayloads)
         /\ Nack(c, seq) \in Datagram(ClientIds, ServerPayloads)
         /\ Handshake(c) \in Datagram(ClientIds, ServerPayloads)
         /\ HandshakeComplete(c) \in Datagram(ClientIds, ServerPayloads)
         /\ Data(c, seq, tot, TRUE, payload) \in Datagram(ClientIds, ServerPayloads)
<1>1. /\ Ack(c, seq) \in [type : {"ACK", "NACK"}, id : ClientIds, seq : Nat]
      /\ Nack(c, seq) \in [type : {"ACK", "NACK"}, id : ClientIds, seq : Nat]
  BY DEF Ack, Nack
<1>2. /\ Handshake(c) \in [type : {"HS", "HS_COMPLETE"}, id : ClientIds]
      /\ HandshakeComplete(c) \in [type : {"HS", "HS_COMPLETE"}, id : ClientIds]
  BY DEF Handshake, HandshakeComplete
<1>3. Data(c, seq, tot, TRUE, payload)
        \in [type : {"DATA"}, id : ClientIds, seq : Nat, tot : Nat,
             intact : BOOLEAN, payload : ServerPayloads]
  BY DEF Data
<1> QED
  BY <1>1, <1>2, <1>3 DEF Datagram

(* sendMessage cuts any answer into datagrams for the client. *)
LEMMA ReplySegmentsType ==
  ASSUME NEW c \in ClientIds, NEW reply \in Responses \cup {NoReply}
  PROVE  ReplySegments(c, reply) \in Seq(Datagram(ClientIds, ServerPayloads))
<1>1. CASE reply = NoReply
  BY <1>1 DEF ReplySegments
<1>2. CASE reply # NoReply /\ reply = <<>>
  <2>1. Data(c, 0, 1, TRUE, NoPayload) \in Datagram(ClientIds, ServerPayloads)
    BY DatagramTypes DEF ServerPayloads
  <2> DEFINE d == Data(c, 0, 1, TRUE, NoPayload)
  <2>2. ReplySegments(c, reply) = <<d>>
    BY <1>2 DEF ReplySegments
  <2>3. d \in Datagram(ClientIds, ServerPayloads)
    BY <2>1
  <2> HIDE DEF d
  <2> QED
    BY <2>2, <2>3
<1>3. CASE reply # NoReply /\ reply # <<>>
  <2>1. reply \in Seq(Payloads) /\ Len(reply) \in Nat
    BY <1>3, MessageAssumption
  <2>2. \A i \in 1..Len(reply) : Data(c, i - 1, Len(reply), TRUE, reply[i])
                                   \in Datagram(ClientIds, ServerPayloads)
    <3> TAKE i \in 1..Len(reply)
    <3>1. reply[i] \in ServerPayloads /\ i - 1 \in Nat
      BY <2>1 DEF ServerPayloads
    <3> QED
      BY <2>1, <3>1, DatagramTypes
  <2>3. SegmentsOf(c, reply) \in [1..Len(reply) -> Datagram(ClientIds, ServerPayloads)]
    BY <2>2 DEF SegmentsOf
  <2> QED
    BY <1>3, <2>1, <2>3 DEF ReplySegments
<1> QED
  BY <1>1, <1>2, <1>3

(* A complete set of segments is joined to a message. *)
LEMMA AssembledType ==
  ASSUME NEW client, IsClientState(client), AllSegments(client)
  PROVE  AssembledMessage(client) \in Seq(ServerPayloads)
<1>1. /\ client.total_segments \in Nat
      /\ \A i \in 1..client.total_segments : client.segments[i - 1] \in ServerPayloads
  BY DEF IsClientState, AllSegments, IsMap
<1> QED
  BY <1>1 DEF AssembledMessage

(* What a turn sends and hands to the application is well-formed. *)
LEMMA TurnOutput ==
  ASSUME ServerInv, NEW m \in Incoming, NEW lap \in Laps,
         NEW reply \in Responses \cup {NoReply}, HandleClientMessage(m, lap, reply)
  PROVE  OutputOK'
<1> DEFINE D == Datagram(ClientIds, ServerPayloads)
           M == [id : ClientIds, message : Seq(ServerPayloads)]
<1> HIDE DEF D, M
<1>1. ASSUME NEW d \in D, Says(<<d>>, <<>>) PROVE OutputOK'
  BY <1>1 DEF Says, OutputOK, D, M
<1>2. NoPayload \in ServerPayloads /\ 0 \in Nat
  BY DEF ServerPayloads
<1>3. CASE HandleInitRequest(m, lap)
  <2>1. nextId \in ClientIds
    BY <1>3, BoundAssumption DEF ServerInv, HandleInitRequest, ClientIds
  <2>2. Handshake(nextId) \in D
    BY <1>2, <2>1, DatagramTypes DEF D
  <2> QED
    BY <1>1, <1>3, <2>2 DEF HandleInitRequest
<1>4. CASE HandleHandshakeMessage(m, lap)
  <2>1. m.id \in ClientIds
    BY <1>4, IncomingTypes DEF HandleHandshakeMessage, CompleteKnown, StartUnknown
  <2>2. Handshake(m.id) \in D /\ HandshakeComplete(m.id) \in D
    BY <1>2, <2>1, DatagramTypes DEF D
  <2> QED
    BY <1>1, <1>4, <2>2 DEF HandleHandshakeMessage, CompleteKnown, StartUnknown
<1>5. CASE HandleDataMessage(m, lap, reply)
  <2>1. /\ m.type = "DATA" /\ m.id \in ClientIds /\ m.seq \in Nat
        /\ m.tot \in Nat /\ m.payload \in Payloads
    BY <1>5, IncomingTypes DEF HandleDataMessage
  <2>2. Handshake(m.id) \in D /\ Nack(m.id, m.seq) \in D /\ Ack(m.id, m.seq) \in D
    BY <1>2, <2>1, DatagramTypes DEF D
  <2>3. CASE AskHandshake(m, lap) \/ RefuseSegment(m, lap)
    BY <1>1, <2>2, <2>3 DEF AskHandshake, RefuseSegment
  <2>4. CASE AcceptSegment(m, lap, reply)
    <3> DEFINE t       == now + lap["clients"]
               tracked == TrackSegment(clients, m, t)
    <3>1. m.id \in DOMAIN clients /\ ClientsOK(clients) /\ t \in Nat
          /\ PayloadRead(m) \in ServerPayloads
      <4>1. m.id \in DOMAIN clients
        BY <2>1, <2>4, AcceptKeeps DEF HandleClientMessage
      <4>2. ClientsOK(clients) /\ t \in Nat
        BY LapType DEF ServerInv, ManagersOK
      <4>3. PayloadRead(m) \in ServerPayloads
        BY <2>1, <2>4, AcceptedPayload
      <4> QED
        BY <4>1, <4>2, <4>3
    <3>2. IsClientState(tracked[m.id])
      <4> HIDE DEF t
      <4>1. ClientsOK(TrackSegment(clients, m, t))
            /\ DOMAIN TrackSegment(clients, m, t) = DOMAIN clients
        BY <2>1, <3>1, TrackSegmentOK
      <4> QED
        BY <3>1, <4>1 DEF ClientsOK
    <3>3. StoreSegment(m, lap, reply)
      BY <2>4, <3>1 DEF AcceptSegment
    <3>4. CASE AllSegments(tracked[m.id])
      <4> DEFINE out == [id |-> m.id, message |-> AssembledMessage(tracked[m.id])]
      <4>1. Says(<<Ack(m.id, m.seq)>> \o ReplySegments(m.id, reply), <<out>>)
        BY <3>3, <3>4 DEF StoreSegment
      <4>2. AssembledMessage(tracked[m.id]) \in Seq(ServerPayloads)
        BY <3>2, <3>4, AssembledType
      <4>3. out \in M
        BY <2>1, <4>2 DEF M
      <4>4. ReplySegments(m.id, reply) \in Seq(D)
        BY <2>1, ReplySegmentsType DEF D
      <4> HIDE DEF out
      <4>5. <<Ack(m.id, m.seq)>> \o ReplySegments(m.id, reply) \in Seq(D)
        BY <2>2, <4>4
      <4> QED
        BY <4>1, <4>3, <4>5 DEF Says, OutputOK, D, M
    <3>5. CASE ~ AllSegments(tracked[m.id])
      <4>1. Says(<<Ack(m.id, m.seq)>>, <<>>)
        BY <3>3, <3>5 DEF StoreSegment
      <4> QED
        BY <1>1, <2>2, <4>1
    <3> QED
      BY <3>4, <3>5
  <2> QED
    BY <1>5, <2>3, <2>4 DEF HandleDataMessage
<1>6. CASE Ignore(m, lap)
  BY <1>6 DEF Ignore, Says, OutputOK
<1> QED
  BY <1>3, <1>4, <1>5, <1>6 DEF HandleClientMessage

(* Type correctness of the server for any messages, answers and bounds. *)
THEOREM ServerTypeCorrect == ServerSpec => []ServerTypeOK
<1>1. ServerInit => OutputOK
  BY DEF ServerInit, OutputOK
<1>2. ServerInv /\ OutputOK /\ [ServerNext]_serverVars => OutputOK'
  <2> SUFFICES ASSUME ServerInv, OutputOK, [ServerNext]_serverVars
               PROVE  OutputOK'
    OBVIOUS
  <2>1. CASE \E m \in Incoming, lap \in Laps, reply \in Responses \cup {NoReply} :
               HandleClientMessage(m, lap, reply)
    BY <2>1, TurnOutput
  <2>2. CASE Tick \/ Restart
    <3>1. sent' = <<>> /\ dispatched' = <<>>
      BY <2>2 DEF Tick, Restart, Says
    <3> QED
      BY <3>1 DEF OutputOK
  <2>3. CASE UNCHANGED serverVars
    BY <2>3 DEF serverVars, OutputOK
  <2> QED
    BY <2>1, <2>2, <2>3 DEF ServerNext
<1>3. ServerInv /\ OutputOK => ServerTypeOK
  BY DEF ServerInv, OutputOK, ServerTypeOK, ManagersOK, HandshakesOK, ClientsOK
<1> QED
  BY <1>1, <1>2, <1>3, ServerInvariant, PTL DEF ServerSpec

(* The segment a turn acknowledges is in the buffer or was handed on: the purge
   at the end of the turn does not take the client it was just heard from. *)
LEMMA AcceptKeepsSegment ==
  ASSUME ServerInv, NEW m \in Incoming, m.type = "DATA", NEW lap \in Laps,
         NEW reply, alive, AcceptSegment(m, lap, reply)
  PROVE  AckedIsKept'
<1> DEFINE t       == now + lap["clients"]
           tC      == now + lap["purgeClients"]
           tracked == TrackSegment(clients, m, t)
           queue   == PushActivity(inactiveClients, m.id, t)
<1>1. /\ m.id \in DOMAIN clients /\ m.seq \in Nat /\ m.tot \in Nat
      /\ PayloadRead(m) \in ServerPayloads /\ ClientsOK(clients)
  BY AcceptKeeps, AcceptedPayload, IncomingTypes DEF ServerInv, ManagersOK
<1>2. t \in Nat /\ tC \in Nat /\ ~ (t + INACTIVITY_TIMEOUT < tC)
  BY LapType, TimeoutAssumption DEF ServerInv
<1>3. StoreSegment(m, lap, reply)
  BY <1>1 DEF AcceptSegment
<1>4. /\ m.id \in DOMAIN tracked /\ tracked[m.id].last_active = t
      /\ m.seq \in DOMAIN tracked[m.id].segments
  <2>1. t \in Nat
    BY <1>2
  <2> HIDE DEF t
  <2> QED
    BY <1>1, <2>1, TrackSegmentOK, SMTT(30)
<1>5. CASE AllSegments(tracked[m.id])
  <2> DEFINE out == [id |-> m.id, message |-> AssembledMessage(tracked[m.id])]
  <2>1. Says(<<Ack(m.id, m.seq)>> \o ReplySegments(m.id, reply), <<out>>)
    BY <1>3, <1>5 DEF StoreSegment
  <2> HIDE DEF out
  <2>2. dispatched' # <<>>
    BY <2>1 DEF Says
  <2> QED
    BY <2>2 DEF AckedIsKept
<1>6. CASE ~ AllSegments(tracked[m.id])
  <2>1. EndTurn(handshakes, tracked, queue, lap) /\ sent' = <<Ack(m.id, m.seq)>>
    BY <1>3, <1>6 DEF StoreSegment, Says
  <2> HIDE DEF tracked, queue, t
  <2>2. clients' = RemoveInactiveClients(tracked, queue, tC)
    BY <2>1 DEF EndTurn
  <2>3. m.id \in DOMAIN clients' /\ clients'[m.id] = tracked[m.id]
    BY <1>2, <1>4, <2>2 DEF RemoveInactiveClients, Keep
  <2>4. \A i \in DOMAIN sent' : sent'[i].id = m.id /\ sent'[i].seq = m.seq
    BY <2>1 DEF Ack
  <2> QED
    BY <1>4, <2>3, <2>4 DEF AckedIsKept
<1> QED
  BY <1>5, <1>6

(* No acknowledged segment is lost by the turn that acknowledges it, whatever the
   timeouts that satisfy TimeoutAssumption and however late the purge comes. *)
THEOREM ServerKeepsTheAcked == ServerSpec => []AckedIsKept
<1>1. ServerInit => AckedIsKept
  BY DEF ServerInit, AckedIsKept
<1>2. ServerInv /\ AckedIsKept /\ [ServerNext]_serverVars => AckedIsKept'
  <2> SUFFICES ASSUME ServerInv, AckedIsKept, [ServerNext]_serverVars
               PROVE  AckedIsKept'
    OBVIOUS
  <2>1. ASSUME NEW d, sent' = <<d>>, d.type # "ACK" PROVE AckedIsKept'
    BY <2>1 DEF AckedIsKept
  <2>2. ASSUME sent' = <<>> PROVE AckedIsKept'
    BY <2>2 DEF AckedIsKept
  <2>3. \A c, k : /\ Handshake(c).type # "ACK" /\ HandshakeComplete(c).type # "ACK"
                  /\ Nack(c, k).type # "ACK"
    BY DEF Handshake, HandshakeComplete, Nack
  <2>4. ASSUME NEW m \in Incoming, NEW lap \in Laps, NEW reply,
               HandleClientMessage(m, lap, reply)
        PROVE  AckedIsKept'
    <3>1. CASE HandleInitRequest(m, lap)
      BY <2>1, <2>3, <3>1 DEF HandleInitRequest, Says
    <3>2. CASE HandleHandshakeMessage(m, lap)
      BY <2>1, <2>3, <3>2 DEF HandleHandshakeMessage, CompleteKnown, StartUnknown, Says
    <3>3. CASE HandleDataMessage(m, lap, reply)
      <4>1. CASE AskHandshake(m, lap) \/ RefuseSegment(m, lap)
        BY <2>1, <2>3, <4>1 DEF AskHandshake, RefuseSegment, Says
      <4>2. CASE AcceptSegment(m, lap, reply)
        BY <2>4, <3>3, <4>2, AcceptKeepsSegment DEF HandleDataMessage, HandleClientMessage
      <4> QED
        BY <3>3, <4>1, <4>2 DEF HandleDataMessage
    <3>4. CASE Ignore(m, lap)
      BY <2>2, <3>4 DEF Ignore, Says
    <3> QED
      BY <2>4, <3>1, <3>2, <3>3, <3>4 DEF HandleClientMessage
  <2>5. CASE Tick \/ Restart
    BY <2>2, <2>5 DEF Tick, Restart, Says
  <2>6. CASE UNCHANGED serverVars
    BY <2>6 DEF serverVars, AckedIsKept
  <2> QED
    BY <2>4, <2>5, <2>6 DEF ServerNext
<1> QED
  BY <1>1, <1>2, ServerInvariant, PTL DEF ServerSpec
=============================================================================
