---------------------- MODULE UDPServerRefinement_proofs ----------------------
(* The heap of ConnectionManager, with its stale entries that are dropped only
   when they reach the top, evicts exactly the clients a scan would evict. *)
EXTENDS UDPServer_proofs

SeenIn(cl) == [c \in DOMAIN cl |-> cl[c].last_active]

(* What a scan of all clients at time t would keep. *)
Scanned(cl, t) ==
  [c \in {c \in DOMAIN cl : ~ (cl[c].last_active + INACTIVITY_TIMEOUT < t)} |->
     cl[c].last_active]

(* Popping old entries and looking at the owner's own last_active is the scan,
   because the newest entry of every client is in the heap. *)
LEMMA EvictionIsExact ==
  ASSUME NEW cl, NEW queue, NEW t, ClientsQueued(cl, queue)
  PROVE  SeenIn(RemoveInactiveClients(cl, queue, t)) = Scanned(cl, t)
<1>1. \A c \in DOMAIN cl :
        (\E entry \in queue : entry[2] = c /\ Stale(entry, t))
          \/ ~ (cl[c].last_active + INACTIVITY_TIMEOUT < t)
  <2> SUFFICES ASSUME NEW c \in DOMAIN cl,
                      cl[c].last_active + INACTIVITY_TIMEOUT < t
               PROVE  \E entry \in queue : entry[2] = c /\ Stale(entry, t)
    OBVIOUS
  <2>1. <<cl[c].last_active, c>> \in queue
    BY DEF ClientsQueued
  <2>2. Stale(<<cl[c].last_active, c>>, t)
    BY DEF Stale
  <2> QED
    BY <2>1, <2>2
<1> QED
  BY <1>1 DEF SeenIn, Scanned, RemoveInactiveClients, Keep

(* A turn that touches no client is the abstract Purge. *)
LEMMA PurgeRefines ==
  ASSUME ServerInv, NEW hs, NEW lap \in Laps,
         EndTurn(hs, clients, inactiveClients, lap)
  PROVE  Eviction!Purge
<1> DEFINE t == now + lap["purgeClients"]
<1>1. now \in Nat /\ t \in Nat /\ t \in now..(now + MaxLag)
  BY LapType, TimeoutAssumption DEF ServerInv
<1>2. now' = t /\ clients' = RemoveInactiveClients(clients, inactiveClients, t)
  BY DEF EndTurn
<1> HIDE DEF t
<1>3. LastSeen' = SeenIn(RemoveInactiveClients(clients, inactiveClients, t))
  BY <1>2 DEF LastSeen, SeenIn
<1>4. /\ ClientsQueued(clients, inactiveClients)
      /\ \A c \in DOMAIN clients : clients[c].last_active \in Nat
  BY DEF ServerInv, ManagersOK, ClientsOK, IsClientState
<1>5. LastSeen' = Scanned(clients, t)
  BY <1>3, <1>4, EvictionIsExact
<1>6. LastSeen' = Eviction!Fresh(LastSeen, t)
  BY <1>1, <1>4, <1>5, TimeoutAssumption DEF LastSeen, Scanned, Eviction!Fresh
<1> QED
  BY <1>1, <1>2, <1>6 DEF Eviction!Purge

(* A turn that registers or refreshes client c is the abstract Touch(c). *)
LEMMA TouchRefines ==
  ASSUME ServerInv, NEW hs, NEW cl, NEW c \in ClientIds, NEW lap \in Laps,
         DOMAIN cl = DOMAIN clients \cup {c},
         \A x \in DOMAIN cl : cl[x].last_active
           = IF x = c THEN now + lap["clients"] ELSE clients[x].last_active,
         EndTurn(hs, cl, PushActivity(inactiveClients, c, now + lap["clients"]), lap)
  PROVE  Eviction!Touch(c)
<1> DEFINE t  == now + lap["purgeClients"]
           t1 == now + lap["clients"]
           q  == PushActivity(inactiveClients, c, t1)
<1>1. /\ now \in Nat /\ t \in Nat /\ t \in now..(now + MaxLag)
      /\ t1 \in Nat /\ t1 \in now..t
  BY LapType, TimeoutAssumption DEF ServerInv
<1>2. now' = t /\ clients' = RemoveInactiveClients(cl, q, t)
  BY DEF EndTurn
<1>3. ClientsQueued(cl, q)
  BY DEF ServerInv, ManagersOK, ClientsQueued, PushActivity
<1>4. /\ \A x \in DOMAIN clients : clients[x].last_active \in Nat
      /\ \A x \in DOMAIN cl : cl[x].last_active
                                = IF x = c THEN t1 ELSE clients[x].last_active
  BY DEF ServerInv, ManagersOK, ClientsOK, IsClientState
<1> HIDE DEF t, t1, q
<1>5. LastSeen' = SeenIn(RemoveInactiveClients(cl, q, t))
  BY <1>2 DEF LastSeen, SeenIn
<1>6. LastSeen' = Scanned(cl, t)
  BY <1>3, <1>5, EvictionIsExact
<1>7. Eviction!Seen(c, t1) = SeenIn(cl)
  BY <1>4 DEF Eviction!Seen, SeenIn, LastSeen
<1>8. \A x \in DOMAIN cl : cl[x].last_active \in Nat
  BY <1>1, <1>4
<1>9. LastSeen' = Eviction!Fresh(SeenIn(cl), t)
  BY <1>1, <1>6, <1>8, TimeoutAssumption DEF SeenIn, Scanned, Eviction!Fresh
<1> QED
  BY <1>1, <1>2, <1>7, <1>9 DEF Eviction!Touch

-----------------------------------------------------------------------------
(* Whatever datagram a turn handles, it is one of these two. *)
LEMMA TurnRefines ==
  ASSUME ServerInv, NEW m \in Incoming, NEW lap \in Laps, NEW reply,
         HandleClientMessage(m, lap, reply)
  PROVE  Eviction!Next
<1>1. ASSUME NEW c \in ClientIds, Eviction!Touch(c) PROVE Eviction!Next
  BY <1>1 DEF Eviction!Next
<1>2. ASSUME Eviction!Purge PROVE Eviction!Next
  BY <1>2 DEF Eviction!Next
<1>3. CASE HandleInitRequest(m, lap)
  <2>1. EndTurn(StartHandshake(handshakes, nextId, now), clients, inactiveClients, lap)
    BY <1>3 DEF HandleInitRequest
  <2> QED
    BY <1>2, <2>1, PurgeRefines
<1>4. CASE HandleHandshakeMessage(m, lap)
  <2>1. CASE StartUnknown(m, lap)
    <3>1. EndTurn(StartHandshake(handshakes, m.id, now), clients, inactiveClients, lap)
      BY <2>1 DEF StartUnknown
    <3> QED
      BY <1>2, <3>1, PurgeRefines
  <2>2. CASE CompleteKnown(m, lap)
    <3> DEFINE cl == RegisterClient(clients, m.id, now + lap["clients"])
               hs == CompleteHandshake(handshakes, m.id, now)
    <3>1. m.id \in ClientIds
      BY <2>2, IncomingTypes DEF CompleteKnown
    <3>2. /\ DOMAIN cl = DOMAIN clients \cup {m.id}
          /\ \A x \in DOMAIN cl : cl[x].last_active
               = IF x = m.id THEN now + lap["clients"] ELSE clients[x].last_active
      BY DEF RegisterClient, Put
    <3>3. EndTurn(hs, cl, PushActivity(inactiveClients, m.id, now + lap["clients"]), lap)
      BY <2>2 DEF CompleteKnown
    <3> HIDE DEF cl, hs
    <3>4. Eviction!Touch(m.id)
      BY <3>1, <3>2, <3>3, TouchRefines
    <3> QED
      BY <1>1, <3>1, <3>4
  <2> QED
    BY <1>4, <2>1, <2>2 DEF HandleHandshakeMessage
<1>5. CASE HandleDataMessage(m, lap, reply)
  <2>1. CASE AskHandshake(m, lap)
    <3>1. EndTurn(handshakes, clients, inactiveClients, lap)
      BY <2>1 DEF AskHandshake
    <3> QED
      BY <1>2, <3>1, PurgeRefines
  <2>2. CASE RefuseSegment(m, lap)
    <3>1. EndTurn(handshakes, clients, inactiveClients, lap)
      BY <2>2 DEF RefuseSegment
    <3> QED
      BY <1>2, <3>1, PurgeRefines
  <2>3. CASE AcceptSegment(m, lap, reply)
    <3> DEFINE t       == now + lap["clients"]
               tracked == TrackSegment(clients, m, t)
               queue   == PushActivity(inactiveClients, m.id, t)
    <3>1. /\ m.type = "DATA" /\ m.id \in ClientIds /\ m.seq \in Nat
          /\ m.tot \in Nat /\ m.payload \in Payloads
      BY <1>5, IncomingTypes DEF HandleDataMessage
    <3>2. m.id \in DOMAIN clients
      BY <2>3, <3>1, AcceptKeeps DEF HandleClientMessage
    <3>3. ClientsOK(clients) /\ t \in Nat /\ PayloadRead(m) \in ServerPayloads
      BY <2>3, <3>1, AcceptedPayload, LapType DEF ServerInv, ManagersOK
    <3>4. StoreSegment(m, lap, reply)
      BY <2>3, <3>2 DEF AcceptSegment
    <3>5. \/ EndTurn(handshakes, tracked, queue, lap)
          \/ EndTurn(handshakes, ClearSegments(tracked, m.id), queue, lap)
      BY <3>4 DEF StoreSegment
    <3>6. /\ ClientsOK(tracked) /\ DOMAIN tracked = DOMAIN clients
          /\ \A c \in DOMAIN clients : tracked[c].last_active
               = IF c = m.id THEN t ELSE clients[c].last_active
      <4> HIDE DEF t
      <4> QED
        BY <3>1, <3>2, <3>3, TrackSegmentOK, SMTT(30)
    <3>7. CASE EndTurn(handshakes, tracked, queue, lap)
      <4>1. EndTurn(handshakes, tracked,
                    PushActivity(inactiveClients, m.id, now + lap["clients"]), lap)
        BY <3>7
      <4>2. /\ DOMAIN tracked = DOMAIN clients \cup {m.id}
            /\ \A x \in DOMAIN tracked : tracked[x].last_active
                 = IF x = m.id THEN now + lap["clients"] ELSE clients[x].last_active
        BY <3>2, <3>6
      <4> HIDE DEF tracked, t, queue
      <4>3. Eviction!Touch(m.id)
        BY <3>1, <4>1, <4>2, TouchRefines
      <4> QED
        BY <1>1, <3>1, <4>3
    <3>8. CASE EndTurn(handshakes, ClearSegments(tracked, m.id), queue, lap)
      <4> DEFINE cleared == ClearSegments(tracked, m.id)
      <4> HIDE DEF tracked
      <4>1. /\ DOMAIN cleared = DOMAIN tracked
            /\ \A c \in DOMAIN tracked :
                 cleared[c].last_active = tracked[c].last_active
        BY <3>2, <3>6, ClearSegmentsOK
      <4>2. EndTurn(handshakes, cleared,
                    PushActivity(inactiveClients, m.id, now + lap["clients"]), lap)
        BY <3>8
      <4>3. /\ DOMAIN cleared = DOMAIN clients \cup {m.id}
            /\ \A x \in DOMAIN cleared : cleared[x].last_active
                 = IF x = m.id THEN now + lap["clients"] ELSE clients[x].last_active
        BY <3>2, <3>6, <4>1
      <4> HIDE DEF cleared, t, queue
      <4>4. Eviction!Touch(m.id)
        BY <3>1, <4>2, <4>3, TouchRefines
      <4> QED
        BY <1>1, <3>1, <4>4
    <3> QED
      BY <3>5, <3>7, <3>8
  <2> QED
    BY <1>5, <2>1, <2>2, <2>3 DEF HandleDataMessage
<1>6. CASE Ignore(m, lap)
  <2>1. EndTurn(handshakes, clients, inactiveClients, lap)
    BY <1>6 DEF Ignore
  <2> QED
    BY <1>2, <2>1, PurgeRefines
<1> QED
  BY <1>3, <1>4, <1>5, <1>6 DEF HandleClientMessage

(* UDPServer implements IdleEviction: with the clients' last_active as lastSeen,
   every turn of the loop forgets exactly the clients that have been idle for
   more than INACTIVITY_TIMEOUT, although the heap is not searched. *)
THEOREM ServerEvictsExactlyTheIdle == ServerSpec => EvictsExactlyTheIdle
<1>1. ServerInit => Eviction!Init
  BY DEF ServerInit, Eviction!Init, LastSeen, EmptyMap
<1>2. ASSUME ServerInv, [ServerNext]_serverVars
      PROVE  [Eviction!Next]_<<now, LastSeen>>
  <2>1. CASE \E m \in Incoming, lap \in Laps, reply \in Responses \cup {NoReply} :
               HandleClientMessage(m, lap, reply)
    BY <1>2, <2>1, TurnRefines
  <2>2. CASE Tick
    <3>1. now' = now + 1 /\ LastSeen' = LastSeen
      BY <2>2 DEF Tick, managers, LastSeen
    <3> QED
      BY <3>1 DEF Eviction!Next, Eviction!Tick
  <2>3. CASE Restart
    <3>1. now' = now /\ LastSeen' = [c \in {} |-> 0]
      BY <2>3 DEF Restart, LastSeen, EmptyMap
    <3> QED
      BY <3>1 DEF Eviction!Next, Eviction!Forget
  <2>4. CASE UNCHANGED serverVars
    BY <2>4 DEF serverVars, LastSeen
  <2> QED
    BY <1>2, <2>1, <2>2, <2>3, <2>4 DEF ServerNext
<1> QED
  BY <1>1, <1>2, ServerInvariant, PTL DEF ServerSpec, EvictsExactlyTheIdle, Eviction!Spec
=============================================================================
