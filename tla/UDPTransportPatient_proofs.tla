---------------------- MODULE UDPTransportPatient_proofs ----------------------
(* Theorems about UDPTransport for any number of calls of each client, in the
   circumstances the timeouts of the code are made for: a wait expires only when
   nothing more is coming, and nothing is kept waiting for so long that the server
   forgets a handshake. *)
EXTENDS UDPTransport_proofs

(* Datagrams do not come late or twice and the server is not started anew; they may
   be lost or damaged where a message is one segment. *)
Forgiving ==
  /\ \A kind \in {"delay", "repetition", "restart"} : scenario.budget[kind] = 0
  /\ scenario.request = 1 \/ \A kind \in {"loss", "damage"} : scenario.budget[kind] = 0

PatientNetwork == Patient /\ MaxTime <= HANDSHAKE_TIMEOUT /\ Forgiving

DamageUsed == faults["damage"] < scenario.budget["damage"]

-----------------------------------------------------------------------------
(* What is on its way from client a, and to it. *)
SentBy(a) == {p.datagram : p \in {q \in Held(toServer) : q.from = a}}

Arriving(a) == Held(toClient[a])

HasType(queue, types) == \A d \in queue : d.type \in types

(* Of two datagrams of one client on the way to the server, the first is a handshake
   and the other the segment it was asked for. *)
SentInTurn ==
  \A i, j \in DOMAIN toServer :
    i < j /\ toServer[i].from = toServer[j].from =>
      toServer[i].datagram.type = "HS" /\ toServer[j].datagram.type = "DATA"

(* A client is sent one short answer, perhaps behind an HS_COMPLETE, and the segments
   of a text behind it in their order. *)
Rank(d) == IF d.type = "HS_COMPLETE" THEN 0 ELSE IF d.type = "DATA" THEN d.seq + 2 ELSE 1

InOrder(queue) ==
  \A i, j \in DOMAIN queue : i < j => Rank(queue[i]) < Rank(queue[j])

(* The segment awaitAck of client a waits for, and the ones of the text. *)
IsCurrent(a, d) ==
  /\ d = Data(clientId[a], acked[a], scenario.request, d.intact,
              Chunk(a, calls[a], acked[a] + 1))
  /\ d.intact \in BOOLEAN /\ (scenario.request = 1 \/ d.intact)

IsPieceOf(a, i, piece) ==
  \/ piece = AnswerPart(a, calls[a], i)
  \/ DamageUsed /\ piece = Damaged(AnswerPart(a, calls[a], i))

IsAwaited(a, d) ==
  /\ d.type = "DATA"
  /\ d.seq \in 0..(scenario.answer - 1) /\ d.tot = scenario.answer
  /\ d.payload = AnswerPart(a, calls[a], d.seq + 1)
  /\ d.intact \/ DamageUsed

-----------------------------------------------------------------------------
(* The ids of completed handshakes: Authenticated of UDPServer. *)
Complete == {c \in DOMAIN handshakes : handshakes[c].handshake_complete}

Executed(a, k) == Count(Message(a, k))

(* What a client at each place may have under way. *)
AtRest(a) ==
  pc[a] \in {"new", "idle", "closed"} => SentBy(a) = {} /\ Arriving(a) = {}

AwaitsInit(a) ==
  pc[a] = "awaitInit" =>
    /\ SentBy(a) \subseteq {InitRequest}
    /\ SentBy(a) = {} \/ Arriving(a) = {}
    /\ \A d \in Arriving(a) : d = Handshake(d.id) /\ d.id \in DOMAIN handshakes \ Complete

AwaitsAck(a) ==
  pc[a] = "awaitAck" =>
    /\ \A d \in SentBy(a) : d = Handshake(clientId[a]) \/ IsCurrent(a, d)
    /\ SentBy(a) = {} \/ HasType(Arriving(a), {"HS_COMPLETE"})
    /\ IF clientId[a] \in Complete
         THEN /\ HasType(SentBy(a), {"DATA"})
              /\ HasType(Arriving(a), {"HS_COMPLETE", "ACK", "NACK", "DATA"})
         ELSE acked[a] = 0 /\ \A d \in Arriving(a) : d = Handshake(clientId[a])
    /\ \A d \in Arriving(a) : d.type = "NACK" => scenario.request = 1
    /\ \A d \in Arriving(a) : d.type = "DATA" =>
         /\ IsAwaited(a, d) /\ acked[a] + 1 = scenario.request
         /\ \A e \in Arriving(a) : e.type # "NACK"

AwaitsResponse(a) ==
  pc[a] = "awaitResponse" =>
    /\ SentBy(a) = {}
    /\ clientId[a] \in Complete
    /\ \A d \in Arriving(a) : IsAwaited(a, d) /\ d.seq \notin DOMAIN incoming[a]
    /\ \A seq \in DOMAIN incoming[a] :
         seq \in 0..(scenario.answer - 1) /\ IsPieceOf(a, seq + 1, incoming[a][seq])

(* The server knows the client under the id it uses for all its segments. *)
IsLinked(a) ==
  /\ pc[a] \in Named => clientId[a] \in DOMAIN handshakes
  /\ pc[a] \in InCall => outgoing[a] = SegmentsOf(clientId[a], Message(a, calls[a]))

(* The segments of the present message that the server has in the buffer. *)
Sends(a) == \E d \in SentBy(a) : d.type = "DATA"

Stored(a) ==
  IF pc[a] # "awaitAck" THEN 0
  ELSE IF Sends(a) THEN acked[a]
  ELSE IF acked[a] + 1 < scenario.request THEN acked[a] + 1 ELSE 0

IsBuffered(a) ==
  \A c \in Complete : pc[a] \in Named /\ c = clientId[a] =>
    /\ DOMAIN clients[c].segments = 0..(Stored(a) - 1)
    /\ \A seq \in DOMAIN clients[c].segments :
         clients[c].segments[seq] = Chunk(a, calls[a], seq + 1)

(* Where nothing is lost, the segment or an answer to it is on its way. *)
IsHeard(a) ==
  scenario.budget["loss"] = 0 =>
    /\ resends[a] = 0
    /\ pc[a] = "awaitAck" =>
         Sends(a) \/ \E d \in Arriving(a) : d.type \in {"HS", "ACK", "NACK"}

(* A message is executed at most once for each time its last segment was sent, and
   was executed when an answer comes. *)
Tries(a) ==
  IF \/ Sends(a) \/ acked[a] + 1 < scenario.request
     \/ \E d \in Arriving(a) : d.type = "HS"
  THEN resends[a] ELSE resends[a] + 1

IsCounted(a) ==
  \A k \in 1..MaxCalls :
    /\ k > calls[a] => Executed(a, k) = 0
    /\ k = calls[a] /\ pc[a] = "awaitAck" => Executed(a, k) <= Tries(a)
    /\ k = calls[a] /\ (\E d \in Arriving(a) : d.type = "DATA") => Executed(a, k) > 0

HasResult(a) ==
  result[a].kind = "answer" =>
    /\ result[a].text = [i \in 1..scenario.answer |-> result[a].text[i]]
    /\ \A i \in 1..scenario.answer : IsPieceOf(a, i, result[a].text[i])

PatientClient(a) ==
  /\ InOrder(toClient[a])
  /\ AtRest(a) /\ AwaitsInit(a) /\ AwaitsAck(a) /\ AwaitsResponse(a)
  /\ IsLinked(a) /\ IsBuffered(a) /\ IsHeard(a) /\ IsCounted(a) /\ HasResult(a)

PatientInv ==
  /\ PatientNetwork
  /\ SentInTurn
  /\ OnlyWholeRequests /\ \A message \in DOMAIN executed : executed[message] \in Nat
  /\ \A a \in Clients : PatientClient(a)

-----------------------------------------------------------------------------
(* Queues in order. *)

LEMMA RankTypes ==
  ASSUME NEW d \in ToClientTypes
  PROVE  /\ Rank(d) \in Nat
         /\ d.type = "HS_COMPLETE" => Rank(d) = 0
         /\ d.type = "DATA" => d.seq \in Nat /\ Rank(d) = d.seq + 2
         /\ d.type \in {"ACK", "NACK", "HS"} => Rank(d) = 1
  BY DEF Rank, ToClientTypes, Datagram

(* The first datagram and the others. *)
LEMMA HeldSplit ==
  ASSUME NEW S, NEW queue \in Seq(S), queue # <<>>
  PROVE  /\ Tail(queue) \in Seq(S)
         /\ Held(queue) = {Head(queue)} \cup Held(Tail(queue))
<1>1. /\ Len(queue) \in Nat /\ DOMAIN queue = 1..Len(queue) /\ 1 \in DOMAIN queue
      /\ Tail(queue) \in Seq(S) /\ DOMAIN Tail(queue) = 1..(Len(queue) - 1)
      /\ \A i \in 1..(Len(queue) - 1) : Tail(queue)[i] = queue[i + 1]
      /\ Head(queue) = queue[1]
  OBVIOUS
<1>2. \A i \in DOMAIN queue : i = 1 \/ (i - 1 \in 1..(Len(queue) - 1) /\ (i - 1) + 1 = i)
  BY <1>1
<1>3. \A i \in 1..(Len(queue) - 1) : i + 1 \in DOMAIN queue
  BY <1>1
<1>4. Held(queue) \subseteq {Head(queue)} \cup Held(Tail(queue))
  <2> SUFFICES ASSUME NEW i \in DOMAIN queue
               PROVE  queue[i] = Head(queue) \/ queue[i] \in Held(Tail(queue))
    BY DEF Held
  <2>1. CASE i = 1
    BY <1>1, <2>1
  <2>2. CASE i # 1
    <3>1. i - 1 \in DOMAIN Tail(queue) /\ Tail(queue)[i - 1] = queue[i]
      BY <1>1, <1>2, <2>2
    <3> QED
      BY <3>1 DEF Held
  <2> QED
    BY <2>1, <2>2
<1>5. Held(Tail(queue)) \subseteq Held(queue)
  BY <1>1, <1>3 DEF Held
<1>6. Head(queue) \in Held(queue)
  BY <1>1 DEF Held
<1> QED
  BY <1>1, <1>4, <1>5, <1>6

LEMMA HeldNone ==
  ASSUME NEW S, NEW queue \in Seq(S)
  PROVE  Held(queue) = {} <=> queue = <<>>
<1>1. queue # <<>> => 1 \in DOMAIN queue
  OBVIOUS
<1> QED
  BY <1>1 DEF Held

LEMMA TailInOrder ==
  ASSUME NEW S, NEW queue \in Seq(S), queue # <<>>, InOrder(queue)
  PROVE  /\ InOrder(Tail(queue))
         /\ \A d \in Held(Tail(queue)) : Rank(Head(queue)) < Rank(d)
<1>1. /\ Len(queue) \in Nat /\ DOMAIN queue = 1..Len(queue) /\ 1 \in DOMAIN queue
      /\ DOMAIN Tail(queue) = 1..(Len(queue) - 1)
      /\ \A i \in 1..(Len(queue) - 1) : Tail(queue)[i] = queue[i + 1]
      /\ Head(queue) = queue[1]
  OBVIOUS
<1>2. \A i \in 1..(Len(queue) - 1) : i + 1 \in DOMAIN queue /\ 1 < i + 1
  BY <1>1
<1>3. \A i, j \in 1..(Len(queue) - 1) : i < j => i + 1 < j + 1
  BY <1>1
<1>4. InOrder(Tail(queue))
  BY <1>1, <1>2, <1>3 DEF InOrder
<1>5. \A i \in DOMAIN Tail(queue) : Rank(Head(queue)) < Rank(Tail(queue)[i])
  BY <1>1, <1>2 DEF InOrder
<1> QED
  BY <1>4, <1>5 DEF Held

LEMMA JoinedParts ==
  ASSUME NEW S, NEW queue \in Seq(S), NEW more \in Seq(S)
  PROVE  /\ DOMAIN (queue \o more) = 1..(Len(queue) + Len(more))
         /\ \A k \in 1..Len(queue) : (queue \o more)[k] = queue[k]
         /\ \A k \in 1..Len(more) : (queue \o more)[Len(queue) + k] = more[k]
  BY SMTT(60)

(* Taking one datagram out of a queue moves the later ones up. *)
Moved(i, k) == IF k < i THEN k ELSE k + 1

LEMMA WithoutMoves ==
  ASSUME NEW S, NEW queue \in Seq(S), NEW i \in DOMAIN queue
  PROVE  /\ DOMAIN Without(queue, i) = 1..(Len(queue) - 1)
         /\ \A k \in DOMAIN Without(queue, i) :
              /\ Moved(i, k) \in DOMAIN queue
              /\ Without(queue, i)[k] = queue[Moved(i, k)]
         /\ \A k, l \in DOMAIN Without(queue, i) : k < l => Moved(i, k) < Moved(i, l)
<1> DEFINE n      == Len(queue)
           before == SubSeq(queue, 1, i - 1)
           after  == SubSeq(queue, i + 1, n)
<1>1. n \in Nat /\ i \in 1..n /\ DOMAIN queue = 1..n
  OBVIOUS
<1>2. before \in Seq(S) /\ Len(before) = i - 1 /\ \A k \in 1..(i - 1) : before[k] = queue[k]
  OBVIOUS
<1>3. after \in Seq(S) /\ Len(after) = n - i /\ \A k \in 1..(n - i) : after[k] = queue[i + k]
  OBVIOUS
<1>4. Without(queue, i) = before \o after
  BY DEF Without
<1> HIDE DEF n, before, after
<1>5. (i - 1) + (n - i) = n - 1
  BY <1>1
<1>6. DOMAIN (before \o after) = 1..(n - 1)
  BY <1>2, <1>3, <1>5, JoinedParts
<1>7. ASSUME NEW k \in 1..(n - 1)
      PROVE  Moved(i, k) \in 1..n /\ (before \o after)[k] = queue[Moved(i, k)]
  <2>1. CASE k < i
    <3>1. k \in 1..(i - 1) /\ Moved(i, k) = k /\ k \in 1..n
      BY <1>1, <2>1 DEF Moved
    <3>2. (before \o after)[k] = before[k]
      BY <1>2, <1>3, <3>1, JoinedParts
    <3> QED
      BY <1>2, <3>1, <3>2
  <2>2. CASE ~ (k < i)
    <3> DEFINE l == k - (i - 1)
    <3>1. l \in 1..(n - i) /\ k = (i - 1) + l /\ Moved(i, k) = i + l /\ i + l \in 1..n
      BY <1>1, <2>2 DEF Moved
    <3> HIDE DEF l
    <3>2. (before \o after)[Len(before) + l] = after[l]
      <4>1. \A x \in 1..Len(after) : (before \o after)[Len(before) + x] = after[x]
        BY <1>2, <1>3, JoinedParts
      <4> QED
        BY <1>3, <3>1, <4>1
    <3>3. Len(before) + l = k
      BY <1>2, <3>1
    <3> QED
      BY <1>3, <3>1, <3>2, <3>3
  <2> QED
    BY <2>1, <2>2
<1>8. \A k, l \in 1..(n - 1) : k < l => Moved(i, k) < Moved(i, l)
  BY <1>1 DEF Moved
<1> QED
  BY <1>1, <1>4, <1>6, <1>7, <1>8, ZenonT(60) DEF n

LEMMA WithoutInOrder ==
  ASSUME NEW S, NEW queue \in Seq(S), NEW i \in DOMAIN queue, InOrder(queue)
  PROVE  InOrder(Without(queue, i))
<1> DEFINE rest == Without(queue, i)
<1> SUFFICES ASSUME NEW k \in DOMAIN rest, NEW l \in DOMAIN rest, k < l
             PROVE  Rank(rest[k]) < Rank(rest[l])
  BY DEF InOrder
<1>1. /\ Moved(i, k) \in DOMAIN queue /\ rest[k] = queue[Moved(i, k)]
      /\ Moved(i, l) \in DOMAIN queue /\ rest[l] = queue[Moved(i, l)]
      /\ Moved(i, k) < Moved(i, l)
  BY WithoutMoves
<1> QED
  BY <1>1 DEF InOrder

LEMMA JoinedInOrder ==
  ASSUME NEW S, NEW queue \in Seq(S), NEW more \in Seq(S), InOrder(queue), InOrder(more),
         \A d \in Held(queue), e \in Held(more) : Rank(d) < Rank(e)
  PROVE  InOrder(queue \o more)
<1> DEFINE n      == Len(queue)
           joined == queue \o more
<1>1. /\ n \in Nat /\ Len(more) \in Nat /\ DOMAIN queue = 1..n /\ DOMAIN more = 1..Len(more)
      /\ DOMAIN joined = 1..(n + Len(more))
      /\ \A k \in 1..n : joined[k] = queue[k]
      /\ \A k \in 1..Len(more) : joined[n + k] = more[k]
  BY JoinedParts
<1> HIDE DEF n, joined
<1> SUFFICES ASSUME NEW k \in DOMAIN joined, NEW l \in DOMAIN joined, k < l
             PROVE  Rank(joined[k]) < Rank(joined[l])
  BY DEF InOrder, joined
<1>2. CASE l <= n
  <2>1. k \in 1..n /\ l \in 1..n
    BY <1>1, <1>2
  <2> QED
    BY <1>1, <2>1 DEF InOrder
<1>3. CASE k > n
  <2> DEFINE size == Len(more)
  <2>1. /\ k \in 1..(n + size) /\ l \in 1..(n + size)
        /\ n \in Nat /\ size \in Nat
    BY <1>1
  <2> HIDE DEF size
  <2>2. /\ k - n \in 1..size /\ l - n \in 1..size /\ k - n < l - n
        /\ n + (k - n) = k /\ n + (l - n) = l
    BY <1>3, <2>1
  <2>3. joined[k] = more[k - n] /\ joined[l] = more[l - n]
    BY <1>1, <2>2 DEF size
  <2> QED
    BY <1>1, <2>2, <2>3 DEF InOrder, size
<1>4. CASE k <= n /\ l > n
  <2>1. k \in 1..n /\ l - n \in 1..Len(more) /\ n + (l - n) = l
    BY <1>1, <1>4
  <2>2. joined[k] = queue[k] /\ joined[l] = more[l - n]
    BY <1>1, <2>1
  <2> QED
    BY <1>1, <2>1, <2>2 DEF Held
<1> QED
  BY <1>1, <1>2, <1>3, <1>4

LEMMA ShortInOrder == InOrder(<<>>) /\ \A d : InOrder(<<d>>)
  BY DEF InOrder

(* Datagrams of equal ranks in the same places are in order, too. *)
LEMMA SameOrder ==
  ASSUME NEW queue, NEW other, InOrder(queue), DOMAIN other = DOMAIN queue,
         \A i \in DOMAIN queue : Rank(other[i]) = Rank(queue[i])
  PROVE  InOrder(other)
  BY DEF InOrder

-----------------------------------------------------------------------------
(* The server takes one datagram of client a: its other one, if there is one, is the
   segment behind a handshake. *)
LEMMA FirstSent ==
  ASSUME NEW S, toServer \in Seq([from : Clients, datagram : S]), SentInTurn,
         toServer # <<>>, toServer' = Tail(toServer),
         NEW a \in Clients, NEW m, Head(toServer) = [from |-> a, datagram |-> m]
  PROVE  /\ SentInTurn'
         /\ SentBy(a) = {m} \cup SentBy(a)'
         /\ \A b \in Clients \ {a} : SentBy(b)' = SentBy(b)
         /\ \A d \in SentBy(a)' : m.type = "HS" /\ d.type = "DATA"
<1>1. /\ Len(toServer) \in Nat /\ DOMAIN toServer = 1..Len(toServer) /\ 1 \in DOMAIN toServer
      /\ DOMAIN toServer' = 1..(Len(toServer) - 1)
      /\ \A i \in 1..(Len(toServer) - 1) : toServer'[i] = toServer[i + 1]
      /\ toServer[1] = [from |-> a, datagram |-> m]
  OBVIOUS
<1>2. \A i \in 1..(Len(toServer) - 1) : i + 1 \in DOMAIN toServer /\ 1 < i + 1
  BY <1>1
<1>3. \A i, j \in 1..(Len(toServer) - 1) : i < j => i + 1 < j + 1
  BY <1>1
<1>4. SentInTurn'
  BY <1>1, <1>2, <1>3 DEF SentInTurn
<1>5. Held(toServer) = {[from |-> a, datagram |-> m]} \cup Held(toServer')
  BY HeldSplit
<1>6. SentBy(a) = {m} \cup SentBy(a)' /\ \A b \in Clients \ {a} : SentBy(b)' = SentBy(b)
  BY <1>5 DEF SentBy
<1>7. \A i \in DOMAIN toServer' : toServer'[i].from = a =>
        m.type = "HS" /\ toServer'[i].datagram.type = "DATA"
  BY <1>1, <1>2 DEF SentInTurn
<1>8. \A d \in SentBy(a)' : m.type = "HS" /\ d.type = "DATA"
  BY <1>7 DEF SentBy, Held
<1> QED
  BY <1>4, <1>6, <1>8

(* A datagram to the server is lost. *)
LEMMA OneLost ==
  ASSUME NEW S, toServer \in Seq([from : Clients, datagram : S]), SentInTurn,
         NEW i \in DOMAIN toServer, toServer' = Without(toServer, i)
  PROVE  SentInTurn'
<1> SUFFICES ASSUME NEW k \in DOMAIN toServer', NEW l \in DOMAIN toServer', k < l,
                    toServer'[k].from = toServer'[l].from
             PROVE  toServer'[k].datagram.type = "HS" /\ toServer'[l].datagram.type = "DATA"
  BY DEF SentInTurn
<1>1. /\ Moved(i, k) \in DOMAIN toServer /\ toServer'[k] = toServer[Moved(i, k)]
      /\ Moved(i, l) \in DOMAIN toServer /\ toServer'[l] = toServer[Moved(i, l)]
      /\ Moved(i, k) < Moved(i, l)
  BY WithoutMoves
<1> QED
  BY <1>1 DEF SentInTurn

-----------------------------------------------------------------------------
(* What a client sends joins what is on its way; the others' stays as it is. *)
LEMMA ClientSent ==
  ASSUME TransportInv, NEW a \in Clients, ClientStep(a)
  PROVE  /\ SentBy(a)' = SentBy(a) \cup Held(sent')
         /\ \A b \in Clients \ {a} : SentBy(b)' = SentBy(b)
<1> DEFINE more == From(a, sent')
           S    == [from : Clients, datagram : ToServerTypes]
<1>1. sent' \in Seq(ToServerTypes) /\ toServer' = toServer \o more /\ toServer \in Seq(S)
  BY ClientStepKeeps DEF ClientStepOK, ClientSends, TransportInv, NetworkOK
<1>2. /\ more \in Seq(S)
      /\ \A p \in Held(more) : p.from = a /\ p.datagram \in Held(sent')
  BY <1>1, HeldFrom
<1>3. \A d \in Held(sent') : [from |-> a, datagram |-> d] \in Held(more)
  <2> SUFFICES ASSUME NEW i \in DOMAIN sent'
               PROVE  [from |-> a, datagram |-> sent'[i]] \in Held(more)
    BY DEF Held
  <2>1. i \in DOMAIN more /\ more[i] = [from |-> a, datagram |-> sent'[i]]
    BY <1>1 DEF From
  <2> HIDE DEF more
  <2> QED
    BY <2>1 DEF Held
<1> HIDE DEF more, S
<1>4. Held(toServer') = Held(toServer) \cup Held(more)
  BY <1>1, <1>2, HeldConcat
<1>5. SentBy(a)' \subseteq SentBy(a) \cup Held(sent')
  BY <1>2, <1>4 DEF SentBy
<1>6. SentBy(a) \subseteq SentBy(a)'
  BY <1>4 DEF SentBy
<1>7. Held(sent') \subseteq SentBy(a)'
  <2> SUFFICES ASSUME NEW d \in Held(sent') PROVE d \in SentBy(a)'
    OBVIOUS
  <2> DEFINE p == [from |-> a, datagram |-> d]
  <2>1. p \in Held(toServer') /\ p.from = a /\ p.datagram = d
    BY <1>3, <1>4
  <2> HIDE DEF p
  <2> QED
    BY <2>1 DEF SentBy
<1>8. ASSUME NEW b \in Clients \ {a} PROVE SentBy(b)' = SentBy(b)
  BY <1>2, <1>4 DEF SentBy
<1> QED
  BY <1>5, <1>6, <1>7, <1>8

(* A client with nothing on its way sends a segment, or a handshake and a segment. *)
InTurn(datagrams) ==
  \/ datagrams = <<>>
  \/ \E d : datagrams = <<d>>
  \/ \E h, d : datagrams = <<h, d>> /\ h.type = "HS" /\ d.type = "DATA"

LEMMA SentInTurnStays ==
  ASSUME TransportInv, SentInTurn, NEW a \in Clients, ClientStep(a), InTurn(sent'),
         SentBy(a) = {} \/ sent' = <<>>
  PROVE  SentInTurn'
<1> DEFINE more == From(a, sent')
           n    == Len(toServer)
           S    == [from : Clients, datagram : ToServerTypes]
<1>1. sent' \in Seq(ToServerTypes) /\ toServer' = toServer \o more /\ toServer \in Seq(S)
  BY ClientStepKeeps DEF ClientStepOK, ClientSends, TransportInv, NetworkOK
<1>2. more \in Seq(S)
  BY <1>1, HeldFrom
<1>3. CASE sent' = <<>>
  <2>1. more = <<>>
    BY <1>3 DEF From
  <2>2. toServer' = toServer
    BY <1>1, <2>1
  <2> QED
    BY <2>2 DEF SentInTurn
<1>4. CASE SentBy(a) = {}
  <2>1. \A i \in 1..n : toServer[i].from # a
    <3>1. \A i \in 1..n : toServer[i] \in Held(toServer)
      BY <1>1 DEF Held
    <3> QED
      BY <1>4, <3>1 DEF SentBy
  <2>2. /\ Len(more) = Len(sent') /\ Len(sent') \in Nat
        /\ \A i \in 1..Len(more) : more[i].from = a /\ more[i].datagram = sent'[i]
    BY <1>1 DEF From
  <2> HIDE DEF more
  <2>3. \A i, j \in 1..Len(more) : i < j =>
          more[i].datagram.type = "HS" /\ more[j].datagram.type = "DATA"
    <3>1. CASE sent' = <<>> \/ \E d : sent' = <<d>>
      BY <2>2, <3>1
    <3>2. CASE \E h, d : sent' = <<h, d>> /\ h.type = "HS" /\ d.type = "DATA"
      <4>1. PICK h, d : sent' = <<h, d>> /\ h.type = "HS" /\ d.type = "DATA"
        BY <3>2
      <4>2. Len(more) = 2 /\ \A i, j \in 1..2 : i < j => i = 1 /\ j = 2
        BY <2>2, <4>1
      <4>3. more[1].datagram = h /\ more[2].datagram = d
        <5>1. 1 \in 1..Len(more) /\ 2 \in 1..Len(more) /\ sent'[1] = h /\ sent'[2] = d
          BY <4>1, <4>2
        <5> QED
          BY <2>2, <5>1
      <4> QED
        BY <4>1, <4>2, <4>3
    <3> QED
      BY <3>1, <3>2 DEF InTurn
  <2> DEFINE size   == Len(more)
             joined == toServer \o more
  <2>4. /\ n \in Nat /\ size \in Nat /\ DOMAIN joined = 1..(n + size)
        /\ \A k \in 1..n : joined[k] = toServer[k]
        /\ \A k \in 1..size : joined[n + k] = more[k]
        /\ DOMAIN toServer = 1..n
    BY <1>1, <1>2, JoinedParts
  <2>5. \A k \in 1..size : more[k].from = a
    BY <2>2 DEF size
  <2>6. toServer' = joined
    BY <1>1
  <2> HIDE DEF n, S, size, joined
  <2> SUFFICES ASSUME NEW k \in 1..(n + size), NEW l \in 1..(n + size), k < l,
                      joined[k].from = joined[l].from
               PROVE  joined[k].datagram.type = "HS" /\ joined[l].datagram.type = "DATA"
    BY <2>4, <2>6 DEF SentInTurn
  <2>7. CASE l <= n
    <3>1. k \in 1..n /\ l \in 1..n
      BY <2>4, <2>7
    <3> QED
      BY <2>4, <3>1 DEF SentInTurn
  <2>8. CASE k > n
    <3>1. n \in Nat /\ size \in Nat
      BY <2>4
    <3>2. /\ k - n \in 1..size /\ l - n \in 1..size /\ k - n < l - n
          /\ n + (k - n) = k /\ n + (l - n) = l
      BY <2>8, <3>1
    <3>3. joined[k] = more[k - n] /\ joined[l] = more[l - n]
      BY <2>4, <3>2
    <3> QED
      BY <2>3, <3>2, <3>3 DEF size
  <2>9. CASE k <= n /\ l > n
    <3>1. n \in Nat /\ size \in Nat
      BY <2>4
    <3>2. k \in 1..n /\ l - n \in 1..size /\ n + (l - n) = l
      BY <2>9, <3>1
    <3>3. joined[k] = toServer[k] /\ joined[l] = more[l - n]
      BY <2>4, <3>2
    <3> QED
      BY <2>1, <2>5, <3>2, <3>3
  <2>10. n \in Nat /\ k \in Nat /\ l \in Nat
    BY <2>4
  <2> QED
    BY <2>7, <2>8, <2>9, <2>10
<1> QED
  BY <1>3, <1>4

(* Nothing expires while a handshake may be kept. *)
LEMMA NothingExpires ==
  ASSUME PatientNetwork, now \in Nat, NEW hs, HandshakesOK(hs), NEW cl, ClientsOK(cl),
         NEW queue, NEW lap \in Laps, EndTurn(hs, cl, queue, lap)
  PROVE  /\ handshakes' = hs
         /\ DOMAIN clients' = DOMAIN cl /\ \A c \in DOMAIN cl : clients'[c] = cl[c]
<1> DEFINE tH == now + lap["purgeHandshakes"]
           tC == now + lap["purgeClients"]
<1>1. /\ tH \in Nat /\ tC \in Nat /\ tH <= tC /\ tC <= MaxTime
      /\ MaxTime <= HANDSHAKE_TIMEOUT /\ HANDSHAKE_TIMEOUT <= INACTIVITY_TIMEOUT
      /\ MaxTime \in Nat /\ HANDSHAKE_TIMEOUT \in Nat /\ INACTIVITY_TIMEOUT \in Nat
  BY LapType, TimeoutAssumption, BoundAssumption DEF EndTurn, PatientNetwork
<1>2. /\ handshakes' = RemoveExpiredHandshakes(hs, tH)
      /\ clients' = RemoveInactiveClients(cl, queue, tC)
  BY DEF EndTurn
<1> HIDE DEF tH, tC
<1>3. \A c \in DOMAIN hs : hs[c].last_active \in Nat
  BY DEF HandshakesOK, IsMap, HandshakeState
<1>4. \A c \in DOMAIN hs : tH <= hs[c].last_active + HANDSHAKE_TIMEOUT
  BY <1>1, <1>3
<1>5. \A c \in DOMAIN cl : cl[c].last_active \in Nat
  BY DEF ClientsOK, IsClientState
<1>6. \A c \in DOMAIN cl : ~ (cl[c].last_active + INACTIVITY_TIMEOUT < tC)
  BY <1>1, <1>5
<1>7. handshakes' = [c \in DOMAIN hs |-> hs[c]]
  BY <1>2, <1>4 DEF RemoveExpiredHandshakes, Keep
<1>8. hs = [c \in DOMAIN hs |-> hs[c]]
  BY DEF HandshakesOK, IsMap
<1>9. clients' = [c \in DOMAIN cl |-> cl[c]]
  BY <1>2, <1>6 DEF RemoveInactiveClients, Keep
<1> QED
  BY <1>7, <1>8, <1>9

-----------------------------------------------------------------------------
(* A client whose own state, datagrams, session and executions stay is patient after
   the step, too. *)
Same(a) ==
  /\ pc'[a] = pc[a] /\ clientId'[a] = clientId[a] /\ calls'[a] = calls[a]
  /\ outgoing'[a] = outgoing[a] /\ acked'[a] = acked[a] /\ resends'[a] = resends[a]
  /\ incoming'[a] = incoming[a] /\ result'[a] = result[a]

SessionKept(c) ==
  /\ c \in DOMAIN handshakes => c \in DOMAIN handshakes'
  /\ c \in Complete <=> c \in Complete'
  /\ c \in Complete => clients'[c].segments = clients[c].segments

ServiceKept(a) ==
  /\ scenario' = scenario
  /\ DamageUsed => DamageUsed'
  /\ \A c \in ClientIds : Uses(a, c) => SessionKept(c)
  /\ \A k \in 1..MaxCalls : Executed(a, k)' = Executed(a, k)

(* The ids of a client that the invariant speaks of are ids it uses. *)
LEMMA OwnIds ==
  ASSUME TransportInv, NEW a \in Clients
  PROVE  /\ pc[a] \in Named => clientId[a] \in ClientIds /\ Uses(a, clientId[a])
         /\ \A d \in Arriving(a) : d.type # "INIT_REQUEST" /\ d.id \in ClientIds /\ Uses(a, d.id)
<1>1. pc[a] \in Named => clientId[a] \in ClientIds
  BY DEF TransportInv, ProcessesOK, ClientOK
<1>2. ASSUME NEW d \in Arriving(a)
      PROVE  d.type # "INIT_REQUEST" /\ d.id \in ClientIds
  <2>1. d \in ToClientTypes /\ d.type # "INIT_REQUEST"
    BY HeldTypes DEF TransportInv, NetworkOK, Arriving
  <2> QED
    BY <2>1 DEF ToClientTypes, Datagram
<1> QED
  BY <1>1, <1>2 DEF Uses, Arriving

LEMMA PiecesKept ==
  ASSUME NEW a \in Clients, calls'[a] = calls[a], scenario' = scenario,
         DamageUsed => DamageUsed'
  PROVE  /\ \A i, piece : IsPieceOf(a, i, piece) => IsPieceOf(a, i, piece)'
         /\ \A d : IsAwaited(a, d) => IsAwaited(a, d)'
         /\ \A k : Message(a, k)' = Message(a, k)
  BY DEF IsPieceOf, IsAwaited, AnswerPart, Chunk, Damaged, Message, RequestOf

LEMMA PatientStays ==
  ASSUME TransportInv, NEW a \in Clients, PatientClient(a),
         Same(a), SentBy(a)' = SentBy(a), toClient'[a] = toClient[a], ServiceKept(a)
  PROVE  PatientClient(a)'
<1>1. Arriving(a)' = Arriving(a) /\ InOrder(toClient[a])'
  BY DEF Arriving, Held, PatientClient, InOrder, Rank
<1>2. /\ \A i, piece : IsPieceOf(a, i, piece) => IsPieceOf(a, i, piece)'
      /\ \A d : IsAwaited(a, d) => IsAwaited(a, d)'
      /\ \A k : Message(a, k)' = Message(a, k)
  BY PiecesKept DEF Same, ServiceKept
<1>3. \A d : IsCurrent(a, d)' <=> IsCurrent(a, d)
  BY DEF IsCurrent, Same, ServiceKept, Chunk
<1>4. /\ pc[a] \in Named => SessionKept(clientId[a])
      /\ \A d \in Arriving(a) : SessionKept(d.id)
  BY OwnIds DEF ServiceKept
<1>5. AtRest(a)'
  BY <1>1 DEF PatientClient, AtRest, Same
<1>6. AwaitsInit(a)'
  BY <1>1, <1>4 DEF PatientClient, AwaitsInit, Same, SessionKept
<1>7. AwaitsAck(a)'
  <2>1. pc[a] = "awaitAck" => (clientId[a] \in Complete <=> clientId[a] \in Complete')
    BY <1>4 DEF SessionKept, Named
  <2> QED
    BY <1>1, <1>2, <1>3, <2>1 DEF PatientClient, AwaitsAck, Same, HasType, ServiceKept
<1>8. AwaitsResponse(a)'
  <2>1. pc[a] = "awaitResponse" => (clientId[a] \in Complete <=> clientId[a] \in Complete')
    BY <1>4 DEF SessionKept, Named
  <2> QED
    BY <1>1, <1>2, <2>1 DEF PatientClient, AwaitsResponse, Same, ServiceKept
<1>9. IsLinked(a)'
  BY <1>2, <1>4 DEF PatientClient, IsLinked, Same, SessionKept
<1>10. Sends(a)' <=> Sends(a)
  BY DEF Sends
<1>11. Stored(a)' = Stored(a) /\ Tries(a)' = Tries(a)
  BY <1>1, <1>10 DEF Stored, Tries, Same, ServiceKept
<1>12. IsBuffered(a)'
  <2> SUFFICES ASSUME NEW c \in Complete', pc'[a] \in Named, c = clientId'[a]
               PROVE  /\ DOMAIN clients'[c].segments = 0..(Stored(a)' - 1)
                      /\ \A seq \in DOMAIN clients'[c].segments :
                           clients'[c].segments[seq] = Chunk(a, calls'[a], seq + 1)
    BY DEF IsBuffered, Chunk
  <2>1. pc[a] \in Named /\ c = clientId[a] /\ calls'[a] = calls[a]
    BY DEF Same
  <2>2. c \in Complete /\ clients'[c].segments = clients[c].segments
    BY <1>4, <2>1 DEF SessionKept
  <2> QED
    BY <1>11, <2>1, <2>2 DEF PatientClient, IsBuffered
<1>13. IsHeard(a)'
  BY <1>1, <1>10 DEF PatientClient, IsHeard, Same, ServiceKept
<1>14. IsCounted(a)'
  BY <1>1, <1>11 DEF PatientClient, IsCounted, Same, ServiceKept
<1>15. HasResult(a)'
  BY <1>2 DEF PatientClient, HasResult, Same, ServiceKept
<1> QED
  BY <1>1, <1>5, <1>6, <1>7, <1>8, <1>9, <1>12, <1>13, <1>14, <1>15 DEF PatientClient

-----------------------------------------------------------------------------
(* The steps of the clients. *)

(* A step of a client changes nothing at the server. *)
LEMMA ClientService ==
  ASSUME TransportInv, NEW a \in Clients, ClientStep(a)
  PROVE  /\ UNCHANGED <<handshakes, clients, executed, faults, scenario>>
         /\ Complete' = Complete /\ (DamageUsed' <=> DamageUsed)
         /\ \A k : Message(a, k)' = Message(a, k) /\ Executed(a, k)' = Executed(a, k)
         /\ \A b \in Clients : ServiceKept(b)
<1>1. UNCHANGED <<handshakes, clients, executed, faults, scenario>>
  BY ClientStepFrame DEF managers
<1>2. Complete' = Complete /\ (DamageUsed' <=> DamageUsed)
  BY <1>1 DEF Complete, DamageUsed
<1>3. \A b, k : Message(b, k)' = Message(b, k) /\ Executed(b, k)' = Executed(b, k)
  BY <1>1 DEF Executed, Message, RequestOf, Chunk, Count
<1> QED
  BY <1>1, <1>2, <1>3 DEF ServiceKept, SessionKept

LEMMA OthersPatient ==
  ASSUME TransportInv, NEW a \in Clients, ClientStep(a),
         NEW b \in Clients \ {a}, PatientClient(b)
  PROVE  PatientClient(b)'
<1>1. Same(b)
  BY ClientStepKeeps DEF ClientStepOK, OthersUnchanged, Same
<1>2. SentBy(b)' = SentBy(b)
  BY ClientSent
<1>3. toClient'[b] = toClient[b]
  <2>1. UNCHANGED toClient \/ toClient' = [toClient EXCEPT ![a] = Tail(@)]
    BY DEF ClientStep, Construct, Call, Receive, GiveUpWaiting
  <2> QED
    BY <2>1 DEF TransportInv, NetworkOK
<1> QED
  BY <1>1, <1>2, <1>3, ClientService, PatientStays

(* The datagram a client takes, and the ones behind it. *)
LEMMA Taken ==
  ASSUME TransportInv, NEW a \in Clients, PatientClient(a), Receive(a),
         NEW m, m = Head(toClient[a])
  PROVE  /\ Take(a, m) /\ m \in ToClientTypes /\ m \in Arriving(a)
         /\ Arriving(a) = {m} \cup Arriving(a)'
         /\ InOrder(toClient[a])'
         /\ \A d \in Arriving(a)' :
              /\ m.type # "HS_COMPLETE" => d.type = "DATA"
              /\ m.type = "DATA" => m.seq < d.seq
<1>1. /\ toClient[a] \in Seq(ToClientTypes) /\ toClient[a] # <<>> /\ Take(a, m)
      /\ toClient' = [toClient EXCEPT ![a] = Tail(toClient[a])] /\ InOrder(toClient[a])
      /\ toClient \in [Clients -> Seq(ToClientTypes)]
  BY DEF TransportInv, NetworkOK, Receive, PatientClient
<1>2. toClient'[a] = Tail(toClient[a])
  BY <1>1
<1>3. /\ Arriving(a) = {m} \cup Arriving(a)'
      /\ \A d \in Arriving(a) : d \in ToClientTypes /\ d.type # "INIT_REQUEST"
  BY <1>1, <1>2, HeldSplit, HeldTypes DEF Arriving, TransportInv, NetworkOK
<1>4. InOrder(Tail(toClient[a])) /\ \A d \in Held(Tail(toClient[a])) : Rank(m) < Rank(d)
  BY <1>1, TailInOrder
<1>5. InOrder(toClient[a])'
  BY <1>2, <1>4 DEF InOrder, Rank
<1>6. ASSUME NEW d \in Arriving(a)'
      PROVE  /\ m.type # "HS_COMPLETE" => d.type = "DATA"
             /\ m.type = "DATA" => m.seq < d.seq
  <2>1. Rank(m) < Rank(d)
    BY <1>2, <1>4, <1>6 DEF Arriving
  <2>2. d \in ToClientTypes /\ m \in ToClientTypes
        /\ d.type # "INIT_REQUEST" /\ m.type # "INIT_REQUEST"
    BY <1>3, <1>6
  <2>3. /\ m.type \in {"HS_COMPLETE", "DATA", "ACK", "NACK", "HS"}
        /\ d.type \in {"HS_COMPLETE", "DATA", "ACK", "NACK", "HS"}
    BY <2>2 DEF ToClientTypes, Datagram
  <2> QED
    BY <2>1, <2>2, <2>3, RankTypes
<1> QED
  BY <1>1, <1>3, <1>5, <1>6

(* The constructor sends its INIT_REQUEST. *)
LEMMA ConstructPatient ==
  ASSUME TransportInv, NEW a \in Clients, PatientClient(a), Construct(a)
  PROVE  PatientClient(a)' /\ InTurn(sent') /\ SentBy(a) = {}
<1>1. ClientStep(a)
  BY DEF ClientStep
<1>2. /\ pc[a] = "new" /\ pc'[a] = "awaitInit" /\ sent' = <<InitRequest>>
      /\ UNCHANGED <<clientId, outgoing, acked, resends, incoming, result, toClient, calls>>
  BY DEF Construct, PerformHandshake, Goto, Emit, TransportInv, ProcessesOK, ProcessTypes
<1>3. SentBy(a) = {} /\ Arriving(a) = {}
  BY <1>2 DEF PatientClient, AtRest
<1>4. SentBy(a)' = {InitRequest} /\ Arriving(a)' = {}
  <2>1. Held(sent') = {InitRequest}
    BY <1>2 DEF Held
  <2> QED
    BY <1>1, <1>2, <1>3, <2>1, ClientSent DEF Arriving
<1>5. ServiceKept(a) /\ Complete' = Complete /\ incoming[a] = EmptyMap
      /\ \A k : Message(a, k)' = Message(a, k) /\ Executed(a, k)' = Executed(a, k)
  BY <1>1, <1>2, ClientService DEF TransportInv, ProcessesOK, ClientOK
<1>6. InOrder(toClient[a])'
  BY <1>2 DEF PatientClient, InOrder, Rank
<1>7. AtRest(a)' /\ AwaitsInit(a)' /\ AwaitsAck(a)' /\ AwaitsResponse(a)'
  BY <1>2, <1>4 DEF AtRest, AwaitsInit, AwaitsAck, AwaitsResponse
<1>8. IsLinked(a)' /\ IsBuffered(a)'
  BY <1>2 DEF IsLinked, IsBuffered, Named, InCall
<1>9. IsHeard(a)'
  BY <1>2, <1>5 DEF PatientClient, IsHeard, ServiceKept
<1>10. IsCounted(a)'
  BY <1>2, <1>4, <1>5 DEF PatientClient, IsCounted
<1>11. HasResult(a)'
  BY <1>2, <1>5, PiecesKept DEF PatientClient, HasResult, ServiceKept
<1>12. InTurn(sent')
  BY <1>2 DEF InTurn
<1> QED
  BY <1>3, <1>6, <1>7, <1>8, <1>9, <1>10, <1>11, <1>12 DEF PatientClient

(* The server's answer gives the client its id; the handshake is not complete. *)
LEMMA InitAnsweredPatient ==
  ASSUME TransportInv, NEW a \in Clients, PatientClient(a), Receive(a),
         NEW m, m = Head(toClient[a]), InitAnswered(a, m)
  PROVE  PatientClient(a)' /\ sent' = <<>>
<1>1. ClientStep(a) /\ pc[a] = "awaitInit"
  BY DEF ClientStep, InitAnswered
<1>2. m \in Arriving(a) /\ Arriving(a) = {m} \cup Arriving(a)' /\ InOrder(toClient[a])'
      /\ \A d \in Arriving(a)' : m.type # "HS_COMPLETE" => d.type = "DATA"
  BY Taken
<1>3. /\ SentBy(a) = {}
      /\ \A d \in Arriving(a) : d = Handshake(d.id) /\ d.id \in DOMAIN handshakes \ Complete
  BY <1>1, <1>2 DEF PatientClient, AwaitsInit
<1>4. \A d \in Arriving(a) : d.type = "HS"
  BY <1>3 DEF Handshake
<1>5. Arriving(a)' = {}
  BY <1>2, <1>4
<1>6. /\ pc'[a] = "idle" /\ clientId'[a] = m.id /\ sent' = <<>>
      /\ UNCHANGED <<outgoing, acked, resends, incoming, result, calls>>
  BY <1>2, <1>4 DEF InitAnswered, Goto, Emit, TransportInv, ProcessesOK, ProcessTypes, Receive
<1>7. SentBy(a)' = {}
  <2>1. Held(sent') = {}
    BY <1>6 DEF Held
  <2> QED
    BY <1>1, <1>3, <2>1, ClientSent
<1>8. ServiceKept(a) /\ Complete' = Complete /\ handshakes' = handshakes
      /\ \A k : Message(a, k)' = Message(a, k) /\ Executed(a, k)' = Executed(a, k)
  BY <1>1, ClientService
<1>9. AtRest(a)' /\ AwaitsInit(a)' /\ AwaitsAck(a)' /\ AwaitsResponse(a)'
  BY <1>5, <1>6, <1>7 DEF AtRest, AwaitsInit, AwaitsAck, AwaitsResponse
<1>10. IsLinked(a)' /\ IsBuffered(a)'
  BY <1>2, <1>3, <1>6, <1>8 DEF IsLinked, IsBuffered, InCall
<1>11. IsHeard(a)'
  BY <1>6, <1>8 DEF PatientClient, IsHeard, ServiceKept
<1>12. IsCounted(a)'
  BY <1>5, <1>6, <1>8 DEF PatientClient, IsCounted
<1>13. HasResult(a)'
  BY <1>6, <1>8, PiecesKept DEF PatientClient, HasResult, ServiceKept
<1> QED
  BY <1>2, <1>6, <1>9, <1>10, <1>11, <1>12, <1>13 DEF PatientClient

(* A wait expires only when nothing is on its way. *)
LEMMA Silence ==
  ASSUME TransportInv, NEW a \in Clients, PatientNetwork, GiveUpWaiting(a)
  PROVE  /\ ClientStep(a) /\ Expire(a) /\ UNCHANGED <<toClient, calls>>
         /\ SentBy(a) = {} /\ Arriving(a) = {} /\ Arriving(a)' = {}
<1>1. NothingOnItsWay(a) /\ Expire(a) /\ UNCHANGED <<toClient, calls>> /\ ClientStep(a)
  BY DEF PatientNetwork, GiveUpWaiting, ClientStep
<1>2. SentBy(a) = {}
  BY <1>1 DEF NothingOnItsWay, SentBy, Held
<1>3. Arriving(a) = {}
  BY <1>1 DEF NothingOnItsWay, Arriving, Held
<1> QED
  BY <1>1, <1>2, <1>3 DEF Arriving

LEMMA InitTimeoutPatient ==
  ASSUME TransportInv, NEW a \in Clients, PatientClient(a), PatientNetwork,
         GiveUpWaiting(a), InitTimeout(a)
  PROVE  PatientClient(a)' /\ sent' = <<>>
<1>1. /\ ClientStep(a) /\ UNCHANGED <<toClient, calls>>
      /\ SentBy(a) = {} /\ Arriving(a)' = {}
  BY Silence
<1>2. /\ pc'[a] = "closed" /\ sent' = <<>>
      /\ UNCHANGED <<clientId, outgoing, acked, resends, incoming, result>>
  BY DEF InitTimeout, Goto, Emit, TransportInv, ProcessesOK, ProcessTypes
<1>3. SentBy(a)' = {}
  <2>1. Held(sent') = {}
    BY <1>2 DEF Held
  <2> QED
    BY <1>1, <2>1, ClientSent
<1>4. ServiceKept(a) /\ \A k : Message(a, k)' = Message(a, k) /\ Executed(a, k)' = Executed(a, k)
  BY <1>1, ClientService
<1>5. InOrder(toClient[a])'
  BY <1>1 DEF PatientClient, InOrder, Rank
<1>6. AtRest(a)' /\ AwaitsInit(a)' /\ AwaitsAck(a)' /\ AwaitsResponse(a)'
  BY <1>1, <1>2, <1>3 DEF AtRest, AwaitsInit, AwaitsAck, AwaitsResponse
<1>7. IsLinked(a)' /\ IsBuffered(a)'
  BY <1>2 DEF IsLinked, IsBuffered, Named, InCall
<1>8. IsHeard(a)'
  BY <1>2, <1>4 DEF PatientClient, IsHeard, ServiceKept
<1>9. IsCounted(a)'
  BY <1>1, <1>2, <1>4 DEF PatientClient, IsCounted
<1>10. HasResult(a)'
  BY <1>1, <1>2, <1>4, PiecesKept DEF PatientClient, HasResult, ServiceKept
<1> QED
  BY <1>2, <1>5, <1>6, <1>7, <1>8, <1>9, <1>10 DEF PatientClient

-----------------------------------------------------------------------------
(* The segments of the present message, one by one. *)
LEMMA SegmentAt ==
  ASSUME ScenarioOK, NEW a \in Clients, NEW k \in 1..MaxCalls, NEW c,
         NEW i \in 1..scenario.request
  PROVE  /\ SegmentsOf(c, Message(a, k))[i]
              = Data(c, i - 1, scenario.request, TRUE, Chunk(a, k, i))
         /\ SegmentsOf(c, Message(a, k))[i].type = "DATA"
<1>1. /\ Len(Message(a, k)) = scenario.request /\ Message(a, k)[i] = Chunk(a, k, i)
  BY RequestTypes
<1>2. SegmentsOf(c, Message(a, k))[i]
        = Data(c, i - 1, scenario.request, TRUE, Chunk(a, k, i))
  BY <1>1 DEF SegmentsOf
<1> QED
  BY <1>2 DEF Data

(* sendMessage begins: the server's buffer for the client is empty. *)
LEMMA CallPatient ==
  ASSUME TransportInv, NEW a \in Clients, PatientClient(a), Call(a)
  PROVE  PatientClient(a)' /\ InTurn(sent') /\ SentBy(a) = {}
<1>1. ClientStep(a)
  BY DEF ClientStep
<1>2. PICK k : k = calls[a] + 1
  OBVIOUS
<1>3. /\ k \in 1..MaxCalls /\ calls[a] < k /\ acked[a] = 0 /\ resends[a] = 0
      /\ incoming[a] = EmptyMap /\ clientId[a] \in ClientIds
  BY <1>2, TransportAssumption
     DEF TransportInv, ProcessesOK, ProcessTypes, ClientOK, Call, SendMessage, Named, InCall
<1>4. PICK segments : segments = SegmentsOf(clientId[a], Message(a, k))
  OBVIOUS
<1>5. PICK d : d = segments[1]
  OBVIOUS
<1>6. /\ pc[a] = "idle" /\ pc'[a] = "awaitAck" /\ calls'[a] = k
      /\ outgoing'[a] = segments /\ result'[a] = Outcome("pending") /\ sent' = <<d>>
      /\ UNCHANGED <<clientId, acked, resends, incoming, toClient>>
  BY <1>2, <1>4, <1>5 DEF TransportInv, ProcessesOK, ProcessTypes, Call, SendMessage, Goto, Emit
<1>7. SentBy(a) = {} /\ Arriving(a) = {} /\ SentBy(a)' = {d} /\ Arriving(a)' = {}
  <2>1. Held(sent') = {d}
    BY <1>6 DEF Held
  <2>2. SentBy(a) = {} /\ Arriving(a) = {}
    BY <1>6 DEF PatientClient, AtRest
  <2> QED
    BY <1>1, <1>6, <2>1, <2>2, ClientSent DEF Arriving
<1>8. /\ Complete' = Complete /\ UNCHANGED <<handshakes, clients, scenario>>
      /\ \A j : Message(a, j)' = Message(a, j) /\ Executed(a, j)' = Executed(a, j)
  BY <1>1, ClientService
<1>9. scenario.request \in Nat /\ 1 \in 1..scenario.request /\ 1 - 1 = 0
  BY ScenarioTypes DEF TransportInv
<1>10. d = Data(clientId[a], 0, scenario.request, TRUE, Chunk(a, k, 1)) /\ d.type = "DATA"
  <2>1. \A i \in 1..scenario.request :
          /\ segments[i] = Data(clientId[a], i - 1, scenario.request, TRUE, Chunk(a, k, i))
          /\ segments[i].type = "DATA"
    BY <1>3, <1>4, SegmentAt DEF TransportInv
  <2> QED
    BY <1>5, <1>9, <2>1
<1>11. IsCurrent(a, d)'
  <2>1. d.intact = TRUE /\ 0 + 1 = 1
    BY <1>10 DEF Data
  <2> QED
    BY <1>3, <1>6, <1>8, <1>10, <2>1 DEF IsCurrent, Chunk, Data
<1>12. InOrder(toClient[a])'
  BY <1>6 DEF PatientClient, InOrder, Rank
<1>13. AtRest(a)' /\ AwaitsInit(a)' /\ AwaitsResponse(a)'
  BY <1>6 DEF AtRest, AwaitsInit, AwaitsResponse
<1>14. AwaitsAck(a)'
  BY <1>3, <1>6, <1>7, <1>8, <1>10, <1>11 DEF AwaitsAck, HasType
<1>15. IsLinked(a)'
  BY <1>4, <1>6, <1>8 DEF PatientClient, IsLinked, Named, InCall
<1>16. Stored(a) = 0 /\ Sends(a)' /\ Stored(a)' = 0
  BY <1>3, <1>6, <1>7, <1>10 DEF Stored, Sends
<1>17. IsBuffered(a)'
  <2> SUFFICES ASSUME NEW c \in Complete, c = clientId[a]
               PROVE  DOMAIN clients[c].segments = 0..(0 - 1)
    BY <1>6, <1>8, <1>16 DEF IsBuffered
  <2> QED
    BY <1>6, <1>16 DEF PatientClient, IsBuffered, Named
<1>18. IsHeard(a)'
  BY <1>3, <1>6, <1>16 DEF IsHeard
<1>19. IsCounted(a)'
  <2>1. \A j \in 1..MaxCalls : j >= k => Executed(a, j) = 0
    BY <1>2, <1>3, TransportAssumption
       DEF PatientClient, IsCounted, TransportInv, ProcessesOK, ProcessTypes
  <2>2. Tries(a)' = 0
    BY <1>3, <1>6, <1>16 DEF Tries
  <2> QED
    BY <1>3, <1>6, <1>7, <1>8, <2>1, <2>2 DEF IsCounted
<1>20. HasResult(a)'
  BY <1>6 DEF HasResult, Outcome
<1>21. InTurn(sent')
  BY <1>6 DEF InTurn
<1> QED
  BY <1>7, <1>12, <1>13, <1>14, <1>15, <1>17, <1>18, <1>19, <1>20, <1>21 DEF PatientClient

(* An ACK: it answers the present segment, and only data may be behind it. *)
LEMMA AckPatient ==
  ASSUME TransportInv, NEW a \in Clients, PatientClient(a), Receive(a),
         NEW m, m = Head(toClient[a]), pc[a] = "awaitAck", AckReceived(a, m)
  PROVE  PatientClient(a)' /\ InTurn(sent') /\ SentBy(a) = {}
<1>1. ClientStep(a) /\ m.type = "ACK"
  BY DEF ClientStep, AckReceived
<1>2. /\ m \in Arriving(a) /\ Arriving(a) = {m} \cup Arriving(a)' /\ InOrder(toClient[a])'
      /\ \A d \in Arriving(a)' : d.type = "DATA"
  <2>1. m.type # "HS_COMPLETE"
    BY <1>1
  <2> QED
    BY <2>1, Taken
<1>3. clientId[a] \in Complete /\ SentBy(a) = {}
  BY <1>1, <1>2 DEF PatientClient, AwaitsAck, HasType, Handshake
<1>4. PICK k : k = calls[a]
  OBVIOUS
<1>5. PICK n : n = acked[a] + 1
  OBVIOUS
<1>6. /\ k \in 1..MaxCalls /\ incoming[a] = EmptyMap /\ Len(outgoing[a]) = scenario.request
      /\ acked[a] \in Nat /\ n \in Nat /\ n <= scenario.request /\ scenario.request \in Nat
  BY <1>4, <1>5, CurrentSegment, ScenarioTypes, TransportAssumption
     DEF TransportInv, ProcessesOK, ProcessTypes, ClientOK, InCall
<1>7. /\ acked'[a] = n
      /\ UNCHANGED <<clientId, outgoing, resends, incoming, result, calls>>
  BY <1>5 DEF TransportInv, ProcessesOK, ProcessTypes, AckReceived, Receive
<1>8. /\ ServiceKept(a) /\ Complete' = Complete
      /\ UNCHANGED <<handshakes, clients, scenario>>
      /\ \A j : Message(a, j)' = Message(a, j) /\ Executed(a, j)' = Executed(a, j)
  BY <1>1, ClientService
<1>9. (\A d : IsAwaited(a, d) => IsAwaited(a, d)') /\ HasResult(a)'
  BY <1>7, <1>8, PiecesKept DEF PatientClient, HasResult, ServiceKept
<1>10. ~ Sends(a) /\ (\A d \in Arriving(a)' : d.type # "HS")
  BY <1>2, <1>3 DEF Sends
<1>11. CASE n < scenario.request
  <2>1. PICK d : d = outgoing[a][acked[a] + 2]
    OBVIOUS
  <2>2. pc'[a] = "awaitAck" /\ sent' = <<d>>
    BY <1>5, <1>6, <1>11, <2>1 DEF AckReceived, Emit
  <2>3. Arriving(a)' = {}
    <3>1. acked[a] + 1 # scenario.request
      BY <1>5, <1>6, <1>11
    <3> QED
      BY <1>2, <3>1 DEF PatientClient, AwaitsAck
  <2>4. SentBy(a)' = {d}
    <3>1. Held(sent') = {d}
      BY <2>2 DEF Held
    <3> QED
      BY <1>1, <1>3, <3>1, ClientSent
  <2>5. d = Data(clientId[a], n, scenario.request, TRUE, Chunk(a, k, n + 1)) /\ d.type = "DATA"
    <3>1. PICK i : i = n + 1
      OBVIOUS
    <3>2. acked[a] + 2 = i /\ i \in 1..scenario.request /\ i - 1 = n
      BY <1>5, <1>6, <1>11, <3>1
    <3>3. outgoing[a] = SegmentsOf(clientId[a], Message(a, k))
      BY <1>4 DEF PatientClient, IsLinked, InCall
    <3>4. /\ SegmentsOf(clientId[a], Message(a, k))[i]
               = Data(clientId[a], i - 1, scenario.request, TRUE, Chunk(a, k, i))
          /\ SegmentsOf(clientId[a], Message(a, k))[i].type = "DATA"
      BY <1>6, <3>2, SegmentAt DEF TransportInv
    <3> QED
      BY <2>1, <3>1, <3>2, <3>3, <3>4
  <2>6. IsCurrent(a, d)'
    <3>1. d.intact = TRUE
      BY <2>5 DEF Data
    <3> QED
      BY <1>4, <1>7, <1>8, <2>5, <3>1 DEF IsCurrent, Chunk, Data
  <2>7. AtRest(a)' /\ AwaitsInit(a)' /\ AwaitsResponse(a)'
    BY <2>2 DEF AtRest, AwaitsInit, AwaitsResponse
  <2>8. AwaitsAck(a)'
    BY <1>3, <1>7, <1>8, <2>2, <2>3, <2>4, <2>5, <2>6 DEF AwaitsAck, HasType
  <2>9. IsLinked(a)'
    BY <1>7, <1>8, <2>2 DEF PatientClient, IsLinked, Named, InCall
  <2>10. Stored(a) = n /\ Sends(a)' /\ Stored(a)' = n
    BY <1>5, <1>7, <1>10, <1>11, <2>2, <2>4, <2>5 DEF Stored, Sends
  <2>11. IsBuffered(a)'
    BY <1>7, <1>8, <2>2, <2>10 DEF PatientClient, IsBuffered, Named, Chunk
  <2>12. IsHeard(a)'
    BY <1>7, <1>8, <2>10 DEF PatientClient, IsHeard
  <2>13. Tries(a)' = Tries(a)
    BY <1>5, <1>7, <1>11, <2>10 DEF Tries
  <2>14. IsCounted(a)'
    BY <1>7, <1>8, <2>3, <2>13 DEF PatientClient, IsCounted
  <2>15. InTurn(sent')
    BY <2>2 DEF InTurn
  <2> QED
    BY <1>2, <1>3, <1>9, <2>7, <2>8, <2>9, <2>11, <2>12, <2>14, <2>15 DEF PatientClient
<1>12. CASE ~ (n < scenario.request)
  <2>1. pc'[a] = "awaitResponse" /\ sent' = <<>>
    BY <1>5, <1>6, <1>12
       DEF AckReceived, Emit, Goto, TransportInv, ProcessesOK, ProcessTypes
  <2>2. SentBy(a)' = {}
    <3>1. Held(sent') = {}
      BY <2>1 DEF Held
    <3> QED
      BY <1>1, <1>3, <3>1, ClientSent
  <2>3. AtRest(a)' /\ AwaitsInit(a)' /\ AwaitsAck(a)'
    BY <2>1 DEF AtRest, AwaitsInit, AwaitsAck
  <2>4. AwaitsResponse(a)'
    <3>1. \A d \in Arriving(a)' : IsAwaited(a, d)'
      BY <1>2, <1>9 DEF PatientClient, AwaitsAck
    <3>2. incoming'[a] = EmptyMap /\ DOMAIN EmptyMap = {}
      BY <1>6, <1>7 DEF EmptyMap
    <3> QED
      BY <1>3, <1>7, <1>8, <2>2, <3>1, <3>2 DEF AwaitsResponse
  <2>5. IsLinked(a)'
    BY <1>7, <1>8, <2>1 DEF PatientClient, IsLinked, Named, InCall
  <2>6. Stored(a) = 0 /\ Stored(a)' = 0
    BY <1>5, <1>10, <1>12, <2>1 DEF Stored
  <2>7. IsBuffered(a)'
    BY <1>7, <1>8, <2>1, <2>6 DEF PatientClient, IsBuffered, Named, Chunk
  <2>8. IsHeard(a)'
    BY <1>7, <1>8, <2>1 DEF PatientClient, IsHeard
  <2>9. IsCounted(a)'
    BY <1>2, <1>7, <1>8, <2>1 DEF PatientClient, IsCounted
  <2>10. InTurn(sent')
    BY <2>1 DEF InTurn
  <2> QED
    BY <1>2, <1>3, <1>9, <2>3, <2>4, <2>5, <2>7, <2>8, <2>9, <2>10 DEF PatientClient
<1> QED
  BY <1>11, <1>12

-----------------------------------------------------------------------------
(* A call ends with nothing under way and nothing in the buffer of the server. *)
LEMMA EndPatient ==
  ASSUME TransportInv, NEW a \in Clients, PatientClient(a), ClientStep(a),
         UNCHANGED calls, pc[a] \in InCall, NEW outcome, EndCall(a, outcome),
         SentBy(a) = {}, Arriving(a)' = {}, InOrder(toClient[a])', Stored(a) = 0,
         outcome.kind = "answer" =>
           /\ outcome.text = [i \in 1..scenario.answer |-> outcome.text[i]]
           /\ \A i \in 1..scenario.answer : IsPieceOf(a, i, outcome.text[i])
  PROVE  PatientClient(a)' /\ sent' = <<>>
<1>1. /\ pc'[a] = "idle" /\ result'[a] = outcome /\ resends'[a] = 0 /\ sent' = <<>>
      /\ UNCHANGED <<clientId, calls>>
  BY DEF EndCall, Goto, Emit, TransportInv, ProcessesOK, ProcessTypes
<1>2. SentBy(a)' = {}
  <2>1. Held(sent') = {}
    BY <1>1 DEF Held
  <2> QED
    BY <2>1, ClientSent
<1>3. /\ ServiceKept(a) /\ Complete' = Complete
      /\ UNCHANGED <<handshakes, clients, scenario>>
      /\ \A j : Message(a, j)' = Message(a, j) /\ Executed(a, j)' = Executed(a, j)
  BY ClientService
<1>4. AtRest(a)' /\ AwaitsInit(a)' /\ AwaitsAck(a)' /\ AwaitsResponse(a)'
  BY <1>1, <1>2 DEF AtRest, AwaitsInit, AwaitsAck, AwaitsResponse
<1>5. IsLinked(a)'
  BY <1>1, <1>3 DEF PatientClient, IsLinked, Named, InCall
<1>6. Stored(a)' = 0 /\ pc[a] \in Named
  BY <1>1 DEF Stored, Named, InCall
<1>7. IsBuffered(a)'
  <2> SUFFICES ASSUME NEW c \in Complete, c = clientId[a]
               PROVE  DOMAIN clients[c].segments = 0..(0 - 1)
    BY <1>1, <1>3, <1>6 DEF IsBuffered
  <2> QED
    BY <1>6 DEF PatientClient, IsBuffered
<1>8. IsHeard(a)'
  BY <1>1 DEF IsHeard
<1>9. IsCounted(a)'
  BY <1>1, <1>3 DEF PatientClient, IsCounted
<1>10. HasResult(a)'
  BY <1>1, <1>3, PiecesKept DEF HasResult, ServiceKept
<1> QED
  BY <1>1, <1>4, <1>5, <1>7, <1>8, <1>9, <1>10 DEF PatientClient

(* A NACK: only a message of one segment is damaged, and nothing is behind it. *)
LEMMA NackPatient ==
  ASSUME TransportInv, NEW a \in Clients, PatientClient(a), Receive(a),
         NEW m, m = Head(toClient[a]), pc[a] = "awaitAck", NackReceived(a, m)
  PROVE  PatientClient(a)' /\ sent' = <<>>
<1>1. /\ ClientStep(a) /\ m.type = "NACK" /\ EndCall(a, Outcome("NACK")) /\ UNCHANGED calls
      /\ pc[a] \in InCall
  BY DEF ClientStep, NackReceived, Receive, InCall
<1>2. /\ m \in Arriving(a) /\ Arriving(a) = {m} \cup Arriving(a)' /\ InOrder(toClient[a])'
      /\ \A d \in Arriving(a)' : d.type = "DATA"
  <2>1. m.type # "HS_COMPLETE"
    BY <1>1
  <2> QED
    BY <2>1, Taken
<1>3. SentBy(a) = {} /\ scenario.request = 1 /\ Arriving(a)' = {}
  BY <1>1, <1>2 DEF PatientClient, AwaitsAck, HasType
<1>4. Stored(a) = 0
  <2>1. ~ Sends(a) /\ ~ (acked[a] + 1 < scenario.request)
    BY <1>3, CurrentSegment DEF Sends
  <2> QED
    BY <2>1 DEF Stored
<1>5. Outcome("NACK").kind # "answer"
  BY DEF Outcome
<1> QED
  BY <1>1, <1>2, <1>3, <1>4, <1>5, EndPatient

(* A handshake: the server does not know the client yet, and nothing is behind it. *)
LEMMA HandshakePatient ==
  ASSUME TransportInv, NEW a \in Clients, PatientClient(a), Receive(a),
         NEW m, m = Head(toClient[a]), pc[a] = "awaitAck", HandshakeReceived(a, m)
  PROVE  PatientClient(a)' /\ InTurn(sent') /\ SentBy(a) = {}
<1>1. ClientStep(a) /\ m.type = "HS"
  BY DEF ClientStep, HandshakeReceived
<1>2. /\ m \in Arriving(a) /\ Arriving(a) = {m} \cup Arriving(a)' /\ InOrder(toClient[a])'
      /\ \A d \in Arriving(a)' : d.type = "DATA"
  <2>1. m.type # "HS_COMPLETE"
    BY <1>1
  <2> QED
    BY <2>1, Taken
<1>3. /\ clientId[a] \notin Complete /\ SentBy(a) = {} /\ acked[a] = 0
      /\ \A d \in Arriving(a) : d = Handshake(clientId[a])
  BY <1>1, <1>2 DEF PatientClient, AwaitsAck, HasType
<1>4. m.id = clientId[a] /\ Arriving(a)' = {}
  BY <1>2, <1>3 DEF Handshake
<1>5. PICK h : h = Handshake(clientId[a])
  OBVIOUS
<1>6. PICK d : d = Current(a)
  OBVIOUS
<1>7. PICK k : k = calls[a]
  OBVIOUS
<1>8. /\ sent' = <<h, d>> /\ clientId'[a] = clientId[a]
      /\ UNCHANGED <<pc, outgoing, acked, resends, incoming, result, calls>>
  BY <1>4, <1>5, <1>6
     DEF HandshakeReceived, Emit, Receive, TransportInv, ProcessesOK, ProcessTypes
<1>9. /\ ServiceKept(a) /\ Complete' = Complete
      /\ UNCHANGED <<handshakes, clients, scenario>>
      /\ \A j : Message(a, j)' = Message(a, j) /\ Executed(a, j)' = Executed(a, j)
  BY <1>1, ClientService
<1>10. SentBy(a)' = {h, d}
  <2>1. Held(sent') = {h, d}
    <3>1. DOMAIN sent' = {1, 2} /\ sent'[1] = h /\ sent'[2] = d
      BY <1>8
    <3> QED
      BY <3>1 DEF Held
  <2> QED
    BY <1>1, <1>3, <2>1, ClientSent
<1>11. /\ d = Data(clientId[a], 0, scenario.request, TRUE, Chunk(a, k, 1)) /\ d.type = "DATA"
       /\ scenario.request \in Nat \ {0}
  <2>1. k \in 1..MaxCalls /\ scenario.request \in Nat \ {0}
    BY <1>7, ScenarioTypes, TransportAssumption
       DEF TransportInv, ProcessesOK, ProcessTypes, ClientOK, InCall
  <2>2. PICK i : i = 1
    OBVIOUS
  <2>3. i \in 1..scenario.request /\ i - 1 = 0 /\ acked[a] + 1 = i
    BY <1>3, <2>1, <2>2
  <2>4. outgoing[a] = SegmentsOf(clientId[a], Message(a, k))
    BY <1>7 DEF PatientClient, IsLinked, InCall
  <2>5. /\ SegmentsOf(clientId[a], Message(a, k))[i]
             = Data(clientId[a], i - 1, scenario.request, TRUE, Chunk(a, k, i))
        /\ SegmentsOf(clientId[a], Message(a, k))[i].type = "DATA"
    BY <2>1, <2>3, SegmentAt, ZenonT(60) DEF TransportInv
  <2> QED
    BY <1>6, <2>1, <2>2, <2>3, <2>4, <2>5 DEF Current
<1>12. IsCurrent(a, d)'
  <2>1. d.intact = TRUE /\ 0 + 1 = 1
    BY <1>11 DEF Data
  <2> QED
    BY <1>3, <1>7, <1>8, <1>9, <1>11, <2>1 DEF IsCurrent, Chunk, Data
<1>13. AtRest(a)' /\ AwaitsInit(a)' /\ AwaitsResponse(a)'
  BY <1>8 DEF AtRest, AwaitsInit, AwaitsResponse
<1>14. AwaitsAck(a)'
  BY <1>3, <1>4, <1>5, <1>8, <1>9, <1>10, <1>12 DEF AwaitsAck, HasType
<1>15. IsLinked(a)'
  BY <1>8, <1>9 DEF PatientClient, IsLinked
<1>16. Sends(a)' /\ ~ Sends(a)
  BY <1>3, <1>10, <1>11 DEF Sends
<1>17. IsBuffered(a)'
  BY <1>3, <1>8, <1>9 DEF IsBuffered
<1>18. IsHeard(a)'
  BY <1>8, <1>9, <1>16 DEF PatientClient, IsHeard
<1>19. Tries(a)' = Tries(a)
  BY <1>1, <1>2, <1>8, <1>16 DEF Tries
<1>20. IsCounted(a)'
  BY <1>4, <1>8, <1>9, <1>19 DEF PatientClient, IsCounted
<1>21. HasResult(a)'
  BY <1>8, <1>9, PiecesKept DEF PatientClient, HasResult, ServiceKept
<1>22. InTurn(sent')
  <2>1. h.type = "HS"
    BY <1>5 DEF Handshake
  <2> QED
    BY <1>8, <1>11, <2>1 DEF InTurn
<1> QED
  BY <1>2, <1>3, <1>13, <1>14, <1>15, <1>17, <1>18, <1>20, <1>21, <1>22 DEF PatientClient

(* What awaitAck drops is no answer to the segment. *)
LEMMA OtherPatient ==
  ASSUME TransportInv, NEW a \in Clients, PatientClient(a), Receive(a),
         NEW m, m = Head(toClient[a]), pc[a] = "awaitAck", OtherReceived(a, m)
  PROVE  PatientClient(a)' /\ sent' = <<>>
<1>1. /\ ClientStep(a) /\ m.type \in {"DATA", "INIT_REQUEST", "HS_COMPLETE"} /\ sent' = <<>>
      /\ UNCHANGED <<pc, clientId, outgoing, acked, resends, incoming, result, calls>>
  BY DEF ClientStep, OtherReceived, clientVars, Emit, Receive
<1>2. Arriving(a) = {m} \cup Arriving(a)' /\ InOrder(toClient[a])'
  BY Taken
<1>3. SentBy(a)' = SentBy(a)
  <2>1. Held(sent') = {}
    BY <1>1 DEF Held
  <2> QED
    BY <1>1, <2>1, ClientSent
<1>4. /\ ServiceKept(a) /\ Complete' = Complete
      /\ UNCHANGED <<handshakes, clients, scenario>>
      /\ \A j : Message(a, j)' = Message(a, j) /\ Executed(a, j)' = Executed(a, j)
  BY <1>1, ClientService
<1>5. (\A d : IsAwaited(a, d) => IsAwaited(a, d)') /\ HasResult(a)'
  BY <1>1, <1>4, PiecesKept DEF PatientClient, HasResult, ServiceKept
<1>6. \A d : IsCurrent(a, d)' <=> IsCurrent(a, d)
  BY <1>1, <1>4 DEF IsCurrent, Chunk
<1>7. AtRest(a)' /\ AwaitsInit(a)' /\ AwaitsResponse(a)'
  BY <1>1 DEF AtRest, AwaitsInit, AwaitsResponse
<1>8. AwaitsAck(a)'
  BY <1>1, <1>2, <1>3, <1>4, <1>5, <1>6 DEF PatientClient, AwaitsAck, HasType
<1>9. IsLinked(a)'
  BY <1>1, <1>4 DEF PatientClient, IsLinked
<1>10. /\ Sends(a)' <=> Sends(a)
       /\ \A type \in {"HS", "ACK", "NACK"} :
            (\E d \in Arriving(a)' : d.type = type) <=> (\E d \in Arriving(a) : d.type = type)
  BY <1>1, <1>2, <1>3 DEF Sends
<1>11. Stored(a)' = Stored(a) /\ Tries(a)' = Tries(a)
  BY <1>1, <1>4, <1>10 DEF Stored, Tries
<1>12. IsBuffered(a)'
  BY <1>1, <1>4, <1>11 DEF PatientClient, IsBuffered, Chunk
<1>13. IsHeard(a)'
  BY <1>1, <1>4, <1>10 DEF PatientClient, IsHeard
<1>14. IsCounted(a)'
  BY <1>1, <1>2, <1>4, <1>11 DEF PatientClient, IsCounted
<1> QED
  BY <1>1, <1>2, <1>5, <1>7, <1>8, <1>9, <1>12, <1>13, <1>14 DEF PatientClient

-----------------------------------------------------------------------------
(* A wait for an ACK expires: something was lost, so the message is one segment. *)
LEMMA AckTimeoutPatient ==
  ASSUME TransportInv, NEW a \in Clients, PatientClient(a), PatientNetwork,
         GiveUpWaiting(a), AckTimeout(a)
  PROVE  PatientClient(a)' /\ InTurn(sent') /\ SentBy(a) = {}
<1>1. /\ ClientStep(a) /\ UNCHANGED <<toClient, calls>>
      /\ SentBy(a) = {} /\ Arriving(a) = {} /\ Arriving(a)' = {}
      /\ pc[a] = "awaitAck" /\ pc[a] \in InCall
  BY Silence DEF AckTimeout, InCall
<1>2. scenario.request = 1 /\ acked[a] = 0 /\ scenario.budget["loss"] # 0
  <2>1. scenario.budget["loss"] # 0
    BY <1>1 DEF PatientClient, IsHeard, Sends
  <2> QED
    BY <1>1, <2>1, CurrentSegment DEF PatientNetwork, Forgiving
<1>3. ~ Sends(a) /\ Stored(a) = 0
  BY <1>1, <1>2 DEF Sends, Stored
<1>4. InOrder(toClient[a])'
  BY <1>1 DEF PatientClient, InOrder, Rank
<1>5. CASE resends[a] < MaxResends
  <2>1. PICK d : d = Current(a)
    OBVIOUS
  <2>2. PICK k : k = calls[a]
    OBVIOUS
  <2>3. /\ resends'[a] = resends[a] + 1 /\ sent' = <<d>> /\ resends[a] \in Nat
        /\ UNCHANGED <<pc, clientId, outgoing, acked, incoming, result>>
    BY <1>5, <2>1, ResendAssumption
       DEF AckTimeout, Emit, TransportInv, ProcessesOK, ProcessTypes
  <2>4. /\ ServiceKept(a) /\ Complete' = Complete
        /\ UNCHANGED <<handshakes, clients, scenario>>
        /\ \A j : Message(a, j)' = Message(a, j) /\ Executed(a, j)' = Executed(a, j)
    BY <1>1, ClientService
  <2>5. SentBy(a)' = {d}
    <3>1. Held(sent') = {d}
      BY <2>3 DEF Held
    <3> QED
      BY <1>1, <3>1, ClientSent
  <2>6. d = Data(clientId[a], 0, 1, TRUE, Chunk(a, k, 1)) /\ d.type = "DATA"
    <3>1. k \in 1..MaxCalls
      BY <1>1, <2>2, TransportAssumption
         DEF TransportInv, ProcessesOK, ProcessTypes, ClientOK
    <3>2. PICK i : i = 1
      OBVIOUS
    <3>3. i \in 1..scenario.request /\ i - 1 = 0 /\ acked[a] + 1 = i
      BY <1>2, <3>2
    <3>4. outgoing[a] = SegmentsOf(clientId[a], Message(a, k))
      BY <1>1, <2>2 DEF PatientClient, IsLinked
    <3>5. /\ SegmentsOf(clientId[a], Message(a, k))[i]
               = Data(clientId[a], i - 1, scenario.request, TRUE, Chunk(a, k, i))
          /\ SegmentsOf(clientId[a], Message(a, k))[i].type = "DATA"
      BY <3>1, <3>3, SegmentAt DEF TransportInv
    <3> QED
      BY <1>2, <2>1, <3>2, <3>3, <3>4, <3>5 DEF Current
  <2>7. IsCurrent(a, d)'
    <3>1. d.intact = TRUE /\ 0 + 1 = 1
      BY <2>6 DEF Data
    <3> QED
      BY <1>1, <1>2, <2>2, <2>3, <2>4, <2>6, <3>1 DEF IsCurrent, Chunk, Data
  <2>8. AtRest(a)' /\ AwaitsInit(a)' /\ AwaitsResponse(a)'
    BY <1>1, <2>3 DEF AtRest, AwaitsInit, AwaitsResponse
  <2>9. AwaitsAck(a)'
    BY <1>1, <1>2, <2>3, <2>4, <2>5, <2>6, <2>7 DEF AwaitsAck, HasType
  <2>10. IsLinked(a)'
    BY <1>1, <2>3, <2>4 DEF PatientClient, IsLinked
  <2>11. Sends(a)' /\ Stored(a)' = 0
    BY <1>1, <1>2, <2>3, <2>5, <2>6 DEF Sends, Stored
  <2>12. IsBuffered(a)'
    BY <1>1, <1>3, <2>3, <2>4, <2>11 DEF PatientClient, IsBuffered, Chunk
  <2>13. IsHeard(a)'
    BY <1>2, <2>4 DEF IsHeard
  <2>14. Tries(a) = resends[a] + 1 /\ Tries(a)' = resends[a] + 1
    BY <1>1, <1>2, <1>3, <2>3, <2>11 DEF Tries
  <2>15. IsCounted(a)'
    BY <1>1, <2>3, <2>4, <2>14 DEF PatientClient, IsCounted
  <2>16. HasResult(a)'
    BY <1>1, <2>3, <2>4, PiecesKept DEF PatientClient, HasResult, ServiceKept
  <2>17. InTurn(sent')
    BY <2>3 DEF InTurn
  <2> QED
    BY <1>1, <1>4, <2>8, <2>9, <2>10, <2>12, <2>13, <2>15, <2>16, <2>17 DEF PatientClient
<1>6. CASE ~ (resends[a] < MaxResends)
  <2>1. EndCall(a, Outcome("timeout")) /\ Outcome("timeout").kind # "answer"
    BY <1>6 DEF AckTimeout, Outcome
  <2>2. PatientClient(a)' /\ sent' = <<>>
    BY <1>1, <1>3, <1>4, <2>1, EndPatient
  <2> QED
    BY <1>1, <2>2 DEF InTurn
<1> QED
  BY <1>5, <1>6

LEMMA ResponseTimeoutPatient ==
  ASSUME TransportInv, NEW a \in Clients, PatientClient(a), PatientNetwork,
         GiveUpWaiting(a), ResponseTimeout(a)
  PROVE  PatientClient(a)' /\ sent' = <<>>
<1>1. /\ ClientStep(a) /\ UNCHANGED <<toClient, calls>>
      /\ SentBy(a) = {} /\ Arriving(a)' = {}
      /\ pc[a] = "awaitResponse" /\ pc[a] \in InCall
  BY Silence DEF ResponseTimeout, InCall
<1>2. Stored(a) = 0
  BY <1>1 DEF Stored
<1>3. InOrder(toClient[a])'
  BY <1>1 DEF PatientClient, InOrder, Rank
<1>4. EndCall(a, Outcome("timeout")) /\ Outcome("timeout").kind # "answer"
  BY DEF ResponseTimeout, Outcome
<1> QED
  BY <1>1, <1>2, <1>3, <1>4, EndPatient

(* receiveResponse collects the segments of the answer to the present call, and when
   it has them all, none is left on the way. *)
LEMMA Collects ==
  ASSUME TransportInv, NEW a \in Clients, PatientClient(a), Receive(a),
         NEW m, m = Head(toClient[a]), pc[a] = "awaitResponse", m.type = "DATA"
  PROVE  /\ m.tot = scenario.answer /\ scenario.answer \in Nat
         /\ DOMAIN Gathered(a, m) \subseteq 0..(scenario.answer - 1)
         /\ \A seq \in DOMAIN Gathered(a, m) : IsPieceOf(a, seq + 1, Gathered(a, m)[seq])
         /\ \A d \in Arriving(a)' : IsAwaited(a, d) /\ d.seq \notin DOMAIN Gathered(a, m)
<1>1. /\ m \in Arriving(a) /\ Arriving(a) = {m} \cup Arriving(a)'
      /\ \A d \in Arriving(a)' : m.seq < d.seq
  BY Taken
<1>2. /\ \A d \in Arriving(a) : IsAwaited(a, d) /\ d.seq \notin DOMAIN incoming[a]
      /\ \A seq \in DOMAIN incoming[a] :
           seq \in 0..(scenario.answer - 1) /\ IsPieceOf(a, seq + 1, incoming[a][seq])
  BY DEF PatientClient, AwaitsResponse
<1>3. IsPieceOf(a, m.seq + 1, PayloadRead(m))
  BY <1>1, <1>2 DEF IsAwaited, IsPieceOf, PayloadRead
<1>4. m.seq \in 0..(scenario.answer - 1) /\ m.tot = scenario.answer
  BY <1>1, <1>2 DEF IsAwaited
<1>5. /\ DOMAIN Gathered(a, m) = DOMAIN incoming[a] \cup {m.seq}
      /\ Gathered(a, m)[m.seq] = PayloadRead(m)
      /\ \A seq \in DOMAIN incoming[a] : seq # m.seq => Gathered(a, m)[seq] = incoming[a][seq]
  BY DEF Gathered, Put
<1>6. \A d \in Arriving(a)' : IsAwaited(a, d) /\ d.seq \notin DOMAIN Gathered(a, m)
  <2> SUFFICES ASSUME NEW d \in Arriving(a)' PROVE d.seq \notin DOMAIN Gathered(a, m)
    BY <1>1, <1>2
  <2>1. d.seq \notin DOMAIN incoming[a] /\ m.seq < d.seq /\ d.seq \in Int /\ m.seq \in Int
    BY <1>1, <1>2, <1>4 DEF IsAwaited
  <2> QED
    BY <1>5, <2>1
<1>7. scenario.answer \in Nat
  BY ScenarioTypes DEF TransportInv
<1> QED
  BY <1>2, <1>3, <1>4, <1>5, <1>6, <1>7

LEMMA DataPatient ==
  ASSUME TransportInv, NEW a \in Clients, PatientClient(a), Receive(a),
         NEW m, m = Head(toClient[a]), pc[a] = "awaitResponse", DataReceived(a, m)
  PROVE  PatientClient(a)' /\ sent' = <<>> /\ SentBy(a) = {}
<1>1. ClientStep(a) /\ m.type = "DATA" /\ pc[a] \in InCall /\ UNCHANGED calls
  BY DEF ClientStep, DataReceived, InCall, Receive
<1>2. /\ Arriving(a) = {m} \cup Arriving(a)' /\ InOrder(toClient[a])'
      /\ SentBy(a) = {} /\ clientId[a] \in Complete
  BY Taken DEF PatientClient, AwaitsResponse
<1>3. PICK gathered : gathered = Gathered(a, m)
  OBVIOUS
<1>4. /\ m.tot = scenario.answer /\ scenario.answer \in Nat
      /\ DOMAIN gathered \in SUBSET (0..(scenario.answer - 1))
      /\ \A seq \in DOMAIN gathered : IsPieceOf(a, seq + 1, gathered[seq])
      /\ \A d \in Arriving(a)' : IsAwaited(a, d) /\ d.seq \notin DOMAIN gathered
  BY <1>1, <1>3, Collects
<1>5. Stored(a) = 0
  BY DEF Stored
<1>6. CASE Cardinality(DOMAIN gathered) = m.tot
  <2>1. DOMAIN gathered = 0..(scenario.answer - 1)
    BY <1>4, <1>6, FullSet
  <2>2. Arriving(a)' = {}
    BY <1>4, <2>1 DEF IsAwaited
  <2>3. PICK text : text = TextOf(gathered, m.tot)
    OBVIOUS
  <2>4. /\ text = [i \in 1..scenario.answer |-> text[i]]
        /\ \A i \in 1..scenario.answer : IsPieceOf(a, i, text[i])
    <3>1. ASSUME NEW i \in 1..scenario.answer
          PROVE  i - 1 \in DOMAIN gathered /\ (i - 1) + 1 = i
      BY <1>4, <2>1
    <3>2. \A i \in 1..scenario.answer : text[i] = gathered[i - 1]
      BY <1>4, <2>3, <3>1 DEF TextOf
    <3>3. text = [i \in 1..scenario.answer |-> text[i]]
      BY <1>4, <2>3 DEF TextOf
    <3>4. ASSUME NEW i \in 1..scenario.answer PROVE IsPieceOf(a, i, text[i])
      <4>1. IsPieceOf(a, (i - 1) + 1, gathered[i - 1])
        BY <1>4, <3>1
      <4> QED
        BY <3>1, <3>2, <4>1
    <3> QED
      BY <3>3, <3>4
  <2>5. PICK outcome : outcome = IF IsEmptyText(text) THEN Outcome("nullopt") ELSE Answer(text)
    OBVIOUS
  <2>6. EndCall(a, outcome)
    BY <1>3, <1>6, <2>3, <2>5 DEF DataReceived, Gathered
  <2>7. outcome.kind = "answer" => outcome.text = text
    BY <2>5 DEF Outcome, Answer
  <2> QED
    BY <1>1, <1>2, <1>5, <2>2, <2>4, <2>6, <2>7, EndPatient
<1>7. CASE Cardinality(DOMAIN gathered) # m.tot
  <2>1. /\ incoming'[a] = gathered /\ sent' = <<>>
        /\ UNCHANGED <<pc, clientId, outgoing, acked, resends, result, calls>>
    BY <1>1, <1>3, <1>7
       DEF DataReceived, Gathered, Emit, TransportInv, ProcessesOK, ProcessTypes
  <2>2. SentBy(a)' = {}
    <3>1. Held(sent') = {}
      BY <2>1 DEF Held
    <3> QED
      BY <1>1, <1>2, <3>1, ClientSent
  <2>3. /\ ServiceKept(a) /\ Complete' = Complete
        /\ UNCHANGED <<handshakes, clients, scenario>>
        /\ \A j : Message(a, j)' = Message(a, j) /\ Executed(a, j)' = Executed(a, j)
    BY <1>1, ClientService
  <2>4. /\ \A d : IsAwaited(a, d) => IsAwaited(a, d)'
        /\ \A i, piece : IsPieceOf(a, i, piece) => IsPieceOf(a, i, piece)'
        /\ HasResult(a)'
    BY <2>1, <2>3, PiecesKept DEF PatientClient, HasResult, ServiceKept
  <2>5. AtRest(a)' /\ AwaitsInit(a)' /\ AwaitsAck(a)'
    BY <2>1 DEF AtRest, AwaitsInit, AwaitsAck
  <2>6. AwaitsResponse(a)'
    BY <1>2, <1>4, <2>1, <2>2, <2>3, <2>4 DEF AwaitsResponse
  <2>7. IsLinked(a)'
    BY <2>1, <2>3 DEF PatientClient, IsLinked
  <2>8. Stored(a)' = 0
    BY <2>1 DEF Stored
  <2>9. IsBuffered(a)'
    BY <1>5, <2>1, <2>3, <2>8 DEF PatientClient, IsBuffered, Chunk
  <2>10. IsHeard(a)'
    BY <2>1, <2>3 DEF PatientClient, IsHeard
  <2>11. IsCounted(a)'
    BY <1>2, <2>1, <2>3 DEF PatientClient, IsCounted
  <2> QED
    BY <1>2, <2>1, <2>4, <2>5, <2>6, <2>7, <2>9, <2>10, <2>11 DEF PatientClient
<1> QED
  BY <1>6, <1>7

(* A step of a client keeps what is said of it and of its datagrams. *)
LEMMA OwnStepPatient ==
  ASSUME TransportInv, NEW a \in Clients, PatientClient(a), PatientNetwork, ClientStep(a)
  PROVE  PatientClient(a)' /\ InTurn(sent') /\ (SentBy(a) = {} \/ sent' = <<>>)
<1>1. InTurn(<<>>)
  BY DEF InTurn
<1>2. CASE Construct(a)
  BY <1>2, ConstructPatient
<1>3. CASE Call(a)
  BY <1>3, CallPatient
<1>4. CASE Receive(a)
  <2>1. PICK m : m = Head(toClient[a])
    OBVIOUS
  <2>2. Take(a, m) /\ m \in Arriving(a)
    BY <1>4, <2>1, Taken
  <2>3. CASE InitAnswered(a, m)
    BY <1>1, <1>4, <2>1, <2>3, InitAnsweredPatient
  <2>4. CASE HandleEpollEvents(a, m)
    <3>1. pc[a] = "awaitAck"
      BY <2>4 DEF HandleEpollEvents
    <3>2. CASE AckReceived(a, m)
      BY <1>4, <2>1, <3>1, <3>2, AckPatient
    <3>3. CASE NackReceived(a, m)
      BY <1>1, <1>4, <2>1, <3>1, <3>3, NackPatient
    <3>4. CASE HandshakeReceived(a, m)
      BY <1>4, <2>1, <3>1, <3>4, HandshakePatient
    <3>5. CASE OtherReceived(a, m)
      BY <1>1, <1>4, <2>1, <3>1, <3>5, OtherPatient
    <3> QED
      BY <2>4, <3>2, <3>3, <3>4, <3>5 DEF HandleEpollEvents
  <2>5. CASE ReceiveResponse(a, m)
    <3>1. pc[a] = "awaitResponse"
      BY <2>5 DEF ReceiveResponse
    <3>2. m.type = "DATA"
      BY <2>2, <3>1 DEF PatientClient, AwaitsResponse, IsAwaited
    <3>3. DataReceived(a, m)
      BY <2>5, <3>2 DEF ReceiveResponse, NoDataReceived
    <3> QED
      BY <1>1, <1>4, <2>1, <3>1, <3>3, DataPatient
  <2> QED
    BY <2>2, <2>3, <2>4, <2>5 DEF Take
<1>5. CASE GiveUpWaiting(a)
  BY <1>1, <1>5, InitTimeoutPatient, AckTimeoutPatient, ResponseTimeoutPatient
     DEF GiveUpWaiting, Expire
<1> QED
  BY <1>2, <1>3, <1>4, <1>5 DEF ClientStep

-----------------------------------------------------------------------------
(* The turns of the server. *)

(* A client with a complete handshake is registered. *)
LEMMA Registered ==
  ASSUME ServerInv
  PROVE  /\ \A c \in Complete : c \in DOMAIN clients /\ c \in DOMAIN handshakes
         /\ \A c : Authenticated(c) <=> c \in Complete
  BY DEF ServerInv, ManagersOK, SessionsLinked, Complete, Authenticated, IsClientKnown,
         IsHandshakeComplete

(* A turn that only answers changes no session. *)
LEMMA QuietTurn ==
  ASSUME PatientNetwork, ServerInv, NEW lap \in Laps,
         EndTurn(handshakes, clients, inactiveClients, lap)
  PROVE  handshakes' = handshakes /\ Complete' = Complete /\ \A c : SessionKept(c)
<1>1. handshakes' = handshakes /\ \A c \in DOMAIN clients : clients'[c] = clients[c]
  BY NothingExpires DEF ServerInv, ManagersOK
<1>2. Complete' = Complete
  BY <1>1 DEF Complete
<1> QED
  BY <1>1, <1>2, Registered DEF SessionKept

LEMMA InitTurn ==
  ASSUME PatientNetwork, ServerInv, NEW m, NEW lap \in Laps, HandleInitRequest(m, lap)
  PROVE  /\ nextId \in ClientIds /\ nextId \in DOMAIN handshakes' \ Complete'
         /\ \A c \in ClientIds \ {nextId} : SessionKept(c)
         /\ sent' = <<Handshake(nextId)>> /\ dispatched' = <<>>
<1> DEFINE hs == StartHandshake(handshakes, nextId, now)
<1>1. nextId \in ClientIds /\ now \in Nat
  BY BoundAssumption DEF ServerInv, HandleInitRequest, ClientIds
<1>2. HandshakesOK(hs)
  BY <1>1, PutHandshake DEF ServerInv, ManagersOK, StartHandshake
<1>3. /\ DOMAIN hs = DOMAIN handshakes \cup {nextId} /\ ~ hs[nextId].handshake_complete
      /\ \A c \in DOMAIN handshakes \ {nextId} : hs[c] = handshakes[c]
  BY DEF StartHandshake, Put
<1>4. EndTurn(hs, clients, inactiveClients, lap)
  BY DEF HandleInitRequest
<1> HIDE DEF hs
<1>5. handshakes' = hs /\ \A c \in DOMAIN clients : clients'[c] = clients[c]
  BY <1>1, <1>2, <1>4, NothingExpires DEF ServerInv, ManagersOK
<1>6. nextId \in DOMAIN handshakes' \ Complete'
  BY <1>3, <1>5 DEF Complete
<1>7. \A c \in ClientIds \ {nextId} :
        /\ c \in DOMAIN handshakes => c \in DOMAIN handshakes'
        /\ c \in Complete <=> c \in Complete'
  BY <1>3, <1>5 DEF Complete
<1>8. \A c \in ClientIds \ {nextId} : SessionKept(c)
  BY <1>5, <1>7, Registered DEF SessionKept
<1> QED
  BY <1>1, <1>6, <1>8 DEF HandleInitRequest, Says

LEMMA CompleteTurn ==
  ASSUME PatientNetwork, ServerInv, NEW m \in Incoming, NEW lap \in Laps, CompleteKnown(m, lap)
  PROVE  /\ m.id \in ClientIds /\ m.id \in DOMAIN handshakes' /\ m.id \in Complete'
         /\ clients'[m.id].segments = EmptyMap
         /\ \A c \in ClientIds \ {m.id} : SessionKept(c)
         /\ sent' = <<HandshakeComplete(m.id)>> /\ dispatched' = <<>>
<1> DEFINE t     == now + lap["clients"]
           fresh == [segments |-> EmptyMap, total_segments |-> 0, last_active |-> t]
           hs    == CompleteHandshake(handshakes, m.id, now)
           cl    == RegisterClient(clients, m.id, t)
<1>1. m.id \in ClientIds /\ now \in Nat /\ t \in Nat
  BY IncomingTypes, LapType DEF ServerInv, CompleteKnown
<1>2. HandshakesOK(hs)
  BY <1>1, PutHandshake DEF ServerInv, ManagersOK, CompleteHandshake
<1>3. /\ DOMAIN hs = DOMAIN handshakes \cup {m.id} /\ hs[m.id].handshake_complete
      /\ \A c \in DOMAIN handshakes \ {m.id} : hs[c] = handshakes[c]
  BY DEF CompleteHandshake, Put
<1>4. IsClientState(fresh) /\ fresh.segments = EmptyMap
  BY <1>1 DEF IsClientState, IsMap, EmptyMap
<1>5. cl = Put(clients, m.id, fresh)
  BY DEF RegisterClient
<1>6. EndTurn(hs, cl, PushActivity(inactiveClients, m.id, t), lap)
  BY DEF CompleteKnown
<1> HIDE DEF hs, fresh, cl, t
<1>7. ClientsOK(cl)
  BY <1>1, <1>4, <1>5, PutClient DEF ServerInv, ManagersOK
<1>8. /\ DOMAIN cl = DOMAIN clients \cup {m.id} /\ cl[m.id] = fresh
      /\ \A c \in DOMAIN clients \ {m.id} : cl[c] = clients[c]
  BY <1>5 DEF Put
<1>9. handshakes' = hs /\ \A c \in DOMAIN cl : clients'[c] = cl[c]
  BY <1>1, <1>2, <1>6, <1>7, NothingExpires
<1>10. m.id \in DOMAIN handshakes' /\ m.id \in Complete'
  BY <1>3, <1>9 DEF Complete
<1>11. \A c \in ClientIds \ {m.id} :
        /\ c \in DOMAIN handshakes => c \in DOMAIN handshakes'
        /\ c \in Complete <=> c \in Complete'
  BY <1>3, <1>9 DEF Complete
<1>12. \A c \in ClientIds \ {m.id} : SessionKept(c)
  BY <1>8, <1>9, <1>11, Registered DEF SessionKept
<1>13. clients'[m.id].segments = EmptyMap
  BY <1>4, <1>8, <1>9
<1> QED
  BY <1>1, <1>10, <1>12, <1>13 DEF CompleteKnown, Says

(* An intact segment of a client with a complete handshake is stored, or completes the
   message, which is handed on and answered. *)
LEMMA StoreTurn ==
  ASSUME PatientNetwork, ServerInv, alive, NEW m \in Incoming, m.type = "DATA",
         NEW lap \in Laps, NEW reply, AcceptSegment(m, lap, reply),
         NEW pieces, pieces = Collected(m.id, m)
  PROVE  /\ m.id \in ClientIds /\ m.id \in Complete
         /\ handshakes' = handshakes /\ Complete' = Complete
         /\ \A c \in ClientIds \ {m.id} : SessionKept(c)
         /\ IF DOMAIN pieces = 0..(m.tot - 1)
              THEN /\ clients'[m.id].segments = EmptyMap
                   /\ sent' = <<Ack(m.id, m.seq)>> \o ReplySegments(m.id, reply)
                   /\ dispatched' # <<>>
                   /\ dispatched'[1].message = [i \in 1..m.tot |-> pieces[i - 1]]
              ELSE /\ clients'[m.id].segments = pieces
                   /\ sent' = <<Ack(m.id, m.seq)>> /\ dispatched' = <<>>
<1> DEFINE t       == now + lap["clients"]
           tracked == TrackSegment(clients, m, t)
           queue   == PushActivity(inactiveClients, m.id, t)
<1>1. /\ m.intact /\ m.id \in DOMAIN clients /\ m.id \in ClientIds /\ m.id \in Complete
      /\ now \in Nat /\ t \in Nat /\ HandshakesOK(handshakes) /\ ClientsOK(clients)
      /\ m.seq \in Nat /\ m.tot \in Nat /\ PayloadRead(m) \in ServerPayloads
  BY AcceptKeeps, AcceptedPayload, IncomingTypes, LapType, Registered
     DEF AcceptSegment, ServerInv, ManagersOK
<1>2. StoreSegment(m, lap, reply)
  BY <1>1 DEF AcceptSegment
<1>3. /\ DOMAIN tracked = DOMAIN clients /\ ClientsOK(tracked)
      /\ tracked[m.id].segments = pieces /\ tracked[m.id].total_segments = m.tot
      /\ \A c \in DOMAIN clients \ {m.id} : tracked[c] = clients[c]
  <2>1. /\ ClientsOK(tracked) /\ DOMAIN tracked = DOMAIN clients
        /\ tracked[m.id].total_segments = m.tot
    BY <1>1, TrackSegmentOK, SMTT(60)
  <2>2. /\ tracked[m.id].segments = pieces
        /\ \A c \in DOMAIN clients \ {m.id} : tracked[c] = clients[c]
    BY <1>1 DEF TrackSegment, Put, Collected, PayloadRead
  <2> QED
    BY <2>1, <2>2
<1>4. CASE DOMAIN pieces = 0..(m.tot - 1)
  <2> DEFINE cl  == ClearSegments(tracked, m.id)
             out == [id |-> m.id, message |-> AssembledMessage(tracked[m.id])]
  <2>1. AllSegments(tracked[m.id])
    BY <1>3, <1>4 DEF AllSegments
  <2>2. /\ EndTurn(handshakes, cl, queue, lap) /\ dispatched' = <<out>>
        /\ sent' = <<Ack(m.id, m.seq)>> \o ReplySegments(m.id, reply)
    BY <1>2, <2>1 DEF StoreSegment, Says
  <2>3. out.message = [i \in 1..m.tot |-> pieces[i - 1]]
    BY <1>3 DEF AssembledMessage
  <2> HIDE DEF tracked, queue, out
  <2>4. dispatched' # <<>> /\ dispatched'[1] = out
    BY <2>2
  <2>5. ClientsOK(cl) /\ DOMAIN cl = DOMAIN clients
    BY <1>1, <1>3, ClearSegmentsOK
  <2>6. cl[m.id].segments = EmptyMap /\ \A c \in DOMAIN clients \ {m.id} : cl[c] = clients[c]
    <3>1. cl = [x \in DOMAIN clients |->
                  IF x = m.id THEN [tracked[m.id] EXCEPT !.segments = EmptyMap] ELSE tracked[x]]
      BY <1>1, <1>3 DEF ClearSegments, Put
    <3>2. "segments" \in DOMAIN tracked[m.id]
      BY <1>1, <1>3 DEF ClientsOK, IsClientState
    <3>3. [tracked[m.id] EXCEPT !.segments = EmptyMap].segments = EmptyMap
      BY <3>2
    <3> HIDE DEF cl
    <3> QED
      BY <1>1, <1>3, <3>1, <3>3
  <2> HIDE DEF cl
  <2>7. handshakes' = handshakes /\ \A c \in DOMAIN cl : clients'[c] = cl[c]
    BY <1>1, <2>2, <2>5, NothingExpires
  <2>8. Complete' = Complete
    BY <2>7 DEF Complete
  <2>9. \A c \in ClientIds \ {m.id} : SessionKept(c)
    BY <2>5, <2>6, <2>7, <2>8, Registered DEF SessionKept
  <2>10. clients'[m.id].segments = EmptyMap
    BY <1>1, <2>5, <2>6, <2>7
  <2> QED
    BY <1>1, <1>4, <2>2, <2>3, <2>4, <2>7, <2>8, <2>9, <2>10
<1>5. CASE DOMAIN pieces # 0..(m.tot - 1)
  <2>1. ~ AllSegments(tracked[m.id])
    BY <1>3, <1>5 DEF AllSegments
  <2>2. /\ EndTurn(handshakes, tracked, queue, lap)
        /\ sent' = <<Ack(m.id, m.seq)>> /\ dispatched' = <<>>
    BY <1>2, <2>1 DEF StoreSegment, Says
  <2> HIDE DEF tracked, queue
  <2>3. handshakes' = handshakes /\ \A c \in DOMAIN tracked : clients'[c] = tracked[c]
    BY <1>1, <1>3, <2>2, NothingExpires
  <2>4. Complete' = Complete
    BY <2>3 DEF Complete
  <2>5. \A c \in ClientIds \ {m.id} : SessionKept(c)
    BY <1>3, <2>3, <2>4, Registered DEF SessionKept
  <2> QED
    BY <1>1, <1>3, <1>5, <2>2, <2>3, <2>4, <2>5
<1> QED
  BY <1>4, <1>5

(* What a turn for a datagram of client a leaves of it and adds for it. *)
LEMMA TurnEffect ==
  ASSUME TransportInv, SentInTurn, NEW a \in Clients, NEW m \in Incoming, NEW lap \in Laps,
         NEW reply \in Responses \cup {NoReply}, TurnOf(a, m, lap, reply)
  PROVE  /\ \A b \in Clients : Same(b)
         /\ UNCHANGED <<calls, faults, scenario>> /\ (DamageUsed' <=> DamageUsed)
         /\ SentInTurn'
         /\ SentBy(a) = {m} \cup SentBy(a)' /\ m \in SentBy(a)
         /\ \A d \in SentBy(a)' : m.type = "HS" /\ d.type = "DATA"
         /\ toClient[a] \in Seq(ToClientTypes) /\ sent' \in Seq(ToClientTypes)
         /\ toClient'[a] = toClient[a] \o sent'
         /\ Arriving(a)' = Arriving(a) \cup Held(sent')
         /\ \A b \in Clients \ {a} : SentBy(b)' = SentBy(b) /\ toClient'[b] = toClient[b]
<1>1. UNCHANGED <<clientVars, calls, faults, scenario>>
  BY DEF TurnOf
<1>2. (\A b \in Clients : Same(b)) /\ (DamageUsed' <=> DamageUsed)
  BY <1>1 DEF Same, clientVars, DamageUsed
<1>3. toServer \in Seq([from : Clients, datagram : ToServerTypes])
  BY DEF TransportInv, NetworkOK
<1>4. /\ SentInTurn' /\ SentBy(a) = {m} \cup SentBy(a)'
      /\ \A b \in Clients \ {a} : SentBy(b)' = SentBy(b)
      /\ \A d \in SentBy(a)' : m.type = "HS" /\ d.type = "DATA"
  BY <1>3, FirstSent DEF TurnOf
<1>5. /\ sent' \in Seq(ToClientTypes) /\ Arriving(a)' = Arriving(a) \cup Held(sent')
      /\ \A b \in Clients \ {a} : toClient'[b] = toClient[b]
  BY TurnNetwork DEF Arriving
<1>6. toClient[a] \in Seq(ToClientTypes) /\ toClient'[a] = toClient[a] \o sent'
  BY DEF TransportInv, NetworkOK, TurnOf
<1> QED
  BY <1>1, <1>2, <1>4, <1>5, <1>6

(* The other clients use other ids. *)
LEMMA OthersAfterTurn ==
  ASSUME TransportInv, IdsOwned, NotRestarted, SentInTurn,
         NEW a \in Clients, NEW m \in Incoming, NEW lap \in Laps,
         NEW reply \in Responses \cup {NoReply}, FromClient(a, m), TurnOf(a, m, lap, reply),
         \A c \in ClientIds \ {TurnId(m)} : SessionKept(c),
         NEW b \in Clients \ {a}, PatientClient(b),
         \A k \in 1..MaxCalls : Executed(b, k)' = Executed(b, k)
  PROVE  PatientClient(b)'
<1>1. ASSUME NEW c \in ClientIds, Uses(b, c) PROVE c # TurnId(m)
  <2>1. c < nextId /\ c \in Nat /\ nextId \in Nat
    BY <1>1, BoundAssumption DEF IdsOwned, ClientIds, TransportInv, ServerInv
  <2>2. CASE m.type = "INIT_REQUEST"
    BY <2>1, <2>2 DEF TurnId
  <2>3. CASE m.type # "INIT_REQUEST"
    <3>1. [from |-> a, datagram |-> m] \in Held(toServer) /\ m # InitRequest
      BY <2>3, TurnNetwork DEF InitRequest
    <3>2. Uses(a, m.id)
      BY <3>1 DEF Uses
    <3> QED
      BY <1>1, <2>3, <3>2 DEF IdsOwned, TurnId
  <2> QED
    BY <2>2, <2>3
<1>2. ServiceKept(b)
  BY <1>1, TurnEffect DEF ServiceKept
<1>3. Same(b) /\ SentBy(b)' = SentBy(b) /\ toClient'[b] = toClient[b]
  BY TurnEffect
<1> QED
  BY <1>2, <1>3, PatientStays

(* Where the turn is a client's: in the constructor or in awaitAck. *)
LEMMA SenderWaits ==
  ASSUME TransportInv, NEW a \in Clients, PatientClient(a), NEW m \in SentBy(a)
  PROVE  \/ pc[a] = "awaitInit" /\ m = InitRequest /\ Arriving(a) = {}
         \/ /\ pc[a] = "awaitAck" /\ clientId[a] \in DOMAIN handshakes
            /\ m = Handshake(clientId[a]) \/ IsCurrent(a, m)
            /\ HasType(Arriving(a), {"HS_COMPLETE"})
<1>1. pc[a] \in Places
  BY DEF TransportInv, ProcessesOK, ProcessTypes
<1>2. pc[a] \in {"awaitInit", "awaitAck"}
  BY <1>1 DEF Places, PatientClient, AtRest, AwaitsResponse
<1>3. CASE pc[a] = "awaitInit"
  BY <1>3 DEF PatientClient, AwaitsInit
<1>4. CASE pc[a] = "awaitAck"
  BY <1>4 DEF PatientClient, AwaitsAck, IsLinked, Named
<1> QED
  BY <1>2, <1>3, <1>4

(* The answer to INIT_REQUEST: the id is new. *)
LEMMA InitTurnPatient ==
  ASSUME TransportInv, PatientInv,
         NEW a \in Clients, NEW m \in Incoming, NEW lap \in Laps,
         NEW reply \in Responses \cup {NoReply}, TurnOf(a, m, lap, reply),
         pc[a] = "awaitInit", m = InitRequest, Arriving(a) = {}
  PROVE  /\ PatientClient(a)' /\ dispatched' = <<>>
         /\ \A c \in ClientIds \ {TurnId(m)} : SessionKept(c)
<1>1. /\ PatientClient(a) /\ SentInTurn /\ PatientNetwork /\ ServerInv
      /\ HandleClientMessage(m, lap, reply)
  BY DEF PatientInv, TransportInv, TurnOf
<1>2. m.type = "INIT_REQUEST"
  BY DEF InitRequest
<1>3. HandleInitRequest(m, lap)
  BY <1>1, <1>2 DEF HandleClientMessage, HandleHandshakeMessage, CompleteKnown, StartUnknown,
                    HandleDataMessage, Ignore
<1>4. /\ nextId \in DOMAIN handshakes' \ Complete'
      /\ \A c \in ClientIds \ {nextId} : SessionKept(c)
      /\ sent' = <<Handshake(nextId)>> /\ dispatched' = <<>>
  BY <1>1, <1>3, InitTurn
<1>5. TurnId(m) = nextId
  BY <1>2 DEF TurnId
<1>6. /\ Same(a) /\ scenario' = scenario /\ (DamageUsed => DamageUsed')
      /\ \A d \in SentBy(a)' : m.type = "HS"
      /\ toClient'[a] = toClient[a] \o sent' /\ toClient[a] \in Seq(ToClientTypes)
      /\ Arriving(a)' = Arriving(a) \cup Held(sent') /\ executed' = executed
  BY <1>1, <1>4, TurnEffect DEF TurnOf
<1>7. PICK h : h = Handshake(nextId)
  OBVIOUS
<1>8. h.type = "HS" /\ h.id = nextId
  BY <1>7 DEF Handshake
<1>9. SentBy(a)' = {} /\ Arriving(a)' = {h}
  BY <1>2, <1>4, <1>6, <1>7 DEF Held
<1>10. toClient'[a] = <<h>>
  <2>1. toClient[a] = <<>>
    BY <1>6, HeldNone DEF Arriving
  <2> QED
    BY <1>4, <1>6, <1>7, <2>1
<1>11. InOrder(toClient[a])'
  BY <1>10, ShortInOrder DEF InOrder, Rank
<1>12. pc'[a] = "awaitInit" /\ calls'[a] = calls[a] /\ resends'[a] = resends[a]
       /\ result'[a] = result[a]
  BY <1>6 DEF Same
<1>13. \A k : Executed(a, k)' = Executed(a, k)
  BY <1>6 DEF Executed, Count, Message, RequestOf, Chunk
<1>14. AtRest(a)' /\ AwaitsInit(a)' /\ AwaitsAck(a)' /\ AwaitsResponse(a)'
  BY <1>4, <1>7, <1>8, <1>9, <1>12 DEF AtRest, AwaitsInit, AwaitsAck, AwaitsResponse
<1>15. IsLinked(a)' /\ IsBuffered(a)'
  BY <1>12 DEF IsLinked, IsBuffered, Named, InCall
<1>16. IsHeard(a)'
  BY <1>1, <1>6, <1>12 DEF PatientClient, IsHeard
<1>17. IsCounted(a)'
  BY <1>1, <1>8, <1>9, <1>12, <1>13 DEF PatientClient, IsCounted
<1>18. HasResult(a)'
  BY <1>1, <1>6, <1>12, PiecesKept DEF PatientClient, HasResult, Same
<1> QED
  BY <1>4, <1>5, <1>11, <1>14, <1>15, <1>16, <1>17, <1>18 DEF PatientClient

(* What a turn for a client in awaitAck has to keep of what is said of it. *)
LEMMA AckStagePatient ==
  ASSUME TransportInv, NEW a \in Clients, PatientClient(a), pc[a] = "awaitAck",
         Same(a), scenario' = scenario, DamageUsed => DamageUsed',
         clientId[a] \in DOMAIN handshakes',
         InOrder(toClient[a])', AwaitsAck(a)', IsBuffered(a)', IsHeard(a)', IsCounted(a)'
  PROVE  PatientClient(a)'
<1>1. /\ pc'[a] = "awaitAck" /\ clientId'[a] = clientId[a] /\ calls'[a] = calls[a]
      /\ outgoing'[a] = outgoing[a] /\ result'[a] = result[a]
  BY DEF Same
<1>2. AtRest(a)' /\ AwaitsInit(a)' /\ AwaitsResponse(a)'
  BY <1>1 DEF AtRest, AwaitsInit, AwaitsResponse
<1>3. IsLinked(a)'
  <2>1. \A k : Message(a, k)' = Message(a, k)
    BY <1>1, PiecesKept
  <2> QED
    BY <1>1, <2>1 DEF PatientClient, IsLinked, InCall
<1>4. HasResult(a)'
  BY <1>1, PiecesKept DEF PatientClient, HasResult
<1> QED
  BY <1>2, <1>3, <1>4 DEF PatientClient

LEMMA CurrentKept ==
  ASSUME NEW a \in Clients, Same(a), scenario' = scenario
  PROVE  \A d : IsCurrent(a, d)' <=> IsCurrent(a, d)
  BY DEF IsCurrent, Same, Chunk

(* The segment the server takes, and what it finds it in. *)
LEMMA CurrentTaken ==
  ASSUME TransportInv, NEW a \in Clients, pc[a] = "awaitAck", NEW m, IsCurrent(a, m)
  PROVE  /\ m.type = "DATA" /\ m.id = clientId[a] /\ m.seq = acked[a]
         /\ m.tot = scenario.request /\ m.payload = Chunk(a, calls[a], acked[a] + 1)
         /\ m.intact \in BOOLEAN /\ (scenario.request = 1 \/ m.intact)
         /\ acked[a] \in Nat /\ acked[a] < scenario.request
         /\ scenario.request \in Nat \ {0} /\ scenario.answer \in Nat \ {0}
         /\ calls[a] \in 1..MaxCalls /\ resends[a] \in Nat
         /\ clientId[a] \in ClientIds
<1>1. /\ m.type = "DATA" /\ m.id = clientId[a] /\ m.seq = acked[a]
      /\ m.tot = scenario.request /\ m.payload = Chunk(a, calls[a], acked[a] + 1)
      /\ m.intact \in BOOLEAN /\ (scenario.request = 1 \/ m.intact)
  BY DEF IsCurrent, Data
<1>2. scenario.request \in Nat \ {0} /\ scenario.answer \in Nat \ {0}
  BY ScenarioTypes DEF TransportInv
<1>3. /\ acked[a] \in 0..scenario.request /\ resends[a] \in 0..MaxResends
      /\ calls[a] \in 0..MaxCalls /\ calls[a] > 0 /\ acked[a] < scenario.request
      /\ clientId[a] \in ClientIds
  BY DEF TransportInv, ProcessesOK, ProcessTypes, ClientOK, InCall, Named
<1>4. acked[a] \in Nat /\ resends[a] \in Nat /\ calls[a] \in 1..MaxCalls
  BY <1>2, <1>3, ResendAssumption, TransportAssumption
<1> QED
  BY <1>1, <1>2, <1>3, <1>4

(* A handshake of a client the server knows completes it; the buffer is empty, and the
   segment is behind it where nothing is lost. *)
LEMMA HandshakeTurnPatient ==
  ASSUME TransportInv, PatientInv,
         NEW a \in Clients, NEW m \in Incoming, NEW lap \in Laps,
         NEW reply \in Responses \cup {NoReply}, TurnOf(a, m, lap, reply),
         pc[a] = "awaitAck", m = Handshake(clientId[a])
  PROVE  /\ PatientClient(a)' /\ dispatched' = <<>>
         /\ \A c \in ClientIds \ {TurnId(m)} : SessionKept(c)
<1>1. /\ PatientClient(a) /\ SentInTurn /\ PatientNetwork /\ ServerInv
      /\ HandleClientMessage(m, lap, reply)
  BY DEF PatientInv, TransportInv, TurnOf
<1>2. PICK c : c = clientId[a]
  OBVIOUS
<1>3. m.type = "HS" /\ m.id = c /\ TurnId(m) = c
  BY <1>2 DEF Handshake, TurnId
<1>4. /\ Same(a) /\ scenario' = scenario /\ (DamageUsed => DamageUsed')
      /\ SentBy(a) = {m} \cup SentBy(a)' /\ m \in SentBy(a)
      /\ \A d \in SentBy(a)' : d.type = "DATA"
      /\ toClient'[a] = toClient[a] \o sent' /\ toClient[a] \in Seq(ToClientTypes)
      /\ Arriving(a)' = Arriving(a) \cup Held(sent')
  BY <1>1, TurnEffect
<1>5. c \in DOMAIN handshakes /\ HasType(Arriving(a), {"HS_COMPLETE"})
  BY <1>1, <1>2, <1>4, SenderWaits
<1>6. CompleteKnown(m, lap)
  BY <1>1, <1>3, <1>5
     DEF HandleClientMessage, HandleInitRequest, HandleHandshakeMessage, StartUnknown,
         HandleDataMessage, Ignore, IsClientKnown
<1>7. /\ c \in DOMAIN handshakes' /\ c \in Complete'
      /\ clients'[c].segments = EmptyMap
      /\ \A x \in ClientIds \ {c} : SessionKept(x)
      /\ sent' = <<HandshakeComplete(c)>> /\ dispatched' = <<>>
  BY <1>1, <1>3, <1>6, CompleteTurn
<1>8. c \notin Complete
  BY <1>1, <1>2, <1>3, <1>4 DEF PatientClient, AwaitsAck, HasType
<1>9. acked[a] = 0 /\ \A d \in Arriving(a) : d = Handshake(c)
  BY <1>1, <1>2, <1>8 DEF PatientClient, AwaitsAck
<1>10. \A d \in Arriving(a) : d.type = "HS"
  BY <1>9 DEF Handshake
<1>11. Arriving(a) = {}
  BY <1>5, <1>10 DEF HasType
<1>12. PICK h : h = HandshakeComplete(c)
  OBVIOUS
<1>13. h.type = "HS_COMPLETE"
  BY <1>12 DEF HandshakeComplete
<1>14. Arriving(a)' = {h}
  BY <1>4, <1>7, <1>11, <1>12 DEF Held
<1>15. toClient'[a] = <<h>>
  <2>1. toClient[a] = <<>>
    BY <1>4, <1>11, HeldNone DEF Arriving
  <2> QED
    BY <1>4, <1>7, <1>12, <2>1
<1>16. InOrder(toClient[a])'
  BY <1>15, ShortInOrder DEF InOrder, Rank
<1>17. /\ pc'[a] = "awaitAck" /\ clientId'[a] = c /\ calls'[a] = calls[a]
       /\ acked'[a] = 0 /\ resends'[a] = resends[a]
  BY <1>2, <1>4, <1>9 DEF Same
<1>18. \A d : IsCurrent(a, d)' <=> IsCurrent(a, d)
  BY <1>4, CurrentKept
<1>19. AwaitsAck(a)'
  <2>1. \A d \in SentBy(a)' : d = Handshake(clientId'[a]) \/ IsCurrent(a, d)'
    BY <1>1, <1>2, <1>4, <1>17, <1>18 DEF PatientClient, AwaitsAck
  <2>2. HasType(Arriving(a)', {"HS_COMPLETE"}) /\ HasType(SentBy(a)', {"DATA"})
    BY <1>4, <1>13, <1>14 DEF HasType
  <2> QED
    BY <1>7, <1>13, <1>14, <1>17, <2>1, <2>2 DEF AwaitsAck, HasType
<1>20. Sends(a) => Sends(a)'
  BY <1>3, <1>4 DEF Sends
<1>21. scenario.budget["loss"] = 0 => Sends(a)'
  BY <1>1, <1>11, <1>20 DEF PatientClient, IsHeard
<1>22. scenario.request \in Nat /\ (scenario.request = 1 \/ Sends(a)')
  BY <1>1, <1>21, ScenarioTypes DEF PatientNetwork, Forgiving, TransportInv
<1>23. Stored(a)' = 0
  BY <1>4, <1>17, <1>22 DEF Stored
<1>24. IsBuffered(a)'
  <2>1. DOMAIN EmptyMap = {} /\ 0..(0 - 1) = {}
    BY DEF EmptyMap
  <2> QED
    BY <1>7, <1>17, <1>23, <2>1 DEF IsBuffered
<1>25. IsHeard(a)'
  BY <1>1, <1>4, <1>17, <1>21 DEF PatientClient, IsHeard
<1>26. \A k : Executed(a, k)' = Executed(a, k)
  BY <1>4, <1>7 DEF TurnOf, Executed, Count, Message, RequestOf, Chunk
<1>27. Sends(a)' => Sends(a)
  BY <1>4 DEF Sends
<1>28. Tries(a)' = Tries(a)
  BY <1>4, <1>9, <1>11, <1>13, <1>14, <1>17, <1>20, <1>27 DEF Tries
<1>29. IsCounted(a)'
  BY <1>1, <1>13, <1>14, <1>17, <1>26, <1>28 DEF PatientClient, IsCounted
<1> QED
  BY <1>1, <1>2, <1>3, <1>4, <1>7, <1>16, <1>19, <1>24, <1>25, <1>29, AckStagePatient

(* A segment taken before the handshake is complete is answered with a handshake. *)
LEMMA AskTurnPatient ==
  ASSUME TransportInv, PatientInv,
         NEW a \in Clients, NEW m \in Incoming, NEW lap \in Laps,
         NEW reply \in Responses \cup {NoReply}, TurnOf(a, m, lap, reply),
         pc[a] = "awaitAck", IsCurrent(a, m), clientId[a] \notin Complete
  PROVE  /\ PatientClient(a)' /\ dispatched' = <<>>
         /\ \A c \in ClientIds \ {TurnId(m)} : SessionKept(c)
<1>1. /\ PatientClient(a) /\ SentInTurn /\ PatientNetwork /\ ServerInv
      /\ HandleClientMessage(m, lap, reply)
  BY DEF PatientInv, TransportInv, TurnOf
<1>2. PICK c : c = clientId[a]
  OBVIOUS
<1>3. m.type = "DATA" /\ m.id = c
  BY <1>2, CurrentTaken
<1>4. /\ Same(a) /\ scenario' = scenario /\ (DamageUsed => DamageUsed')
      /\ m \in SentBy(a) /\ SentBy(a)' = {}
      /\ toClient'[a] = toClient[a] \o sent' /\ toClient[a] \in Seq(ToClientTypes)
      /\ Arriving(a)' = Arriving(a) \cup Held(sent')
  BY <1>1, <1>3, TurnEffect
<1>5. HasType(Arriving(a), {"HS_COMPLETE"}) /\ c \in DOMAIN handshakes
  <2>1. m # Handshake(clientId[a]) /\ m # InitRequest
    BY <1>3 DEF Handshake, InitRequest
  <2> QED
    BY <1>1, <1>2, <1>4, <2>1, SenderWaits
<1>6. AskHandshake(m, lap)
  <2>1. ~ Authenticated(m.id)
    BY <1>1, <1>2, <1>3, Registered
  <2> QED
    BY <1>1, <1>3, <2>1
       DEF HandleClientMessage, HandleInitRequest, HandleHandshakeMessage, CompleteKnown,
           StartUnknown, HandleDataMessage, RefuseSegment, AcceptSegment, Ignore
<1>7. /\ handshakes' = handshakes /\ Complete' = Complete /\ \A x : SessionKept(x)
      /\ sent' = <<Handshake(c)>> /\ dispatched' = <<>>
  BY <1>1, <1>3, <1>6, QuietTurn DEF AskHandshake, Says
<1>8. acked[a] = 0 /\ \A d \in Arriving(a) : d = Handshake(c)
  BY <1>1, <1>2 DEF PatientClient, AwaitsAck
<1>9. \A d \in Arriving(a) : d.type = "HS"
  BY <1>8 DEF Handshake
<1>10. Arriving(a) = {}
  BY <1>5, <1>9 DEF HasType
<1>11. PICK h : h = Handshake(c)
  OBVIOUS
<1>12. h.type = "HS"
  BY <1>11 DEF Handshake
<1>13. Arriving(a)' = {h}
  BY <1>4, <1>7, <1>10, <1>11 DEF Held
<1>14. toClient'[a] = <<h>>
  <2>1. toClient[a] = <<>>
    BY <1>4, <1>10, HeldNone DEF Arriving
  <2> QED
    BY <1>4, <1>7, <1>11, <2>1
<1>15. InOrder(toClient[a])'
  BY <1>14, ShortInOrder DEF InOrder, Rank
<1>16. /\ pc'[a] = "awaitAck" /\ clientId'[a] = c /\ calls'[a] = calls[a]
       /\ acked'[a] = 0 /\ resends'[a] = resends[a]
  BY <1>2, <1>4, <1>8 DEF Same
<1>17. AwaitsAck(a)'
  BY <1>2, <1>4, <1>7, <1>11, <1>12, <1>13, <1>16 DEF AwaitsAck, HasType
<1>18. IsBuffered(a)'
  BY <1>2, <1>7, <1>16 DEF IsBuffered
<1>19. IsHeard(a)'
  BY <1>1, <1>4, <1>12, <1>13, <1>16 DEF PatientClient, IsHeard
<1>20. \A k : Executed(a, k)' = Executed(a, k)
  BY <1>4, <1>7 DEF TurnOf, Executed, Count, Message, RequestOf, Chunk
<1>21. Sends(a)
  BY <1>3, <1>4 DEF Sends
<1>22. Tries(a)' = Tries(a)
  BY <1>12, <1>13, <1>16, <1>21 DEF Tries
<1>23. IsCounted(a)'
  BY <1>1, <1>12, <1>13, <1>16, <1>20, <1>22 DEF PatientClient, IsCounted
<1> QED
  BY <1>1, <1>2, <1>4, <1>5, <1>7, <1>15, <1>17, <1>18, <1>19, <1>23, AckStagePatient

(* A turn that accepts or refuses a segment answers behind the HS_COMPLETE there may be,
   and the segment is no longer on its way. *)
LEMMA AnswerTurnPatient ==
  ASSUME TransportInv, PatientInv,
         NEW a \in Clients, NEW m \in Incoming, NEW lap \in Laps,
         NEW reply \in Responses \cup {NoReply}, TurnOf(a, m, lap, reply),
         pc[a] = "awaitAck", IsCurrent(a, m), clientId[a] \in Complete
  PROVE  /\ SentBy(a)' = {} /\ HasType(Arriving(a), {"HS_COMPLETE"})
         /\ Sends(a) /\ ~ Sends(a)' /\ Tries(a) = resends[a]
         /\ Same(a) /\ scenario' = scenario /\ (DamageUsed => DamageUsed')
         /\ Arriving(a)' = Arriving(a) \cup Held(sent')
         /\ \A d \in Held(sent') : d.type \in {"ACK", "NACK", "DATA"}
         /\ InOrder(sent') => InOrder(toClient[a])'
         /\ m.intact => AcceptSegment(m, lap, reply)
         /\ ~ m.intact => RefuseSegment(m, lap)
<1>1. /\ PatientClient(a) /\ SentInTurn /\ PatientNetwork /\ ServerInv
      /\ HandleClientMessage(m, lap, reply)
  BY DEF PatientInv, TransportInv, TurnOf
<1>2. m.type = "DATA" /\ m.id = clientId[a]
  BY CurrentTaken
<1>3. /\ Same(a) /\ scenario' = scenario /\ (DamageUsed => DamageUsed')
      /\ m \in SentBy(a) /\ SentBy(a)' = {}
      /\ toClient'[a] = toClient[a] \o sent' /\ toClient[a] \in Seq(ToClientTypes)
      /\ sent' \in Seq(ToClientTypes)
      /\ Arriving(a)' = Arriving(a) \cup Held(sent')
  BY <1>1, <1>2, TurnEffect
<1>4. HasType(Arriving(a), {"HS_COMPLETE"})
  <2>1. m # InitRequest
    BY <1>2 DEF InitRequest
  <2> QED
    BY <1>1, <1>3, <2>1, SenderWaits
<1>5. Sends(a) /\ ~ Sends(a)' /\ Tries(a) = resends[a]
  BY <1>2, <1>3 DEF Sends, Tries
<1>6. /\ m.intact => AcceptSegment(m, lap, reply)
      /\ ~ m.intact => RefuseSegment(m, lap)
  <2>1. Authenticated(m.id)
    BY <1>1, <1>2, Registered
  <2> QED
    BY <1>1, <1>2, <2>1
       DEF HandleClientMessage, HandleInitRequest, HandleHandshakeMessage, CompleteKnown,
           StartUnknown, HandleDataMessage, AskHandshake, RefuseSegment, AcceptSegment, Ignore
<1>7. \A d \in Held(sent') : d.type \in {"ACK", "NACK", "DATA"}
  <2>1. CASE m.intact
    <3>1. m.id \in DOMAIN clients /\ StoreSegment(m, lap, reply)
      BY <1>1, <1>2, <1>6, <2>1, AcceptKeeps DEF AcceptSegment, HandleClientMessage
    <3>2. \/ sent' = <<Ack(m.id, m.seq)>>
          \/ sent' = <<Ack(m.id, m.seq)>> \o ReplySegments(m.id, reply)
      BY <3>1 DEF StoreSegment, Says
    <3>3. Ack(m.id, m.seq).type = "ACK"
      BY DEF Ack
    <3>4. CASE sent' = <<Ack(m.id, m.seq)>>
      BY <3>3, <3>4 DEF Held
    <3>5. CASE sent' = <<Ack(m.id, m.seq)>> \o ReplySegments(m.id, reply)
      <4>1. ReplySegments(m.id, reply) \in Seq(ToClientTypes)
        BY <1>2, IncomingTypes, ReplySegmentsType DEF ToClientTypes
      <4>2. <<Ack(m.id, m.seq)>> \in Seq(ToClientTypes \cup {Ack(m.id, m.seq)})
        OBVIOUS
      <4>3. ReplySegments(m.id, reply) \in Seq(ToClientTypes \cup {Ack(m.id, m.seq)})
        BY <4>1
      <4>4. Held(sent') = Held(<<Ack(m.id, m.seq)>>) \cup Held(ReplySegments(m.id, reply))
        BY <3>5, <4>2, <4>3, HeldConcat, ZenonT(60)
      <4>5. Held(<<Ack(m.id, m.seq)>>) = {Ack(m.id, m.seq)}
        BY DEF Held
      <4>6. \A d \in Held(ReplySegments(m.id, reply)) : d.type = "DATA"
        BY ReplySegmentsHeld
      <4> QED
        BY <3>3, <4>4, <4>5, <4>6
    <3> QED
      BY <3>2, <3>4, <3>5
  <2>2. CASE ~ m.intact
    <3>1. sent' = <<Nack(m.id, m.seq)>> /\ Nack(m.id, m.seq).type = "NACK"
      BY <1>6, <2>2 DEF RefuseSegment, Says, Nack
    <3> QED
      BY <3>1 DEF Held
  <2> QED
    BY <2>1, <2>2
<1>8. ASSUME InOrder(sent') PROVE InOrder(toClient[a])'
  <2>1. ASSUME NEW d \in Held(toClient[a]), NEW e \in Held(sent')
        PROVE  Rank(d) < Rank(e)
    <3>1. d \in ToClientTypes /\ e \in ToClientTypes
      BY <1>3, HeldTypes
    <3>2. d.type = "HS_COMPLETE" /\ e.type \in {"ACK", "NACK", "DATA"}
      BY <1>4, <1>7 DEF HasType, Arriving
    <3>3. Rank(d) = 0 /\ (e.type # "DATA" => Rank(e) = 1)
          /\ (e.type = "DATA" => e.seq \in Nat /\ Rank(e) = e.seq + 2)
      BY <3>1, <3>2, RankTypes
    <3> QED
      BY <3>2, <3>3
  <2>2. InOrder(toClient[a])
    BY <1>1 DEF PatientClient
  <2>3. InOrder(toClient[a] \o sent')
    BY <1>3, <1>8, <2>1, <2>2, JoinedInOrder
  <2> QED
    BY <1>3, <2>3 DEF InOrder, Rank
<1> QED
  BY <1>3, <1>4, <1>5, <1>6, <1>7, <1>8

(* A damaged segment, the only one of its message, is refused. *)
LEMMA RefuseTurnPatient ==
  ASSUME TransportInv, PatientInv,
         NEW a \in Clients, NEW m \in Incoming, NEW lap \in Laps,
         NEW reply \in Responses \cup {NoReply}, TurnOf(a, m, lap, reply),
         pc[a] = "awaitAck", IsCurrent(a, m), clientId[a] \in Complete, ~ m.intact
  PROVE  /\ PatientClient(a)' /\ dispatched' = <<>>
         /\ \A c \in ClientIds \ {TurnId(m)} : SessionKept(c)
<1>1. /\ PatientClient(a) /\ PatientNetwork /\ ServerInv
  BY DEF PatientInv, TransportInv
<1>2. PICK c : c = clientId[a]
  OBVIOUS
<1>3. /\ m.id = c /\ m.type = "DATA" /\ scenario.request = 1 /\ acked[a] = 0
      /\ resends[a] \in Nat
  BY <1>2, CurrentTaken
<1>4. /\ SentBy(a)' = {} /\ HasType(Arriving(a), {"HS_COMPLETE"})
      /\ Sends(a) /\ ~ Sends(a)' /\ Tries(a) = resends[a]
      /\ Same(a) /\ scenario' = scenario /\ (DamageUsed => DamageUsed')
      /\ Arriving(a)' = Arriving(a) \cup Held(sent')
      /\ InOrder(sent') => InOrder(toClient[a])'
      /\ RefuseSegment(m, lap)
  BY AnswerTurnPatient
<1>5. PICK n : n = Nack(c, m.seq)
  OBVIOUS
<1>6. n.type = "NACK"
  BY <1>5 DEF Nack
<1>7. /\ handshakes' = handshakes /\ Complete' = Complete /\ \A x : SessionKept(x)
      /\ sent' = <<n>> /\ dispatched' = <<>>
  BY <1>1, <1>3, <1>4, <1>5, QuietTurn DEF RefuseSegment, Says
<1>8. Arriving(a)' = Arriving(a) \cup {n}
  BY <1>4, <1>7 DEF Held
<1>9. InOrder(toClient[a])'
  BY <1>4, <1>7, ShortInOrder DEF InOrder, Rank
<1>10. /\ pc'[a] = "awaitAck" /\ clientId'[a] = c /\ calls'[a] = calls[a]
       /\ acked'[a] = 0 /\ resends'[a] = resends[a]
  BY <1>2, <1>3, <1>4 DEF Same
<1>11. AwaitsAck(a)'
  BY <1>2, <1>3, <1>4, <1>6, <1>7, <1>8, <1>10 DEF AwaitsAck, HasType
<1>12. Stored(a) = 0 /\ Stored(a)' = 0
  BY <1>3, <1>4, <1>10 DEF Stored
<1>13. IsBuffered(a)'
  <2>1. /\ DOMAIN clients'[c].segments = 0..(0 - 1)
        /\ \A seq \in DOMAIN clients[c].segments :
             clients[c].segments[seq] = Chunk(a, calls[a], seq + 1)
        /\ clients'[c].segments = clients[c].segments
    BY <1>1, <1>2, <1>7, <1>12 DEF PatientClient, IsBuffered, SessionKept, Named
  <2> QED
    BY <1>2, <1>7, <1>10, <1>12, <2>1 DEF IsBuffered, Chunk
<1>14. IsHeard(a)'
  BY <1>1, <1>4, <1>6, <1>8, <1>10 DEF PatientClient, IsHeard
<1>15. \A k : Executed(a, k)' = Executed(a, k)
  BY <1>4, <1>7 DEF TurnOf, Executed, Count, Message, RequestOf, Chunk
<1>16. Tries(a)' = resends[a] + 1
  BY <1>3, <1>4, <1>6, <1>8, <1>10 DEF Tries, HasType
<1>17. IsCounted(a)'
  <2>1. \A d \in Arriving(a)' : d.type # "DATA"
    BY <1>4, <1>6, <1>8 DEF HasType
  <2>2. \A k \in 1..MaxCalls : Executed(a, k) \in Nat
    <3>1. \A message \in DOMAIN executed : executed[message] \in Nat
      BY DEF PatientInv
    <3> QED
      BY <3>1 DEF Executed, Count
  <2>3. \A k \in 1..MaxCalls :
          /\ k > calls[a] => Executed(a, k) = 0
          /\ k = calls[a] => Executed(a, k) <= resends[a]
    BY <1>1, <1>4 DEF PatientClient, IsCounted
  <2>4. \A k \in 1..MaxCalls :
          /\ k > calls[a] => Executed(a, k) = 0
          /\ k = calls[a] => Executed(a, k) <= resends[a] + 1
    BY <1>3, <2>2, <2>3
  <2> QED
    BY <1>10, <1>15, <1>16, <2>1, <2>4 DEF IsCounted
<1>18. c \in DOMAIN handshakes'
  BY <1>1, <1>2, <1>7, Registered
<1> QED
  BY <1>1, <1>2, <1>4, <1>7, <1>9, <1>11, <1>13, <1>14, <1>17, <1>18, AckStagePatient

(* The segments of the message after this one: all up to it. *)
LEMMA PiecesCollected ==
  ASSUME TransportInv, NEW a \in Clients, PatientClient(a), pc[a] = "awaitAck",
         NEW m \in SentBy(a), IsCurrent(a, m), clientId[a] \in Complete,
         NEW pieces, pieces = Collected(m.id, m)
  PROVE  /\ DOMAIN pieces = 0..acked[a]
         /\ \A seq \in 0..acked[a] : pieces[seq] = Chunk(a, calls[a], seq + 1)
<1>1. /\ m.type = "DATA" /\ m.id = clientId[a] /\ m.seq = acked[a] /\ acked[a] \in Nat
      /\ m.payload = Chunk(a, calls[a], acked[a] + 1)
  BY CurrentTaken
<1>2. Stored(a) = acked[a]
  BY <1>1 DEF Stored, Sends
<1>3. PICK old : old = clients[m.id].segments
  OBVIOUS
<1>4. /\ DOMAIN old = 0..(acked[a] - 1)
      /\ \A seq \in DOMAIN old : old[seq] = Chunk(a, calls[a], seq + 1)
  BY <1>1, <1>2, <1>3 DEF PatientClient, IsBuffered, Named
<1>5. /\ DOMAIN pieces = DOMAIN old \cup {acked[a]}
      /\ pieces[acked[a]] = Chunk(a, calls[a], acked[a] + 1)
      /\ \A seq \in DOMAIN old \ {acked[a]} : pieces[seq] = old[seq]
  BY <1>1, <1>3 DEF Collected, Put
<1>6. /\ 0..(acked[a] - 1) \cup {acked[a]} = 0..acked[a]
      /\ \A seq \in 0..acked[a] : seq = acked[a] \/ seq \in 0..(acked[a] - 1) \ {acked[a]}
  BY <1>1
<1> QED
  BY <1>4, <1>5, <1>6

(* A segment that is not the last is stored and acknowledged. *)
LEMMA StoreTurnPatient ==
  ASSUME TransportInv, PatientInv,
         NEW a \in Clients, NEW m \in Incoming, NEW lap \in Laps,
         NEW reply \in Responses \cup {NoReply}, TurnOf(a, m, lap, reply),
         pc[a] = "awaitAck", IsCurrent(a, m), clientId[a] \in Complete, m.intact,
         acked[a] + 1 < scenario.request
  PROVE  /\ PatientClient(a)' /\ dispatched' = <<>>
         /\ \A c \in ClientIds \ {TurnId(m)} : SessionKept(c)
<1>1. /\ PatientClient(a) /\ PatientNetwork /\ ServerInv /\ alive /\ SentInTurn
  BY DEF PatientInv, TransportInv, ServerInv
<1>2. PICK c : c = clientId[a]
  OBVIOUS
<1>3. /\ m.id = c /\ m.type = "DATA" /\ m.tot = scenario.request /\ acked[a] \in Nat
      /\ scenario.request \in Nat
  BY <1>2, CurrentTaken
<1>4. /\ SentBy(a)' = {} /\ HasType(Arriving(a), {"HS_COMPLETE"})
      /\ Sends(a) /\ ~ Sends(a)' /\ Tries(a) = resends[a]
      /\ Same(a) /\ scenario' = scenario /\ (DamageUsed => DamageUsed')
      /\ Arriving(a)' = Arriving(a) \cup Held(sent')
      /\ InOrder(sent') => InOrder(toClient[a])'
      /\ AcceptSegment(m, lap, reply)
  BY AnswerTurnPatient
<1>5. PICK pieces : pieces = Collected(m.id, m)
  OBVIOUS
<1>6. m \in SentBy(a)
  BY <1>1, TurnEffect
<1>7. /\ DOMAIN pieces = 0..acked[a]
      /\ \A seq \in 0..acked[a] : pieces[seq] = Chunk(a, calls[a], seq + 1)
  BY <1>1, <1>5, <1>6, PiecesCollected
<1>8. DOMAIN pieces # 0..(m.tot - 1)
  <2>1. acked[a] + 1 \in 0..(m.tot - 1) /\ acked[a] + 1 \notin 0..acked[a]
    BY <1>3
  <2> QED
    BY <1>7, <2>1
<1>9. PICK n : n = Ack(c, m.seq)
  OBVIOUS
<1>10. n.type = "ACK"
  BY <1>9 DEF Ack
<1>11. /\ handshakes' = handshakes /\ Complete' = Complete
       /\ \A x \in ClientIds \ {c} : SessionKept(x)
       /\ sent' = <<n>> /\ dispatched' = <<>> /\ clients'[c].segments = pieces
  BY <1>1, <1>3, <1>4, <1>5, <1>8, <1>9, StoreTurn
<1>12. Arriving(a)' = Arriving(a) \cup {n}
  BY <1>4, <1>11 DEF Held
<1>13. InOrder(toClient[a])'
  BY <1>4, <1>11, ShortInOrder DEF InOrder, Rank
<1>14. /\ pc'[a] = "awaitAck" /\ clientId'[a] = c /\ calls'[a] = calls[a]
       /\ acked'[a] = acked[a] /\ resends'[a] = resends[a]
  BY <1>2, <1>4 DEF Same
<1>15. AwaitsAck(a)'
  BY <1>2, <1>4, <1>10, <1>11, <1>12, <1>14 DEF AwaitsAck, HasType
<1>16. Stored(a)' = acked[a] + 1
  BY <1>4, <1>14 DEF Stored
<1>17. IsBuffered(a)'
  <2>1. 0..(Stored(a)' - 1) = 0..acked[a]
    BY <1>3, <1>16
  <2> QED
    BY <1>7, <1>11, <1>14, <2>1 DEF IsBuffered, Chunk
<1>18. IsHeard(a)'
  BY <1>1, <1>4, <1>10, <1>12, <1>14 DEF PatientClient, IsHeard
<1>19. \A k : Executed(a, k)' = Executed(a, k)
  BY <1>4, <1>11 DEF TurnOf, Executed, Count, Message, RequestOf, Chunk
<1>20. Tries(a)' = Tries(a)
  BY <1>4, <1>14 DEF Tries
<1>21. IsCounted(a)'
  <2>1. \A d \in Arriving(a)' : d.type # "DATA"
    BY <1>4, <1>10, <1>12 DEF HasType
  <2> QED
    BY <1>1, <1>14, <1>19, <1>20, <2>1 DEF PatientClient, IsCounted
<1>22. c \in DOMAIN handshakes' /\ TurnId(m) = c
  BY <1>1, <1>2, <1>3, <1>11, Registered DEF TurnId
<1> QED
  BY <1>1, <1>2, <1>4, <1>11, <1>13, <1>15, <1>17, <1>18, <1>21, <1>22, AckStagePatient

(* The segments of an answer, in the order in which they are sent. *)
LEMMA AnswerSequence ==
  ASSUME TransportInv, NEW a \in Clients, NEW k \in 1..MaxCalls, NEW c \in ClientIds
  PROVE  ReplySegments(c, AnswerTo(Message(a, k)))
           = [i \in 1..scenario.answer |->
                Data(c, i - 1, scenario.answer, TRUE, AnswerPart(a, k, i))]
<1>1. scenario.answer \in Nat \ {0} /\ scenario.request \in Nat \ {0} /\ 1 \in 1..scenario.request
  BY ScenarioTypes DEF TransportInv
<1>2. Message(a, k)[1] = Chunk(a, k, 1) /\ Message(a, k) \in Requests
  BY <1>1, RequestTypes DEF TransportInv
<1>3. PICK answer : answer = AnswerTo(Message(a, k))
  OBVIOUS
<1>4. answer = [i \in 1..scenario.answer |-> AnswerPart(a, k, i)]
  BY <1>2, <1>3 DEF AnswerTo, AnswerOf, AnswerPart
<1>5. answer \in Responses
  BY <1>2, <1>3, WiringAssumption DEF TransportAnswers, AnswerTo, TransportInv, ScenarioOK
<1>6. answer # NoReply /\ answer \in Seq(Payloads)
  BY <1>5, MessageAssumption
<1>7. Len(answer) = scenario.answer /\ answer # <<>>
  BY <1>1, <1>4, <1>6
<1>8. ReplySegments(c, answer)
        = [i \in 1..scenario.answer |-> Data(c, i - 1, scenario.answer, TRUE, answer[i])]
  BY <1>6, <1>7 DEF ReplySegments, SegmentsOf
<1> QED
  BY <1>3, <1>4, <1>8

LEMMA AnswerInOrder ==
  ASSUME NEW n \in Nat, NEW S, NEW segments \in Seq(S), NEW ack \in S,
         DOMAIN segments = 1..n,
         \A i \in 1..n : segments[i].type = "DATA" /\ segments[i].seq = i - 1,
         ack.type = "ACK"
  PROVE  InOrder(<<ack>> \o segments)
<1>1. ASSUME NEW i \in 1..n PROVE Rank(segments[i]) = i + 1
  <2>1. Rank(segments[i]) = (i - 1) + 2
    BY DEF Rank
  <2> QED
    BY <2>1
<1>2. InOrder(segments)
  <2> SUFFICES ASSUME NEW i \in 1..n, NEW j \in 1..n, i < j
               PROVE  Rank(segments[i]) < Rank(segments[j])
    BY DEF InOrder
  <2> QED
    BY <1>1
<1>3. Held(<<ack>>) = {ack} /\ Rank(ack) = 1
  BY DEF Held, Rank
<1>4. ASSUME NEW e \in Held(segments) PROVE 1 < Rank(e)
  <2>1. PICK i \in 1..n : e = segments[i]
    BY DEF Held
  <2> QED
    BY <1>1, <2>1
<1>5. \A d \in Held(<<ack>>), e \in Held(segments) : Rank(d) < Rank(e)
  BY <1>3, <1>4
<1>6. <<ack>> \in Seq(S) /\ InOrder(<<ack>>)
  BY ShortInOrder
<1> QED
  BY <1>2, <1>5, <1>6, JoinedInOrder

(* What is handed to the application is the present message of a client in awaitAck,
   for the first time since its last segment was sent. *)
LEMMA DispatchPatient ==
  ASSUME TransportInv, PatientInv,
         NEW a \in Clients, NEW m \in Incoming, NEW lap \in Laps,
         NEW reply \in Responses \cup {NoReply}, TurnOf(a, m, lap, reply),
         pc[a] = "awaitAck", IsCurrent(a, m), clientId[a] \in Complete, m.intact,
         acked[a] + 1 = scenario.request
  PROVE  /\ handshakes' = handshakes /\ Complete' = Complete
         /\ \A c \in ClientIds \ {clientId[a]} : SessionKept(c)
         /\ clients'[clientId[a]].segments = EmptyMap
         /\ sent' = <<Ack(clientId[a], m.seq)>> \o ReplySegments(clientId[a], reply)
         /\ dispatched' # <<>>
         /\ dispatched'[1].message = Message(a, calls[a])
         /\ Executed(a, calls[a]) \in Nat /\ Executed(a, calls[a]) <= resends[a]
<1>1. /\ PatientClient(a) /\ PatientNetwork /\ ServerInv /\ alive /\ SentInTurn
      /\ \A message \in DOMAIN executed : executed[message] \in Nat
  BY DEF PatientInv, TransportInv, ServerInv
<1>2. /\ m.id = clientId[a] /\ m.type = "DATA" /\ m.tot = scenario.request /\ acked[a] \in Nat
      /\ scenario.request \in Nat \ {0} /\ calls[a] \in 1..MaxCalls
  BY CurrentTaken
<1>3. AcceptSegment(m, lap, reply) /\ Tries(a) = resends[a]
  BY AnswerTurnPatient
<1>4. PICK pieces : pieces = Collected(m.id, m)
  OBVIOUS
<1>5. m \in SentBy(a)
  BY <1>1, TurnEffect
<1>6. /\ DOMAIN pieces = 0..acked[a]
      /\ \A seq \in 0..acked[a] : pieces[seq] = Chunk(a, calls[a], seq + 1)
  BY <1>1, <1>4, <1>5, PiecesCollected
<1>7. DOMAIN pieces = 0..(m.tot - 1)
  BY <1>2, <1>6
<1>8. [i \in 1..m.tot |-> pieces[i - 1]] = Message(a, calls[a])
  <2>1. \A i \in 1..scenario.request : i - 1 \in 0..acked[a] /\ (i - 1) + 1 = i
    BY <1>2
  <2>2. \A i \in 1..scenario.request : pieces[i - 1] = Chunk(a, calls[a], i)
    <3> TAKE i \in 1..scenario.request
    <3>1. pieces[i - 1] = Chunk(a, calls[a], (i - 1) + 1)
      BY <1>6, <2>1
    <3> QED
      BY <2>1, <3>1
  <2> QED
    BY <1>2, <2>2 DEF Message, RequestOf
<1>9. /\ handshakes' = handshakes /\ Complete' = Complete
      /\ \A c \in ClientIds \ {m.id} : SessionKept(c)
      /\ clients'[m.id].segments = EmptyMap
      /\ sent' = <<Ack(m.id, m.seq)>> \o ReplySegments(m.id, reply)
      /\ dispatched' # <<>>
      /\ dispatched'[1].message = [i \in 1..m.tot |-> pieces[i - 1]]
  BY <1>1, <1>2, <1>3, <1>4, <1>7, StoreTurn, SMTT(60)
<1>10. Executed(a, calls[a]) \in Nat /\ Executed(a, calls[a]) <= resends[a]
  BY <1>1, <1>2, <1>3 DEF PatientClient, IsCounted, Executed, Count
<1> QED
  BY <1>2, <1>8, <1>9, <1>10

(* Messages of two clients or of two calls differ in their first chunk. *)
LEMMA RequestsDiffer ==
  ASSUME ScenarioOK, NEW a \in Clients, NEW b \in Clients,
         NEW k \in 1..MaxCalls, NEW l \in 1..MaxCalls, Message(a, k) = Message(b, l)
  PROVE  a = b /\ k = l
<1>1. 1 \in 1..scenario.request
  BY ScenarioTypes
<1>2. Message(a, k)[1] = Chunk(a, k, 1) /\ Message(b, l)[1] = Chunk(b, l, 1)
  BY <1>1, RequestTypes
<1> QED
  BY <1>2 DEF Chunk

(* One message is counted up, no other one. *)
LEMMA OneExecuted ==
  ASSUME ScenarioOK, OnlyWholeRequests, \A message \in DOMAIN executed : executed[message] \in Nat,
         NEW a \in Clients, NEW k \in 1..MaxCalls, scenario' = scenario,
         executed' = Put(executed, Message(a, k), Count(Message(a, k)) + 1)
  PROVE  /\ Executed(a, k) \in Nat /\ Executed(a, k)' = Executed(a, k) + 1
         /\ \A b \in Clients : \A l \in 1..MaxCalls :
              b # a \/ l # k => Executed(b, l)' = Executed(b, l)
         /\ OnlyWholeRequests' /\ \A message \in DOMAIN executed' : executed'[message] \in Nat
<1>1. PICK req : req = Message(a, k)
  OBVIOUS
<1>2. /\ DOMAIN executed' = DOMAIN executed \cup {req}
      /\ executed'[req] = Count(req) + 1
      /\ \A message \in DOMAIN executed \ {req} : executed'[message] = executed[message]
  BY <1>1 DEF Put
<1>3. Count(req) \in Nat
  BY DEF Count
<1>4. \A b, l : Message(b, l)' = Message(b, l)
  BY DEF Message, RequestOf, Chunk
<1>5. Executed(a, k) = Count(req) /\ Executed(a, k)' = Count(req) + 1
  BY <1>1, <1>2, <1>4 DEF Executed, Count
<1>6. ASSUME NEW b \in Clients, NEW l \in 1..MaxCalls, b # a \/ l # k
      PROVE  Executed(b, l)' = Executed(b, l)
  <2>1. Message(b, l) # req
    BY <1>1, <1>6, RequestsDiffer
  <2> QED
    BY <1>2, <1>4, <2>1 DEF Executed, Count
<1>7. OnlyWholeRequests'
  <2>1. req \in Requests
    BY <1>1, RequestTypes
  <2>2. DOMAIN executed' \subseteq Requests
    BY <1>2, <2>1 DEF OnlyWholeRequests
  <2> QED
    BY <2>2 DEF OnlyWholeRequests, Requests, RequestOf, Chunk
<1>8. \A message \in DOMAIN executed' : executed'[message] \in Nat
  BY <1>2, <1>3
<1> QED
  BY <1>3, <1>5, <1>6, <1>7, <1>8

(* The last segment completes the message: it is executed, and the segments of the
   answer follow the ACK. *)
LEMMA DispatchTurnPatient ==
  ASSUME TransportInv, PatientInv,
         NEW a \in Clients, NEW m \in Incoming, NEW lap \in Laps,
         NEW reply \in Responses \cup {NoReply}, TurnOf(a, m, lap, reply),
         pc[a] = "awaitAck", IsCurrent(a, m), clientId[a] \in Complete, m.intact,
         acked[a] + 1 = scenario.request
  PROVE  /\ PatientClient(a)'
         /\ executed' = Put(executed, Message(a, calls[a]), Count(Message(a, calls[a])) + 1)
         /\ \A c \in ClientIds \ {TurnId(m)} : SessionKept(c)
<1>1. /\ PatientClient(a) /\ PatientNetwork /\ ServerInv /\ SentInTurn /\ ScenarioOK
      /\ OnlyWholeRequests /\ \A message \in DOMAIN executed : executed[message] \in Nat
  BY DEF PatientInv, TransportInv
<1>2. PICK c : c = clientId[a]
  OBVIOUS
<1>3. /\ m.id = c /\ m.type = "DATA" /\ m.tot = scenario.request /\ acked[a] \in Nat
      /\ scenario.request \in Nat \ {0} /\ scenario.answer \in Nat \ {0}
      /\ calls[a] \in 1..MaxCalls /\ resends[a] \in Nat /\ c \in ClientIds
  BY <1>2, CurrentTaken
<1>4. /\ SentBy(a)' = {} /\ HasType(Arriving(a), {"HS_COMPLETE"})
      /\ Sends(a) /\ ~ Sends(a)' /\ Tries(a) = resends[a]
      /\ Same(a) /\ scenario' = scenario /\ (DamageUsed => DamageUsed')
      /\ Arriving(a)' = Arriving(a) \cup Held(sent')
      /\ InOrder(sent') => InOrder(toClient[a])'
  BY AnswerTurnPatient
<1>5. /\ handshakes' = handshakes /\ Complete' = Complete
      /\ \A x \in ClientIds \ {c} : SessionKept(x)
      /\ clients'[c].segments = EmptyMap
      /\ sent' = <<Ack(c, m.seq)>> \o ReplySegments(c, reply)
      /\ dispatched' # <<>> /\ dispatched'[1].message = Message(a, calls[a])
      /\ Executed(a, calls[a]) \in Nat /\ Executed(a, calls[a]) <= resends[a]
  BY <1>2, DispatchPatient
<1>6. /\ reply = AnswerTo(Message(a, calls[a]))
      /\ executed' = Put(executed, Message(a, calls[a]), Count(Message(a, calls[a])) + 1)
  BY <1>5 DEF TurnOf
<1>7. PICK ack : ack = Ack(c, m.seq)
  OBVIOUS
<1>8. ack.type = "ACK"
  BY <1>7 DEF Ack
<1>9. PICK segments : segments = ReplySegments(c, reply)
  OBVIOUS
<1>10. segments = [i \in 1..scenario.answer |->
                     Data(c, i - 1, scenario.answer, TRUE, AnswerPart(a, calls[a], i))]
  BY <1>3, <1>6, <1>9, AnswerSequence
<1>11. segments \in Seq(ToClientTypes)
  BY <1>3, <1>9, ReplySegmentsType DEF ToClientTypes
<1>12. \A i \in 1..scenario.answer :
         /\ segments[i].type = "DATA" /\ segments[i].seq = i - 1
         /\ segments[i].tot = scenario.answer
         /\ segments[i].payload = AnswerPart(a, calls[a], i) /\ segments[i].intact
  BY <1>10 DEF Data
<1>13. DOMAIN segments = 1..scenario.answer
  BY <1>10
<1>14. PICK S : S = ToClientTypes \cup {ack}
  OBVIOUS
<1>15. segments \in Seq(S) /\ <<ack>> \in Seq(S) /\ ack \in S
  BY <1>11, <1>14
<1>16. InOrder(sent')
  <2>1. InOrder(<<ack>> \o segments)
    BY <1>3, <1>8, <1>12, <1>13, <1>15, AnswerInOrder
  <2> QED
    BY <1>5, <1>7, <1>9, <2>1
<1>17. Held(sent') = {ack} \cup Held(segments)
  <2>1. Held(<<ack>>) = {ack}
    BY DEF Held
  <2>2. PICK first : first = <<ack>>
    OBVIOUS
  <2>3. first \in Seq(S)
    BY <1>15, <2>2
  <2>4. Held(first \o segments) = Held(first) \cup Held(segments)
    BY <1>15, <2>3, HeldConcat
  <2> QED
    BY <1>5, <1>7, <1>9, <2>1, <2>2, <2>4
<1>18. ASSUME NEW d \in Held(segments)
       PROVE  d.type = "DATA" /\ IsAwaited(a, d)
  <2>1. PICK i \in 1..scenario.answer : d = segments[i]
    BY <1>13 DEF Held
  <2>2. i - 1 \in 0..(scenario.answer - 1) /\ (i - 1) + 1 = i
    BY <1>3
  <2> QED
    BY <1>12, <2>1, <2>2 DEF IsAwaited
<1>19. Arriving(a)' = Arriving(a) \cup {ack} \cup Held(segments)
  BY <1>4, <1>17
<1>20. /\ pc'[a] = "awaitAck" /\ clientId'[a] = c /\ calls'[a] = calls[a]
       /\ acked'[a] = acked[a] /\ resends'[a] = resends[a]
  BY <1>2, <1>4 DEF Same
<1>21. \A d \in Held(segments) : IsAwaited(a, d)'
  BY <1>4, <1>18, <1>20, PiecesKept
<1>22. \A d \in Arriving(a)' :
         d.type \in {"HS_COMPLETE", "ACK"} \/ (d.type = "DATA" /\ d \in Held(segments))
  BY <1>4, <1>8, <1>18, <1>19 DEF HasType
<1>23. AwaitsAck(a)'
  BY <1>2, <1>4, <1>5, <1>20, <1>21, <1>22 DEF AwaitsAck, HasType
<1>24. Stored(a)' = 0
  BY <1>3, <1>4, <1>20 DEF Stored
<1>25. IsBuffered(a)'
  <2>1. DOMAIN EmptyMap = {} /\ 0..(0 - 1) = {}
    BY DEF EmptyMap
  <2> QED
    BY <1>5, <1>20, <1>24, <2>1 DEF IsBuffered
<1>26. IsHeard(a)'
  BY <1>1, <1>4, <1>8, <1>19, <1>20 DEF PatientClient, IsHeard
<1>27. /\ Executed(a, calls[a])' = Executed(a, calls[a]) + 1
       /\ \A l \in 1..MaxCalls : l # calls[a] => Executed(a, l)' = Executed(a, l)
  <2>1. PICK k \in 1..MaxCalls : k = calls[a]
    BY <1>3
  <2>2. /\ Executed(a, k)' = Executed(a, k) + 1
        /\ \A l \in 1..MaxCalls : l # k => Executed(a, l)' = Executed(a, l)
    BY <1>1, <1>4, <1>6, <2>1, OneExecuted
  <2> QED
    BY <1>20, <2>1, <2>2 DEF Executed
<1>28. Tries(a)' = resends[a] + 1
  <2>1. ~ (acked'[a] + 1 < scenario.request)
    BY <1>3, <1>20
  <2> QED
    BY <1>4, <1>20, <1>22, <2>1 DEF Tries
<1>29. IsCounted(a)'
  <2>1. \A k \in 1..MaxCalls :
          /\ k > calls[a] => k # calls[a] /\ Executed(a, k) = 0
    BY <1>1, <1>3 DEF PatientClient, IsCounted
  <2>2. /\ Executed(a, calls[a])' <= resends[a] + 1
        /\ Executed(a, calls[a])' > 0
    BY <1>3, <1>5, <1>27
  <2>3. ASSUME NEW k \in 1..MaxCalls
        PROVE  /\ k > calls'[a] => Executed(a, k)' = 0
               /\ k = calls'[a] => Executed(a, k)' <= Tries(a)' /\ Executed(a, k)' > 0
    <3>1. k > calls'[a] => Executed(a, k)' = 0
      BY <1>20, <1>27, <2>1
    <3>2. k = calls'[a] => Executed(a, k)' <= Tries(a)' /\ Executed(a, k)' > 0
      BY <1>20, <1>28, <2>2 DEF Executed
    <3> QED
      BY <3>1, <3>2
  <2> QED
    BY <2>3 DEF IsCounted
<1>30. c \in DOMAIN handshakes' /\ TurnId(m) = c
  BY <1>1, <1>2, <1>3, <1>5, Registered DEF TurnId
<1> QED
  BY <1>1, <1>2, <1>4, <1>5, <1>6, <1>16, <1>23, <1>25, <1>26, <1>29, <1>30, AckStagePatient

(* What a turn may execute: the present message of a client in awaitAck, for the first
   time since it was last sent. *)
Executes(a) ==
  /\ pc[a] = "awaitAck"
  /\ executed' = Put(executed, Message(a, calls[a]), Count(Message(a, calls[a])) + 1)
  /\ Executed(a, calls[a]) <= resends[a]

(* A turn for a datagram of client a. *)
LEMMA SenderPatient ==
  ASSUME TransportInv, PatientInv,
         NEW a \in Clients, NEW m \in Incoming, NEW lap \in Laps,
         NEW reply \in Responses \cup {NoReply}, TurnOf(a, m, lap, reply)
  PROVE  /\ PatientClient(a)' /\ (executed' = executed \/ Executes(a))
         /\ \A c \in ClientIds \ {TurnId(m)} : SessionKept(c)
<1>1. PatientClient(a) /\ SentInTurn
  BY DEF PatientInv
<1>2. m \in SentBy(a)
  BY <1>1, TurnEffect
<1>3. dispatched' = <<>> => executed' = executed
  BY DEF TurnOf
<1>4. CASE pc[a] = "awaitInit"
  BY <1>1, <1>2, <1>3, <1>4, SenderWaits, InitTurnPatient
<1>5. CASE pc[a] = "awaitAck"
  <2>1. CASE m = Handshake(clientId[a])
    BY <1>3, <1>5, <2>1, HandshakeTurnPatient
  <2>2. CASE IsCurrent(a, m)
    <3>1. CASE clientId[a] \notin Complete
      BY <1>3, <1>5, <2>2, <3>1, AskTurnPatient
    <3>2. CASE clientId[a] \in Complete /\ ~ m.intact
      BY <1>3, <1>5, <2>2, <3>2, RefuseTurnPatient
    <3>3. CASE clientId[a] \in Complete /\ m.intact /\ acked[a] + 1 < scenario.request
      BY <1>3, <1>5, <2>2, <3>3, StoreTurnPatient
    <3>4. CASE clientId[a] \in Complete /\ m.intact /\ acked[a] + 1 = scenario.request
      <4>1. PatientClient(a)' /\ \A c \in ClientIds \ {TurnId(m)} : SessionKept(c)
        BY <1>5, <2>2, <3>4, DispatchTurnPatient
      <4>2. Executes(a)
        BY <1>5, <2>2, <3>4, DispatchTurnPatient, DispatchPatient DEF Executes
      <4> QED
        BY <4>1, <4>2
    <3>5. acked[a] + 1 < scenario.request \/ acked[a] + 1 = scenario.request
      <4>1. acked[a] \in Nat /\ scenario.request \in Nat /\ acked[a] < scenario.request
        BY <1>5, <2>2, CurrentTaken
      <4> QED
        BY <4>1
    <3> QED
      BY <3>1, <3>2, <3>3, <3>4, <3>5
  <2> QED
    BY <1>1, <1>2, <1>5, <2>1, <2>2, SenderWaits
<1> QED
  BY <1>1, <1>2, <1>4, <1>5, SenderWaits

LEMMA ServerTurnPatient ==
  ASSUME TransportInv, IdsOwned, NotRestarted, PatientInv, ServerTurn
  PROVE  PatientInv' /\ (executed' = executed \/ \E a \in Clients : Executes(a))
<1>1. PICK a \in Clients, m \in Incoming, lap \in Laps, reply \in Responses \cup {NoReply} :
        FromClient(a, m) /\ TurnOf(a, m, lap, reply)
  BY TurnTaken
<1>2. /\ PatientClient(a)' /\ (executed' = executed \/ Executes(a))
      /\ \A c \in ClientIds \ {TurnId(m)} : SessionKept(c)
  BY <1>1, SenderPatient
<1>3. /\ SentInTurn /\ OnlyWholeRequests /\ PatientNetwork /\ ScenarioOK
      /\ \A message \in DOMAIN executed : executed[message] \in Nat
      /\ \A b \in Clients : PatientClient(b)
  BY DEF PatientInv, TransportInv
<1>4. SentInTurn' /\ UNCHANGED <<calls, scenario>>
  BY <1>1, <1>3, TurnEffect
<1>5. /\ OnlyWholeRequests' /\ \A message \in DOMAIN executed' : executed'[message] \in Nat
      /\ \A b \in Clients \ {a} : \A l \in 1..MaxCalls : Executed(b, l)' = Executed(b, l)
  <2>1. CASE executed' = executed
    BY <1>3, <1>4, <2>1 DEF OnlyWholeRequests, Requests, RequestOf, Chunk, Executed, Count,
                            Message
  <2>2. CASE Executes(a)
    <3>1. PICK k \in 1..MaxCalls : k = calls[a]
      <4>1. calls[a] \in 0..MaxCalls /\ calls[a] > 0
        BY <2>2 DEF Executes, TransportInv, ProcessesOK, ProcessTypes, ClientOK, InCall
      <4> QED
        BY <4>1, TransportAssumption
    <3> QED
      BY <1>3, <1>4, <2>2, <3>1, OneExecuted DEF Executes
  <2> QED
    BY <1>2, <2>1, <2>2
<1>6. \A b \in Clients \ {a} : PatientClient(b)'
  BY <1>1, <1>2, <1>3, <1>5, OthersAfterTurn
<1>7. PatientNetwork'
  BY <1>3, <1>4 DEF PatientNetwork, Forgiving
<1> QED
  BY <1>2, <1>4, <1>5, <1>6, <1>7 DEF PatientInv

-----------------------------------------------------------------------------
(* The network. *)

(* A fault the scenario allows changes nothing at the clients and in the sessions. *)
LEMMA FaultService ==
  ASSUME TransportInv, PatientInv, NEW kind \in FaultKinds, Fault(kind),
         UNCHANGED <<handshakes, clients>>
  PROVE  /\ kind \notin {"delay", "repetition", "restart"}
         /\ kind \in {"loss", "damage"} => scenario.request = 1
         /\ kind = "loss" => scenario.budget["loss"] # 0
         /\ kind = "damage" => DamageUsed'
         /\ UNCHANGED <<scenario, executed>> /\ Complete' = Complete
         /\ PatientNetwork' /\ OnlyWholeRequests'
         /\ \A message \in DOMAIN executed' : executed'[message] \in Nat
         /\ \A a \in Clients : PatientClient(a) /\ Same(a) /\ ServiceKept(a)
<1>1. /\ UNCHANGED <<clientVars, calls, executed, scenario>>
      /\ faults' = [faults EXCEPT ![kind] = @ - 1] /\ faults[kind] > 0
  BY DEF Fault
<1>2. /\ ScenarioOK /\ PatientNetwork /\ OnlyWholeRequests
      /\ \A message \in DOMAIN executed : executed[message] \in Nat
      /\ \A a \in Clients : PatientClient(a)
  BY DEF PatientInv, TransportInv
<1>3. /\ scenario.budget \in [FaultKinds -> Nat] /\ faults \in [FaultKinds -> Nat]
      /\ \A k \in FaultKinds : faults[k] <= scenario.budget[k]
  BY <1>2, ScenarioTypes DEF ScenarioOK
<1>4. scenario.budget[kind] # 0
  BY <1>1, <1>3
<1>5. /\ kind \notin {"delay", "repetition", "restart"}
      /\ kind \in {"loss", "damage"} => scenario.request = 1
  BY <1>2, <1>4 DEF PatientNetwork, Forgiving
<1>6. "damage" \in FaultKinds
  BY DEF FaultKinds
<1>7. faults'["damage"] <= faults["damage"]
  BY <1>2, <1>6, FaultCounted
<1>8. faults'["damage"] \in Nat /\ faults["damage"] \in Nat /\ scenario.budget["damage"] \in Nat
  <2>1. ScenarioOK'
    BY <1>2, FaultCounted
  <2> QED
    BY <1>3, <1>6, <2>1 DEF ScenarioOK
<1>9. DamageUsed => DamageUsed'
  BY <1>1, <1>7, <1>8 DEF DamageUsed
<1>10. kind = "damage" => DamageUsed'
  <2> SUFFICES ASSUME kind = "damage" PROVE DamageUsed'
    OBVIOUS
  <2>1. faults'["damage"] = faults["damage"] - 1 /\ faults["damage"] <= scenario.budget["damage"]
    BY <1>1, <1>3
  <2> QED
    BY <1>1, <1>8, <2>1 DEF DamageUsed
<1>11. Complete' = Complete
  BY DEF Complete
<1>12. \A a \in Clients : Same(a) /\ ServiceKept(a)
  BY <1>1, <1>9, <1>11
     DEF Same, clientVars, ServiceKept, SessionKept, Executed, Count, Message, RequestOf, Chunk
<1>13. PatientNetwork' /\ OnlyWholeRequests'
       /\ \A message \in DOMAIN executed' : executed'[message] \in Nat
  BY <1>1, <1>2 DEF PatientNetwork, Forgiving, OnlyWholeRequests, Requests, RequestOf, Chunk
<1> QED
  BY <1>1, <1>2, <1>4, <1>5, <1>10, <1>11, <1>12, <1>13

(* A client, whose messages are one segment, of which less is on its way. *)
LEMMA LessPatient ==
  ASSUME TransportInv, NEW a \in Clients, PatientClient(a), Same(a), ServiceKept(a),
         UNCHANGED <<handshakes, clients, executed>>, Complete' = Complete,
         scenario.request = 1, scenario.budget["loss"] # 0,
         \A message \in DOMAIN executed : executed[message] \in Nat,
         SentBy(a)' \subseteq SentBy(a), Arriving(a)' \subseteq Arriving(a),
         InOrder(toClient[a])'
  PROVE  PatientClient(a)'
<1>1. /\ pc'[a] = pc[a] /\ clientId'[a] = clientId[a] /\ calls'[a] = calls[a]
      /\ outgoing'[a] = outgoing[a] /\ acked'[a] = acked[a] /\ resends'[a] = resends[a]
      /\ incoming'[a] = incoming[a] /\ result'[a] = result[a] /\ scenario' = scenario
  BY DEF Same, ServiceKept
<1>2. /\ \A i, piece : IsPieceOf(a, i, piece) => IsPieceOf(a, i, piece)'
      /\ \A d : IsAwaited(a, d) => IsAwaited(a, d)'
      /\ \A k : Message(a, k)' = Message(a, k)
  BY <1>1, PiecesKept DEF ServiceKept
<1>3. \A d : IsCurrent(a, d)' <=> IsCurrent(a, d)
  BY <1>1, CurrentKept
<1>4. AtRest(a)' /\ AwaitsInit(a)'
  BY <1>1 DEF PatientClient, AtRest, AwaitsInit
<1>5. AwaitsAck(a)'
  BY <1>1, <1>2, <1>3 DEF PatientClient, AwaitsAck, HasType
<1>6. AwaitsResponse(a)'
  BY <1>1, <1>2 DEF PatientClient, AwaitsResponse
<1>7. IsLinked(a)' /\ HasResult(a)'
  BY <1>1, <1>2 DEF PatientClient, IsLinked, HasResult
<1>8. pc[a] = "awaitAck" => acked[a] = 0 /\ resends[a] \in Nat
  <2>1. /\ pc[a] = "awaitAck" => acked[a] < scenario.request
        /\ acked[a] \in 0..scenario.request /\ resends[a] \in 0..MaxResends
    BY DEF TransportInv, ProcessesOK, ProcessTypes, ClientOK
  <2> QED
    BY <2>1, ResendAssumption
<1>9. Stored(a) = 0 /\ Stored(a)' = 0
  BY <1>1, <1>8 DEF Stored
<1>10. IsBuffered(a)'
  BY <1>1, <1>9 DEF PatientClient, IsBuffered, Chunk
<1>11. IsHeard(a)'
  BY <1>1 DEF IsHeard
<1>12. pc[a] = "awaitAck" => Tries(a)' = Tries(a) \/ Tries(a)' = Tries(a) + 1
  <2> SUFFICES ASSUME pc[a] = "awaitAck"
               PROVE  Tries(a)' = Tries(a) \/ Tries(a)' = Tries(a) + 1
    OBVIOUS
  <2>1. /\ Sends(a)' => Sends(a)
        /\ (\E d \in Arriving(a)' : d.type = "HS") => \E d \in Arriving(a) : d.type = "HS"
    BY DEF Sends
  <2>2. (Tries(a) = resends[a] \/ Tries(a) = resends[a] + 1)
        /\ (Tries(a)' = resends[a] \/ Tries(a)' = resends[a] + 1)
    BY <1>1 DEF Tries
  <2>3. Tries(a)' = resends[a] => Tries(a) = resends[a]
    <3>1. resends[a] + 1 # resends[a]
      BY <1>8
    <3> QED
      BY <1>1, <2>1, <3>1 DEF Tries
  <2> QED
    BY <2>2, <2>3
<1>13. \A k \in 1..MaxCalls : Executed(a, k)' = Executed(a, k)
  BY DEF ServiceKept
<1>14. IsCounted(a)'
  <2>1. ASSUME NEW k \in 1..MaxCalls, k = calls'[a], pc'[a] = "awaitAck"
        PROVE  Executed(a, k)' <= Tries(a)'
    <3>1. Executed(a, k) <= Tries(a) /\ Executed(a, k)' = Executed(a, k)
      BY <1>1, <1>13, <2>1 DEF PatientClient, IsCounted
    <3>2. Executed(a, k) \in Nat
      BY DEF Executed, Count
    <3>3. resends[a] \in Nat
      BY <1>1, <1>8, <2>1
    <3>4. Tries(a) = resends[a] \/ Tries(a) = resends[a] + 1
      BY DEF Tries
    <3>5. Tries(a) \in Nat
      BY <3>3, <3>4
    <3>6. Tries(a)' = Tries(a) \/ Tries(a)' = Tries(a) + 1
      BY <1>1, <1>12, <2>1
    <3> QED
      BY <3>1, <3>2, <3>5, <3>6
  <2> QED
    BY <1>1, <1>13, <2>1 DEF PatientClient, IsCounted
<1> QED
  BY <1>4, <1>5, <1>6, <1>7, <1>10, <1>11, <1>14 DEF PatientClient

(* A lost datagram. *)
LEMMA LosePatient ==
  ASSUME TransportInv, PatientInv, Lose
  PROVE  PatientInv'
<1>1. Fault("loss") /\ UNCHANGED <<handshakes, clients>> /\ "loss" \in FaultKinds
  BY DEF Lose, Disturb, NetworkFault, FaultKinds, managers
<1>2. /\ scenario.request = 1 /\ scenario.budget["loss"] # 0
      /\ UNCHANGED <<scenario, executed>> /\ Complete' = Complete
      /\ PatientNetwork' /\ OnlyWholeRequests'
      /\ \A message \in DOMAIN executed' : executed'[message] \in Nat
      /\ \A a \in Clients : PatientClient(a) /\ Same(a) /\ ServiceKept(a)
  BY <1>1, FaultService
<1>3. /\ toServer \in Seq([from : Clients, datagram : ToServerTypes])
      /\ toClient \in [Clients -> Seq(ToClientTypes)] /\ SentInTurn
  BY DEF TransportInv, NetworkOK, PatientInv
<1>4. Rearranged
  BY DisturbRearranges
<1>5. \A a \in Clients : SentBy(a)' \subseteq SentBy(a) /\ Arriving(a)' \subseteq Arriving(a)
  BY <1>4 DEF Rearranged, SentBy, Arriving
<1>6. SentInTurn' /\ \A a \in Clients : InOrder(toClient'[a])
  <2>1. CASE UNCHANGED toClient /\ \E i \in DOMAIN toServer : toServer' = Without(toServer, i)
    <3>1. SentInTurn'
      BY <1>3, <2>1, OneLost
    <3> QED
      BY <1>2, <2>1, <3>1 DEF PatientClient
  <2>2. CASE /\ UNCHANGED toServer
             /\ \E a \in Clients : \E i \in DOMAIN toClient[a] :
                  toClient' = [toClient EXCEPT ![a] = Without(toClient[a], i)]
    <3>1. PICK a \in Clients : \E i \in DOMAIN toClient[a] :
            toClient' = [toClient EXCEPT ![a] = Without(toClient[a], i)]
      BY <2>2
    <3>2. PICK i \in DOMAIN toClient[a] :
            toClient' = [toClient EXCEPT ![a] = Without(toClient[a], i)]
      BY <3>1
    <3>3. InOrder(Without(toClient[a], i))
      BY <1>2, <1>3, WithoutInOrder DEF PatientClient
    <3>4. \A b \in Clients : toClient'[b] = toClient[b] \/ toClient'[b] = Without(toClient[a], i)
      BY <1>3, <3>2
    <3>5. \A b \in Clients : InOrder(toClient'[b])
      BY <1>2, <3>3, <3>4 DEF PatientClient
    <3> QED
      BY <1>3, <2>2, <3>5 DEF SentInTurn
  <2> QED
    BY <2>1, <2>2 DEF Lose, Disturb
<1>7. \A message \in DOMAIN executed : executed[message] \in Nat
  BY DEF PatientInv
<1>8. ASSUME NEW a \in Clients PROVE PatientClient(a)'
  <2>1. InOrder(toClient[a])'
    BY <1>6 DEF InOrder, Rank
  <2> QED
    BY <1>1, <1>2, <1>5, <1>7, <2>1, LessPatient
<1> QED
  BY <1>2, <1>6, <1>8 DEF PatientInv

(* A changed segment on the way to the server: it is the only one of its message. *)
LEMMA DamageToServerPatient ==
  ASSUME TransportInv, PatientInv, DamageToServer
  PROVE  PatientInv'
<1>1. Fault("damage") /\ UNCHANGED <<handshakes, clients, toClient>> /\ "damage" \in FaultKinds
  BY DEF DamageToServer, NetworkFault, FaultKinds, managers
<1>2. /\ scenario.request = 1
      /\ UNCHANGED <<scenario, executed>> /\ Complete' = Complete
      /\ PatientNetwork' /\ OnlyWholeRequests'
      /\ \A message \in DOMAIN executed' : executed'[message] \in Nat
      /\ \A a \in Clients : PatientClient(a) /\ Same(a) /\ ServiceKept(a)
  BY <1>1, FaultService
<1>3. PICK i \in DOMAIN toServer :
        /\ toServer[i].datagram.type = "DATA"
        /\ toServer' = [toServer EXCEPT ![i].datagram.intact = FALSE]
  BY DEF DamageToServer
<1>4. toServer \in Seq([from : Clients, datagram : ToServerTypes]) /\ SentInTurn
  BY DEF TransportInv, NetworkOK, PatientInv
<1>5. PICK q : q = toServer[i]
  OBVIOUS
<1>6. q.datagram \in ToServerTypes /\ q.datagram.type = "DATA" /\ q \in Held(toServer)
      /\ q = [from |-> q.from, datagram |-> q.datagram]
  <2>1. PICK T : T = [from : Clients, datagram : ToServerTypes]
    OBVIOUS
  <2>2. toServer \in Seq(T)
    BY <1>4, <2>1
  <2>3. q \in T
    BY <1>5, <2>2
  <2>4. q \in Held(toServer)
    BY <1>5 DEF Held
  <2> QED
    BY <1>3, <1>5, <2>1, <2>3, <2>4
<1>7. PICK s : s = Spoilt(q.datagram)
  OBVIOUS
<1>8. /\ s.type = "DATA"
      /\ s = Data(q.datagram.id, q.datagram.seq, q.datagram.tot, FALSE, q.datagram.payload)
  BY <1>6, <1>7, SpoiltTypes DEF ToServerTypes
<1>9. PICK p : p = [from |-> q.from, datagram |-> s]
  OBVIOUS
<1>10. toServer' = [toServer EXCEPT ![i] = p]
  <2>1. [q EXCEPT !.datagram.intact = FALSE] = [q EXCEPT !.datagram = s]
    BY <1>7 DEF Spoilt
  <2>2. [q EXCEPT !.datagram = s] = p
    BY <1>6, <1>9
  <2>3. [toServer EXCEPT ![i].datagram.intact = FALSE]
          = [toServer EXCEPT ![i] = [toServer[i] EXCEPT !.datagram.intact = FALSE]]
    OBVIOUS
  <2> QED
    BY <1>3, <1>5, <2>1, <2>2, <2>3
<1>11. p.from = q.from /\ p.datagram = s
  BY <1>9
<1>12. /\ DOMAIN toServer' = DOMAIN toServer /\ toServer'[i] = p
       /\ \A j \in DOMAIN toServer \ {i} : toServer'[j] = toServer[j]
  BY <1>4, <1>10
<1>13. \A j \in DOMAIN toServer :
         /\ toServer'[j].from = toServer[j].from
         /\ toServer'[j].datagram.type = toServer[j].datagram.type
  BY <1>5, <1>6, <1>8, <1>11, <1>12
<1>14. SentInTurn'
  BY <1>4, <1>12, <1>13 DEF SentInTurn
<1>15. Held(toServer') = {p} \cup Held(toServer') /\ Held(toServer') \subseteq {p} \cup Held(toServer)
       /\ Held(toServer) \subseteq {q} \cup Held(toServer')
  BY <1>5, <1>12 DEF Held
<1>16. \A a \in Clients :
         \/ q.from # a /\ SentBy(a)' = SentBy(a)
         \/ /\ q.from = a /\ q.datagram \in SentBy(a) /\ s \in SentBy(a)'
            /\ SentBy(a)' \subseteq {s} \cup SentBy(a)
            /\ SentBy(a) \subseteq {q.datagram} \cup SentBy(a)'
  BY <1>6, <1>11, <1>15 DEF SentBy
<1>17. ASSUME NEW a \in Clients PROVE PatientClient(a)'
  <2>1. CASE q.from # a
    BY <1>1, <1>2, <1>16, <2>1, PatientStays
  <2>2. CASE q.from = a
    <3>1. /\ q.datagram \in SentBy(a) /\ s \in SentBy(a)'
          /\ SentBy(a)' \subseteq {s} \cup SentBy(a)
          /\ SentBy(a) \subseteq {q.datagram} \cup SentBy(a)'
      BY <1>16, <2>2
    <3>2. /\ pc[a] = "awaitAck" /\ IsCurrent(a, q.datagram)
          /\ clientId[a] \in DOMAIN handshakes
      <4>1. q.datagram # InitRequest /\ q.datagram # Handshake(clientId[a])
        BY <1>6 DEF InitRequest, Handshake
      <4> QED
        BY <1>2, <3>1, <4>1, SenderWaits
    <3>3. IsCurrent(a, s)
      <4>1. /\ q.datagram.id = clientId[a] /\ q.datagram.seq = acked[a]
            /\ q.datagram.tot = scenario.request
            /\ q.datagram.payload = Chunk(a, calls[a], acked[a] + 1)
        BY <3>2, CurrentTaken
      <4>2. s.intact = FALSE
        BY <1>8 DEF Data
      <4> QED
        BY <1>2, <1>8, <4>1, <4>2 DEF IsCurrent
    <3>4. \A d : IsCurrent(a, d)' <=> IsCurrent(a, d)
      BY <1>2, CurrentKept
    <3>5. Arriving(a)' = Arriving(a) /\ InOrder(toClient[a])'
      BY <1>1, <1>2 DEF Arriving, Held, PatientClient, InOrder, Rank
    <3>6. /\ pc'[a] = "awaitAck" /\ clientId'[a] = clientId[a] /\ calls'[a] = calls[a]
          /\ acked'[a] = acked[a] /\ resends'[a] = resends[a]
      BY <1>2, <3>2 DEF Same
    <3>7. \A d : IsAwaited(a, d) => IsAwaited(a, d)'
      BY <1>2, <3>6, PiecesKept DEF ServiceKept
    <3>8. AwaitsAck(a)'
      <4>1. \A d \in SentBy(a)' : d = Handshake(clientId'[a]) \/ IsCurrent(a, d)'
        BY <1>2, <3>1, <3>2, <3>3, <3>4, <3>6 DEF PatientClient, AwaitsAck
      <4>2. HasType(Arriving(a)', {"HS_COMPLETE"})
        BY <1>2, <3>1, <3>2, <3>5 DEF PatientClient, AwaitsAck
      <4>3. HasType(SentBy(a), {"DATA"}) => HasType(SentBy(a)', {"DATA"})
        BY <1>8, <3>1 DEF HasType
      <4> QED
        BY <1>2, <3>2, <3>5, <3>6, <3>7, <4>1, <4>2, <4>3 DEF PatientClient, AwaitsAck
    <3>9. Sends(a) /\ Sends(a)'
      BY <1>6, <1>8, <3>1 DEF Sends
    <3>10. Stored(a)' = Stored(a) /\ Tries(a)' = Tries(a)
      BY <3>2, <3>6, <3>9 DEF Stored, Tries
    <3>11. IsBuffered(a)'
      BY <1>1, <1>2, <3>2, <3>6, <3>10 DEF PatientClient, IsBuffered, Chunk
    <3>12. IsHeard(a)'
      BY <1>2, <3>6, <3>9 DEF PatientClient, IsHeard
    <3>13. IsCounted(a)'
      <4>1. \A k \in 1..MaxCalls : Executed(a, k)' = Executed(a, k)
        BY <1>2 DEF ServiceKept
      <4> QED
        BY <1>2, <3>2, <3>5, <3>6, <3>10, <4>1 DEF PatientClient, IsCounted
    <3> QED
      BY <1>1, <1>2, <3>2, <3>5, <3>8, <3>11, <3>12, <3>13, AckStagePatient DEF ServiceKept
  <2> QED
    BY <2>1, <2>2
<1> QED
  BY <1>2, <1>14, <1>17 DEF PatientInv

(* A changed segment of an answer: it is awaited as before. *)
LEMMA DamageToClientPatient ==
  ASSUME TransportInv, PatientInv, DamageToClient
  PROVE  PatientInv'
<1>1. Fault("damage") /\ UNCHANGED <<handshakes, clients, toServer>> /\ "damage" \in FaultKinds
  BY DEF DamageToClient, NetworkFault, FaultKinds, managers
<1>2. /\ DamageUsed' /\ UNCHANGED <<scenario, executed>> /\ Complete' = Complete
      /\ PatientNetwork' /\ OnlyWholeRequests'
      /\ \A message \in DOMAIN executed' : executed'[message] \in Nat
      /\ \A a \in Clients : PatientClient(a) /\ Same(a) /\ ServiceKept(a)
  BY <1>1, FaultService
<1>3. SentInTurn' /\ \A b \in Clients : SentBy(b)' = SentBy(b)
  BY <1>1 DEF PatientInv, SentInTurn, SentBy, Held
<1>4. PICK a \in Clients : \E i \in DOMAIN toClient[a] :
        /\ toClient[a][i].type = "DATA"
        /\ toClient' = [toClient EXCEPT ![a][i].intact = FALSE]
  BY DEF DamageToClient
<1>5. PICK i \in DOMAIN toClient[a] :
        /\ toClient[a][i].type = "DATA"
        /\ toClient' = [toClient EXCEPT ![a][i].intact = FALSE]
  BY <1>4
<1>6. PICK q : q = toClient[a][i]
  OBVIOUS
<1>7. PICK s : s = Spoilt(q)
  OBVIOUS
<1>8. toClient \in [Clients -> Seq(ToClientTypes)] /\ toClient[a] \in Seq(ToClientTypes)
  BY DEF TransportInv, NetworkOK
<1>9. q \in ToClientTypes /\ q.type = "DATA" /\ q \in Arriving(a)
  BY <1>5, <1>6, <1>8 DEF Arriving, Held
<1>10. /\ s.type = "DATA" /\ s.seq = q.seq /\ s.tot = q.tot /\ s.payload = q.payload
  BY <1>7, <1>9, SpoiltTypes DEF ToClientTypes
<1>11. toClient' = [toClient EXCEPT ![a] = [toClient[a] EXCEPT ![i] = s]]
  BY <1>5, <1>6, <1>7 DEF Spoilt
<1>12. PICK queue : queue = [toClient[a] EXCEPT ![i] = s]
  OBVIOUS
<1>13. toClient'[a] = queue /\ \A b \in Clients \ {a} : toClient'[b] = toClient[b]
  BY <1>8, <1>11, <1>12
<1>14. /\ DOMAIN queue = DOMAIN toClient[a] /\ queue[i] = s
       /\ \A j \in DOMAIN toClient[a] \ {i} : queue[j] = toClient[a][j]
  BY <1>8, <1>12
<1>15. Rank(s) = Rank(q)
  BY <1>9, <1>10 DEF Rank
<1>16. InOrder(queue)
  <2>1. \A j \in DOMAIN toClient[a] : Rank(queue[j]) = Rank(toClient[a][j])
    BY <1>6, <1>14, <1>15
  <2>2. InOrder(toClient[a])
    BY <1>2 DEF PatientClient
  <2> QED
    BY <1>14, <2>1, <2>2, SameOrder
<1>17. InOrder(toClient[a])'
  BY <1>13, <1>16 DEF InOrder, Rank
<1>18. /\ Arriving(a)' \subseteq {s} \cup Arriving(a)
       /\ Arriving(a) \subseteq {q} \cup Arriving(a)' /\ s \in Arriving(a)'
  BY <1>6, <1>13, <1>14 DEF Arriving, Held
<1>19. ASSUME NEW b \in Clients, b # a PROVE PatientClient(b)'
  BY <1>2, <1>3, <1>13, <1>19, PatientStays
<1>20. /\ pc'[a] = pc[a] /\ clientId'[a] = clientId[a] /\ calls'[a] = calls[a]
       /\ outgoing'[a] = outgoing[a] /\ acked'[a] = acked[a] /\ resends'[a] = resends[a]
       /\ incoming'[a] = incoming[a] /\ result'[a] = result[a] /\ scenario' = scenario
  BY <1>2 DEF Same
<1>21. pc[a] \in InCall
  <2>1. pc[a] \in Places
    BY DEF TransportInv, ProcessesOK, ProcessTypes
  <2>2. pc[a] \notin {"new", "idle", "closed"}
    BY <1>2, <1>9 DEF PatientClient, AtRest
  <2>3. pc[a] # "awaitInit"
    BY <1>2, <1>9 DEF PatientClient, AwaitsInit, Handshake
  <2> QED
    BY <2>1, <2>2, <2>3 DEF Places, InCall
<1>22. /\ \A k, piece : IsPieceOf(a, k, piece) => IsPieceOf(a, k, piece)'
       /\ \A d : IsAwaited(a, d) => IsAwaited(a, d)'
       /\ \A k : Message(a, k)' = Message(a, k)
       /\ \A d : IsCurrent(a, d)' <=> IsCurrent(a, d)
  BY <1>2, <1>20, PiecesKept, CurrentKept DEF ServiceKept
<1>23. IsAwaited(a, q) => IsAwaited(a, s)'
  BY <1>2, <1>9, <1>10, <1>20 DEF IsAwaited, AnswerPart, Chunk
<1>24. AtRest(a)' /\ AwaitsInit(a)'
  BY <1>20, <1>21 DEF AtRest, AwaitsInit, InCall
<1>25. AwaitsAck(a)'
  <2> SUFFICES ASSUME pc[a] = "awaitAck" PROVE AwaitsAck(a)'
    BY <1>20 DEF AwaitsAck
  <2>1. SentBy(a) = {}
    BY <1>2, <1>9 DEF PatientClient, AwaitsAck, HasType
  <2>2. clientId[a] \in Complete
    BY <1>2, <1>9 DEF PatientClient, AwaitsAck, Handshake
  <2>3. /\ HasType(Arriving(a), {"HS_COMPLETE", "ACK", "NACK", "DATA"})
        /\ \A d \in Arriving(a) : d.type # "NACK"
        /\ \A d \in Arriving(a) : d.type = "DATA" => IsAwaited(a, d)
        /\ acked[a] + 1 = scenario.request
    BY <1>2, <1>9, <2>2 DEF PatientClient, AwaitsAck
  <2>4. /\ HasType(Arriving(a)', {"HS_COMPLETE", "ACK", "NACK", "DATA"})
        /\ \A d \in Arriving(a)' : d.type # "NACK"
    BY <1>10, <1>18, <2>3 DEF HasType
  <2>5. \A d \in Arriving(a)' : d.type = "DATA" => IsAwaited(a, d)'
    BY <1>9, <1>18, <1>22, <1>23, <2>3
  <2> QED
    BY <1>2, <1>3, <1>20, <2>1, <2>2, <2>3, <2>4, <2>5 DEF AwaitsAck, HasType
<1>26. AwaitsResponse(a)'
  BY <1>2, <1>3, <1>9, <1>10, <1>18, <1>20, <1>22, <1>23 DEF PatientClient, AwaitsResponse
<1>27. IsLinked(a)' /\ HasResult(a)'
  BY <1>1, <1>2, <1>20, <1>22, ZenonT(60) DEF PatientClient, IsLinked, HasResult
<1>28. Sends(a)' <=> Sends(a)
  BY <1>3 DEF Sends
<1>29. \A types \in SUBSET {"HS", "ACK", "NACK"} :
         (\E d \in Arriving(a)' : d.type \in types) <=> (\E d \in Arriving(a) : d.type \in types)
  BY <1>9, <1>10, <1>18
<1>30. (\E d \in Arriving(a)' : d.type = "HS") <=> (\E d \in Arriving(a) : d.type = "HS")
  BY <1>9, <1>10, <1>18
<1>31. Stored(a)' = Stored(a) /\ Tries(a)' = Tries(a)
  BY <1>20, <1>28, <1>30 DEF Stored, Tries
<1>32. IsBuffered(a)'
  BY <1>1, <1>2, <1>20, <1>31 DEF PatientClient, IsBuffered, Chunk
<1>33. IsHeard(a)'
  BY <1>2, <1>20, <1>28, <1>29 DEF PatientClient, IsHeard
<1>34. IsCounted(a)'
  <2>1. \A k \in 1..MaxCalls : Executed(a, k)' = Executed(a, k)
    BY <1>2 DEF ServiceKept
  <2> QED
    BY <1>2, <1>9, <1>20, <1>31, <2>1 DEF PatientClient, IsCounted
<1>35. PatientClient(a)'
  BY <1>17, <1>24, <1>25, <1>26, <1>27, <1>32, <1>33, <1>34 DEF PatientClient
<1> QED
  BY <1>2, <1>3, <1>19, <1>35 DEF PatientInv

LEMMA TimePassesPatient ==
  ASSUME TransportInv, PatientInv, TimePasses
  PROVE  PatientInv'
<1>1. /\ Fault("pause") /\ UNCHANGED <<handshakes, clients>> /\ "pause" \in FaultKinds
      /\ UNCHANGED <<toServer, toClient>>
  BY DEF TimePasses, Tick, FaultKinds, managers, network
<1>2. /\ PatientNetwork' /\ OnlyWholeRequests'
      /\ \A message \in DOMAIN executed' : executed'[message] \in Nat
      /\ \A a \in Clients : PatientClient(a) /\ Same(a) /\ ServiceKept(a)
  BY <1>1, FaultService
<1>3. SentInTurn'
  BY <1>1 DEF PatientInv, SentInTurn
<1>4. ASSUME NEW a \in Clients PROVE PatientClient(a)'
  <2>1. SentBy(a)' = SentBy(a) /\ toClient'[a] = toClient[a]
    BY <1>1 DEF SentBy, Held
  <2> QED
    BY <1>2, <2>1, PatientStays
<1> QED
  BY <1>2, <1>3, <1>4 DEF PatientInv

(* What a forgiving network does not do. *)
LEMMA NeverAgain ==
  ASSUME TransportInv, PatientInv
  PROVE  NotRestarted /\ ~ Delay /\ ~ Repeat /\ ~ RestartServer
<1>1. /\ faults \in [FaultKinds -> Nat] /\ scenario.budget \in [FaultKinds -> Nat]
      /\ \A kind \in FaultKinds : faults[kind] <= scenario.budget[kind]
  BY ScenarioTypes DEF TransportInv, ScenarioOK
<1>2. \A kind \in {"delay", "repetition", "restart"} :
        kind \in FaultKinds /\ scenario.budget[kind] = 0
  BY DEF PatientInv, PatientNetwork, Forgiving, FaultKinds
<1>3. \A kind \in {"delay", "repetition", "restart"} : faults[kind] = 0
  BY <1>1, <1>2
<1>4. \A kind \in {"delay", "repetition", "restart"} : ~ Fault(kind)
  BY <1>3 DEF Fault
<1> QED
  BY <1>2, <1>3, <1>4 DEF NotRestarted, Delay, Repeat, Disturb, NetworkFault, RestartServer

LEMMA ClientStepPatient ==
  ASSUME TransportInv, PatientInv, NEW a \in Clients, ClientStep(a)
  PROVE  PatientInv' /\ UNCHANGED executed
<1>1. /\ PatientNetwork /\ SentInTurn /\ OnlyWholeRequests
      /\ \A message \in DOMAIN executed : executed[message] \in Nat
      /\ \A b \in Clients : PatientClient(b)
  BY DEF PatientInv
<1>2. UNCHANGED <<executed, scenario>>
  BY ClientService
<1>3. PatientClient(a)' /\ SentInTurn'
  BY <1>1, OwnStepPatient, SentInTurnStays
<1>4. \A b \in Clients \ {a} : PatientClient(b)'
  BY <1>1, OthersPatient
<1>5. PatientNetwork' /\ OnlyWholeRequests'
  BY <1>1, <1>2 DEF PatientNetwork, Forgiving, OnlyWholeRequests, Requests, RequestOf, Chunk
<1> QED
  BY <1>1, <1>2, <1>3, <1>4, <1>5 DEF PatientInv

LEMMA StutterPatient ==
  ASSUME TransportInv, PatientInv, UNCHANGED vars
  PROVE  PatientInv'
<1>1. /\ UNCHANGED <<serverVars, clientVars, network, calls, executed, faults, scenario>>
      /\ UNCHANGED <<toServer, toClient, handshakes, clients>>
  BY DEF vars, serverVars, managers, network
<1>2. ASSUME NEW a \in Clients PROVE PatientClient(a)'
  <2>1. Same(a)
    BY <1>1 DEF Same, clientVars
  <2>2. ServiceKept(a)
    BY <1>1 DEF ServiceKept, SessionKept, Complete, DamageUsed, Executed, Count, Message,
                RequestOf, Chunk
  <2>3. SentBy(a)' = SentBy(a) /\ toClient'[a] = toClient[a]
    BY <1>1 DEF SentBy, Held
  <2> QED
    BY <2>1, <2>2, <2>3, PatientStays DEF PatientInv
<1>3. /\ PatientNetwork' /\ SentInTurn' /\ OnlyWholeRequests'
      /\ \A message \in DOMAIN executed' : executed'[message] \in Nat
  BY <1>1 DEF PatientInv, PatientNetwork, Forgiving, SentInTurn, OnlyWholeRequests, Requests,
              RequestOf, Chunk
<1> QED
  BY <1>2, <1>3 DEF PatientInv

-----------------------------------------------------------------------------
(* The invariant. *)
LEMMA InitPatient ==
  ASSUME TransportInit, PatientNetwork
  PROVE  PatientInv
<1>1. /\ toServer = <<>> /\ toClient = [a \in Clients |-> <<>>] /\ executed = EmptyMap
      /\ pc = [a \in Clients |-> "new"] /\ resends = [a \in Clients |-> 0]
      /\ calls = [a \in Clients |-> 0] /\ result = [a \in Clients |-> Outcome("pending")]
      /\ handshakes = EmptyMap
  BY DEF TransportInit, ClientInit, ServerInit
<1>2. DOMAIN executed = {} /\ Complete = {} /\ DOMAIN toServer = {}
  BY <1>1 DEF EmptyMap, Complete
<1>3. SentInTurn /\ OnlyWholeRequests
  BY <1>2 DEF SentInTurn, OnlyWholeRequests
<1>4. ASSUME NEW a \in Clients PROVE PatientClient(a)
  <2>1. pc[a] = "new" /\ toClient[a] = <<>> /\ resends[a] = 0 /\ calls[a] = 0
    BY <1>1
  <2>2. SentBy(a) = {} /\ Arriving(a) = {}
    BY <1>2, <2>1 DEF SentBy, Arriving, Held
  <2>3. InOrder(toClient[a])
    BY <2>1, ShortInOrder
  <2>4. AtRest(a) /\ AwaitsInit(a) /\ AwaitsAck(a) /\ AwaitsResponse(a) /\ IsLinked(a)
    BY <2>1, <2>2 DEF AtRest, AwaitsInit, AwaitsAck, AwaitsResponse, IsLinked, Named, InCall
  <2>5. IsBuffered(a) /\ IsHeard(a)
    BY <1>2, <2>1 DEF IsBuffered, IsHeard
  <2>6. IsCounted(a)
    BY <1>2, <2>1, <2>2 DEF IsCounted, Executed, Count
  <2>7. HasResult(a)
    BY <1>1 DEF HasResult, Outcome
  <2> QED
    BY <2>3, <2>4, <2>5, <2>6, <2>7 DEF PatientClient
<1> QED
  BY <1>2, <1>3, <1>4 DEF PatientInv

LEMMA NextPatient ==
  ASSUME TransportInv, IdsOwned, PatientInv, [TransportNext]_vars
  PROVE  PatientInv'
<1>1. NotRestarted /\ ~ Delay /\ ~ Repeat /\ ~ RestartServer
  BY NeverAgain
<1> QED
  BY <1>1, TransportSteps, ServerTurnPatient, ClientStepPatient, LosePatient,
     DamageToServerPatient, DamageToClientPatient, TimePassesPatient, StutterPatient

(* Where no wait expires early and no handshake is forgotten: what is on its way from
   a client and to it, what the server has in the buffer, how often a message was
   executed and what a call returned fit together in every state. *)
THEOREM PatientInvariant == TransportSpec /\ PatientNetwork => []PatientInv
<1>1. TransportInit /\ PatientNetwork => PatientInv
  BY InitPatient
<1>2. TransportInv /\ OwnershipInv /\ PatientInv /\ [TransportNext]_vars => PatientInv'
  BY NextPatient DEF OwnershipInv
<1> QED
  BY <1>1, <1>2, TransportInvariant, OwnershipInvariant, PTL DEF TransportSpec

(* Any number of calls, messages of any size: the application is handed whole messages
   of clients only, for the buffer of a client is empty again when its call has ended
   (trackSegment, connection_manager.cpp:30). *)
THEOREM PatientRequestsWhole == TransportSpec /\ PatientNetwork => []OnlyWholeRequests
<1>1. PatientInv => OnlyWholeRequests
  BY DEF PatientInv
<1> QED
  BY <1>1, PatientInvariant, PTL

(* Any number of calls: a text is the answer to the message of the call that returns it,
   as long as no datagram was damaged (receiveResponse, udp_client.cpp:247). *)
THEOREM PatientAnswersMatch ==
  TransportSpec /\ PatientNetwork
    => [](faults["damage"] = scenario.budget["damage"] => AnswersMatch)
<1>1. TransportInv /\ PatientInv =>
        (faults["damage"] = scenario.budget["damage"] => AnswersMatch)
  <2> SUFFICES ASSUME TransportInv, PatientInv, faults["damage"] = scenario.budget["damage"],
                      NEW a \in Clients, result[a].kind = "answer"
               PROVE  result[a].text = AnswerTo(Message(a, calls[a]))
    BY DEF AnswersMatch
  <2>1. scenario.budget["damage"] \in Nat /\ 1 \in 1..scenario.request
    BY ScenarioTypes DEF TransportInv, FaultKinds
  <2>2. ~ DamageUsed
    BY <2>1 DEF DamageUsed
  <2>3. /\ result[a].text = [i \in 1..scenario.answer |-> result[a].text[i]]
        /\ \A i \in 1..scenario.answer : result[a].text[i] = AnswerPart(a, calls[a], i)
    BY <2>2 DEF PatientInv, PatientClient, HasResult, IsPieceOf
  <2>4. Message(a, calls[a])[1] = Chunk(a, calls[a], 1)
    BY <2>1 DEF Message, RequestOf
  <2>5. AnswerTo(Message(a, calls[a]))
          = [i \in 1..scenario.answer |-> AnswerPart(a, calls[a], i)]
    BY <2>4 DEF AnswerTo, AnswerOf, AnswerPart
  <2> QED
    BY <2>3, <2>5
<1> QED
  BY <1>1, PatientInvariant, TransportInvariant, PTL

-----------------------------------------------------------------------------
(* The promise to a caller of sendMessage, step by step. *)

(* A step for client a, seen by the callers. *)
LEMMA StatusSet ==
  ASSUME NEW a \in Clients, NEW s, CallStatus'[a] = s,
         \A b \in Clients \ {a} : pc'[b] = pc[b] /\ result'[b] = result[b]
  PROVE  CallStatus' = [CallStatus EXCEPT ![a] = s]
<1>1. \A b \in Clients \ {a} : CallStatus'[b] = CallStatus[b]
  BY DEF CallStatus
<1>2. /\ CallStatus' = [b \in Clients |-> CallStatus'[b]]
      /\ DOMAIN CallStatus = Clients
  BY DEF CallStatus
<1> QED
  BY <1>1, <1>2

(* A step of a client begins a call, ends one, or is one the caller does not see; only
   receiveResponse ends a call with a text. *)
LEMMA ClientStepSeen ==
  ASSUME TransportInv, NEW a \in Clients, ClientStep(a)
  PROVE  \/ Call(a)
         \/ /\ pc[a] \in InCall /\ UNCHANGED calls
            /\ \E outcome : /\ EndCall(a, outcome)
                            /\ outcome.kind = "answer" =>
                                 /\ pc[a] = "awaitResponse" /\ Receive(a)
                                 /\ Head(toClient[a]).type = "DATA"
         \/ /\ UNCHANGED <<calls, result>>
            /\ pc'[a] \in InCall <=> pc[a] \in InCall
<1>1. \A kind \in {"NACK", "nullopt", "timeout"} : Outcome(kind).kind # "answer"
  BY DEF Outcome
<1>2. pc \in [Clients -> Places]
  BY DEF TransportInv, ProcessesOK, ProcessTypes
<1>3. CASE Construct(a)
  BY <1>2, <1>3 DEF Construct, PerformHandshake, Goto, InCall
<1>4. CASE Receive(a)
  <2>1. PICK m : m = Head(toClient[a])
    OBVIOUS
  <2>2. Take(a, m) /\ UNCHANGED calls
    BY <1>4, <2>1 DEF Receive
  <2>3. CASE InitAnswered(a, m)
    BY <1>2, <2>2, <2>3 DEF InitAnswered, Goto, InCall
  <2>4. CASE HandleEpollEvents(a, m)
    <3>1. pc[a] = "awaitAck"
      BY <2>4 DEF HandleEpollEvents
    <3>2. CASE AckReceived(a, m)
      BY <1>2, <2>2, <3>1, <3>2 DEF AckReceived, Goto, InCall
    <3>3. CASE NackReceived(a, m)
      BY <1>1, <2>2, <3>1, <3>3 DEF NackReceived, InCall
    <3>4. CASE HandshakeReceived(a, m) \/ OtherReceived(a, m)
      BY <2>2, <3>4 DEF HandshakeReceived, OtherReceived, clientVars
    <3> QED
      BY <2>4, <3>2, <3>3, <3>4 DEF HandleEpollEvents
  <2>5. CASE ReceiveResponse(a, m)
    <3>1. pc[a] = "awaitResponse"
      BY <2>5 DEF ReceiveResponse
    <3>2. CASE DataReceived(a, m)
      BY <1>4, <2>1, <2>2, <3>1, <3>2 DEF DataReceived, InCall
    <3>3. CASE NoDataReceived(a, m)
      BY <1>1, <2>2, <3>1, <3>3 DEF NoDataReceived, InCall
    <3> QED
      BY <2>5, <3>2, <3>3 DEF ReceiveResponse
  <2> QED
    BY <2>2, <2>3, <2>4, <2>5 DEF Take
<1>5. CASE GiveUpWaiting(a)
  <2>1. Expire(a) /\ UNCHANGED calls
    BY <1>5 DEF GiveUpWaiting
  <2>2. CASE InitTimeout(a)
    BY <1>2, <2>1, <2>2 DEF InitTimeout, Goto, InCall
  <2>3. CASE AckTimeout(a)
    BY <1>1, <2>1, <2>3 DEF AckTimeout, InCall
  <2>4. CASE ResponseTimeout(a)
    BY <1>1, <2>1, <2>4 DEF ResponseTimeout, InCall
  <2> QED
    BY <2>1, <2>2, <2>3, <2>4 DEF Expire
<1> QED
  BY <1>3, <1>4, <1>5 DEF ClientStep

(* What the callers see, when a step changes no execution. *)
CallerSees == <<CallStatus, calls, Executions, MostExecutions>>

LEMMA ClientStepRefines ==
  ASSUME TransportInv, PatientInv, NEW a \in Clients, ClientStep(a)
  PROVE  [Calls!Next]_CallerSees
<1>1. Executions' = Executions /\ MostExecutions' = MostExecutions
  <2>1. /\ scenario' = scenario
        /\ \A b, k : Message(b, k)' = Message(b, k)
        /\ executed' = executed
    BY ClientService DEF Message, RequestOf, Chunk
  <2> QED
    BY <2>1 DEF Executions, MostExecutions, Count
<1>2. \A b \in Clients \ {a} : pc'[b] = pc[b] /\ result'[b] = result[b]
  BY ClientStepKeeps DEF ClientStepOK, OthersUnchanged
<1>3. ProcessTypes
  BY DEF TransportInv, ProcessesOK
<1>4. CASE Call(a)
  <2>1. pc[a] = "idle" /\ pc'[a] = "awaitAck"
    BY <1>3, <1>4 DEF Call, SendMessage, Goto, ProcessTypes
  <2>2. CallStatus[a] # "called" /\ CallStatus'[a] = "called"
    BY <2>1 DEF CallStatus
  <2>3. CallStatus' = [CallStatus EXCEPT ![a] = "called"]
    BY <1>2, <2>2, StatusSet
  <2>4. Calls!Call(a)
    BY <1>1, <1>4, <2>2, <2>3 DEF Call, Calls!Call
  <2> QED
    BY <1>1, <2>4 DEF Calls!Next
<1>5. ASSUME pc[a] \in InCall, UNCHANGED calls, NEW outcome, EndCall(a, outcome),
             outcome.kind = "answer" =>
               /\ pc[a] = "awaitResponse" /\ Receive(a)
               /\ Head(toClient[a]).type = "DATA"
      PROVE  Calls!Return(a) \/ Calls!Fail(a)
  <2>1. pc'[a] = "idle" /\ result'[a] = outcome
    BY <1>3, <1>5 DEF EndCall, Goto, ProcessTypes
  <2>2. CallStatus[a] = "called"
    BY <1>5 DEF CallStatus, InCall
  <2>3. CASE outcome.kind = "answer"
    <3>1. CallStatus' = [CallStatus EXCEPT ![a] = "answered"]
      <4>1. CallStatus'[a] = "answered"
        BY <2>1, <2>3 DEF CallStatus
      <4> QED
        BY <1>2, <4>1, StatusSet
    <3>2. Executions[a][calls[a]] > 0
      <4>1. PICK k \in 1..MaxCalls : k = calls[a]
        <5>1. calls[a] \in 0..MaxCalls /\ calls[a] > 0
          BY <1>5 DEF TransportInv, ProcessesOK, ProcessTypes, ClientOK, InCall
        <5> QED
          BY <5>1, TransportAssumption
      <4>2. Head(toClient[a]) \in Arriving(a) /\ Head(toClient[a]).type = "DATA"
        BY <1>5, <2>3, Taken DEF PatientInv
      <4>3. Executed(a, k) > 0
        BY <4>1, <4>2 DEF PatientInv, PatientClient, IsCounted
      <4> QED
        BY <4>1, <4>3 DEF Executions, Executed
    <3> QED
      BY <1>1, <1>5, <2>2, <3>1, <3>2 DEF Calls!Return
  <2>4. CASE outcome.kind # "answer"
    <3>1. CallStatus' = [CallStatus EXCEPT ![a] = "free"]
      <4>1. CallStatus'[a] = "free"
        BY <2>1, <2>4 DEF CallStatus
      <4> QED
        BY <1>2, <4>1, StatusSet
    <3> QED
      BY <1>1, <1>5, <2>2, <3>1 DEF Calls!Fail
  <2> QED
    BY <2>3, <2>4
<1>6. ASSUME UNCHANGED <<calls, result>>, pc'[a] \in InCall <=> pc[a] \in InCall
      PROVE  UNCHANGED CallerSees
  <2>1. \A b \in Clients : pc'[b] \in InCall <=> pc[b] \in InCall
    BY <1>2, <1>6
  <2>2. CallStatus' = CallStatus
    BY <1>6, <2>1 DEF CallStatus, InCall
  <2> QED
    BY <1>1, <1>6, <2>2 DEF CallerSees
<1> QED
  BY <1>1, <1>4, <1>5, <1>6, ClientStepSeen DEF Calls!Next

(* A message is executed during its call, and not once more than its last segment was
   sent. *)
LEMMA ExecutesRefines ==
  ASSUME TransportInv, PatientInv, NEW a \in Clients, Executes(a),
         UNCHANGED <<clientVars, calls, scenario>>
  PROVE  Calls!Execute(a) /\ MostExecutions' = MostExecutions
<1>1. PICK k \in 1..MaxCalls : k = calls[a]
  <2>1. calls[a] \in 0..MaxCalls /\ calls[a] > 0
    BY DEF Executes, TransportInv, ProcessesOK, ProcessTypes, ClientOK, InCall
  <2> QED
    BY <2>1, TransportAssumption
<1>2. /\ Executed(a, k) \in Nat /\ Executed(a, k)' = Executed(a, k) + 1
      /\ \A b \in Clients : \A l \in 1..MaxCalls :
           b # a \/ l # k => Executed(b, l)' = Executed(b, l)
  BY <1>1, OneExecuted DEF Executes, PatientInv, TransportInv
<1>3. CallStatus' = CallStatus /\ MostExecutions' = MostExecutions
  BY DEF clientVars, CallStatus, MostExecutions
<1>4. CallStatus[a] = "called"
  BY DEF Executes, CallStatus
<1>5. Executed(a, k) < MostExecutions
  <2>1. resends[a] \in 0..MaxResends /\ MaxResends \in Nat
    BY ResendAssumption DEF TransportInv, ProcessesOK, ProcessTypes
  <2>2. Executed(a, k) <= resends[a]
    BY <1>1 DEF Executes
  <2>3. scenario.budget["loss"] = 0 => resends[a] = 0
    BY DEF PatientInv, PatientClient, IsHeard
  <2> QED
    BY <1>2, <2>1, <2>2, <2>3 DEF MostExecutions
<1>6. /\ Executions = [b \in Clients |-> [l \in 1..MaxCalls |-> Executed(b, l)]]
      /\ Executions' = [b \in Clients |-> [l \in 1..MaxCalls |-> Executed(b, l)']]
  BY DEF Executions, Executed
<1>7. Executions[a][calls[a]] = Executed(a, k)
  BY <1>1, <1>6
<1>8. Executions' = [Executions EXCEPT ![a][calls[a]] = @ + 1]
  <2>1. ASSUME NEW b \in Clients, b # a PROVE Executions'[b] = Executions[b]
    BY <1>2, <1>6, <2>1
  <2>2. Executions'[a] = [Executions[a] EXCEPT ![k] = Executed(a, k) + 1]
    BY <1>2, <1>6
  <2>3. DOMAIN Executions = Clients /\ Executions' = [b \in Clients |-> Executions'[b]]
    BY <1>6
  <2>4. Executions' = [Executions EXCEPT ![a] = [Executions[a] EXCEPT ![k] = Executed(a, k) + 1]]
    BY <2>1, <2>2, <2>3
  <2>5. [Executions EXCEPT ![a][calls[a]] = @ + 1]
          = [Executions EXCEPT ![a] = [Executions[a] EXCEPT ![k] = Executed(a, k) + 1]]
    BY <1>1, <1>6, <1>7, <2>3
  <2> QED
    BY <2>4, <2>5
<1> QED
  BY <1>3, <1>4, <1>5, <1>7, <1>8 DEF Calls!Execute

LEMMA OtherStepRefines ==
  ASSUME UNCHANGED <<clientVars, calls, executed, scenario>>
  PROVE  UNCHANGED CallerSees
<1>1. \A a, k : Message(a, k)' = Message(a, k)
  BY DEF Message, RequestOf, Chunk
<1> QED
  BY <1>1 DEF CallerSees, CallStatus, Executions, MostExecutions, Count, clientVars

LEMMA NextRefines ==
  ASSUME TransportInv, IdsOwned, PatientInv, [TransportNext]_vars
  PROVE  [Calls!Next]_CallerSees
<1>1. CASE ServerTurn
  <2>1. UNCHANGED <<clientVars, calls, scenario>>
    BY <1>1 DEF ServerTurn
  <2>2. executed' = executed \/ \E a \in Clients : Executes(a)
    BY <1>1, NeverAgain, ServerTurnPatient
  <2>3. CASE executed' = executed
    BY <2>1, <2>3, OtherStepRefines
  <2>4. ASSUME NEW a \in Clients, Executes(a) PROVE [Calls!Next]_CallerSees
    <3>1. Calls!Execute(a) /\ MostExecutions' = MostExecutions
      BY <2>1, <2>4, ExecutesRefines
    <3> QED
      BY <3>1 DEF Calls!Next
  <2> QED
    BY <2>2, <2>3, <2>4
<1>2. CASE \E a \in Clients : ClientStep(a)
  BY <1>2, ClientStepRefines
<1>3. CASE Lose \/ Delay \/ Repeat \/ DamageToServer \/ DamageToClient
           \/ RestartServer \/ TimePasses \/ UNCHANGED vars
  <2>1. UNCHANGED <<clientVars, calls, executed, scenario>>
    BY <1>3 DEF Lose, Delay, Repeat, Disturb, DamageToServer, DamageToClient, NetworkFault,
       RestartServer, TimePasses, Fault, vars
  <2> QED
    BY <2>1, OtherStepRefines
<1> QED
  BY <1>1, <1>2, <1>3, TransportSteps

(* Any number of calls, also when datagrams are lost or damaged: clients and server
   keep the promise of RequestResponse.  A message is executed during its own call
   only, before a text is returned, and at most once where nothing is lost, otherwise at
   most as often as a segment may be sent (sendAndReceiveAck, udp_client.cpp:152). *)
THEOREM PatientIsRequestResponse == TransportSpec /\ PatientNetwork => IsRequestResponse
<1>1. TransportInit => Calls!Init
  <2> SUFFICES ASSUME TransportInit PROVE Calls!Init
    OBVIOUS
  <2>1. /\ pc = [a \in Clients |-> "new"] /\ result = [a \in Clients |-> Outcome("pending")]
        /\ calls = [a \in Clients |-> 0] /\ executed = EmptyMap
    BY DEF TransportInit, ClientInit
  <2>2. CallStatus = [a \in Clients |-> "free"]
    BY <2>1 DEF CallStatus, Outcome
  <2>3. Executions = [a \in Clients |-> [k \in 1..MaxCalls |-> 0]]
    BY <2>1 DEF Executions, Count, EmptyMap
  <2>4. MostExecutions \in Nat \ {0}
    BY ResendAssumption DEF MostExecutions
  <2> QED
    BY <2>1, <2>2, <2>3, <2>4 DEF Calls!Init
<1>2. TransportInv /\ OwnershipInv /\ PatientInv /\ [TransportNext]_vars
        => [Calls!Next]_<<CallStatus, calls, Executions, MostExecutions>>
  BY NextRefines DEF OwnershipInv, CallerSees
<1> QED
  BY <1>1, <1>2, TransportInvariant, OwnershipInvariant, PatientInvariant, PTL
     DEF TransportSpec, IsRequestResponse, Calls!Spec
=============================================================================
