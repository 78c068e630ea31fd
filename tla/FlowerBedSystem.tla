--------------------------- MODULE FlowerBedSystem ---------------------------
(* The application: gardeners and flowerbeds around the server.  Monitors are left
   out here: they read the server's state and change nothing the others see.

   A call is handed to the server, and the next answer the client gets ends it.
   Within a budget a request or an answer is lost for good, or a request is handled
   once more: then its first answer is dropped (the client still waits for an ACK),
   or both come.  In the second case one of them is left over when the call ends,
   and from then on each call ends with the answer to the one before (nothing in an
   answer says what it answers), until a loss makes up for it.  An empty text is
   nullopt, and whatever else goes wrong in sendMessage is an exception.

   A call that ends with a left answer ends before its request is handled; here it
   ends when its own answer is there to be left.  In between the client takes steps
   of its own only: what it sends next is handled after that request. *)
EXTENDS FlowerBedServer, Gardener, FlowerBed

CONSTANTS
  MaxAsks,      \* bound: how often a flower is named by the flowerbeds
  Losses,       \* bound: calls whose request or answer is lost
  Repetitions,  \* bound: requests handled once more
  Prompt        \* TRUE: a flowerbed pings whenever no lost call keeps it from it

ASSUME SystemAssumption ==
  /\ MaxAsks \in Nat /\ Losses \in Nat /\ Repetitions \in Nat /\ Prompt \in BOOLEAN
  /\ Flowers \subseteq Indices     \* a gardener says what it was given
  /\ MaxUpdates <= ListBound

VARIABLES
  late,         \* for each client: the answer that is left over, or NoAnswer
  lossesLeft,
  repetitionsLeft,
  asked,        \* history: how often each flower was named by a flowerbed
  waterings     \* history: how often each flower was watered by a gardener

clientThreads == <<gardenerThreads, flowerbedThreads>>
budget == <<lossesLeft, repetitionsLeft>>
history == <<asked, waterings>>
systemVars == <<appVars, socket, late, clientThreads, budget, history>>

SystemInit ==
  /\ AppInit /\ GardenerInit /\ FlowerbedInit
  /\ socket = [c \in Ids |-> Free]
  /\ late = [c \in Ids |-> NoAnswer]
  /\ lossesLeft = Losses /\ repetitionsLeft = Repetitions
  /\ asked = [flower \in Flowers |-> 0]
  /\ waterings = [flower \in Flowers |-> 0]

-----------------------------------------------------------------------------
Set(c, call) == socket' = [socket EXCEPT ![c] = call]

EndsWith(c, reply) == Set(c, Ended(socket[c], OutcomeOf(reply)))

Leave(c, reply) == late' = [late EXCEPT ![c] = reply]

(* receiveResponse takes the first answer in the socket, whatever it answers. *)
Answered(c) ==
  /\ \/ late[c] = NoAnswer /\ EndsWith(c, answer') /\ UNCHANGED late
     \/ late[c] # NoAnswer /\ EndsWith(c, late[c]) /\ Leave(c, answer')
  /\ UNCHANGED budget

(* Nothing comes of the call: it waits in vain, or for the answer that is left. *)
Lost(c) ==
  /\ lossesLeft > 0 /\ lossesLeft' = lossesLeft - 1
  /\ \/ /\ late[c] = NoAnswer
        /\ Set(c, [socket[c] EXCEPT !.stage = "lost"]) /\ UNCHANGED late
     \/ late[c] # NoAnswer /\ EndsWith(c, late[c]) /\ Leave(c, NoAnswer)
  /\ UNCHANGED repetitionsLeft

(* The request is sent and handled once more: the client missed the ACK and drops
   the first answer, or it was let in twice after a new handshake and both answers
   come (sendAndReceiveAck).  Bound: no answer is left over yet. *)
HandledAgain(c) ==
  /\ repetitionsLeft > 0 /\ repetitionsLeft' = repetitionsLeft - 1
  /\ late[c] = NoAnswer
  /\ Set(c, [socket[c] EXCEPT !.stage = "sent"])
  /\ UNCHANGED late \/ Leave(c, answer')
  /\ UNCHANGED lossesLeft

Deliver(c) ==
  \/ /\ answer' = NoAnswer
     /\ Set(c, [socket[c] EXCEPT !.stage = "taken"]) /\ UNCHANGED <<late, budget>>
  \/ answer' # NoAnswer /\ (Answered(c) \/ Lost(c) \/ HandledAgain(c))

ServerTakes(c) ==
  /\ socket[c].stage = "sent"
  /\ HandleMessage(socket[c].request)
  /\ Deliver(c)
  /\ UNCHANGED <<clientThreads, history>>

ServerContinues ==
  /\ ContinueHandler
  /\ Deliver(handler.request.id)
  /\ UNCHANGED <<clientThreads, history>>

WorkerChecks ==
  CheckConnections /\ UNCHANGED <<socket, late, clientThreads, budget, history>>

(* Scaled, to Prompt clients, the sleeps between two pings take no time, but
   waiting for a lost datagram does (10 s for the ACK, then 10 s for the answer,
   with TIMEOUT = 10 s). *)
SystemTick ==
  /\ Prompt => \A f \in Flowerbeds :
                 \/ flowerbedMain[f] = "firstPing" \/ FlowerbedEnded(f)
                 \/ socket[f].stage = "lost"
  /\ AppTick
  /\ UNCHANGED <<socket, late, clientThreads, budget, history>>

(* The server has no part in the step. *)
ServerIsQuiet == UNCHANGED appState /\ answer' = NoAnswer

(* Every copy of the request that awaitAck sends, one each second for 10 s, is
   lost; what a resend makes up for changes nothing here. *)
RequestLost(c) ==
  /\ socket[c].stage = "sent"
  /\ Lost(c)
  /\ ServerIsQuiet
  /\ UNCHANGED <<clientThreads, history>>

(* sendMessage gives up waiting and throws. *)
CallTimesOut(c) ==
  /\ socket[c].stage = "lost"
  /\ Set(c, Ended(socket[c], Exception))
  /\ ServerIsQuiet
  /\ UNCHANGED <<late, clientThreads, budget, history>>

-----------------------------------------------------------------------------
(* A step of a client's thread, with its part in the history. *)
IsTelling(g) == gardenerWater'[g] = "told" /\ gardenerWater[g] = "tell"

GardenerStep(g, step) ==
  /\ step
  /\ waterings' = IF IsTelling(g)
                    THEN [waterings EXCEPT ![flower_index[g]] = @ + 1]
                    ELSE waterings
  /\ UNCHANGED <<flowerbedThreads, asked, late, budget>> /\ ServerIsQuiet

FlowerbedStep(f, step) ==
  /\ step
  /\ asked' = [flower \in Flowers |->
                 IF flower \in newFlowers'[f] \ newFlowers[f]
                   THEN asked[flower] + 1 ELSE asked[flower]]
  /\ \A flower \in Flowers : asked'[flower] <= MaxAsks
  /\ UNCHANGED <<gardenerThreads, waterings, late, budget>> /\ ServerIsQuiet

SystemNext ==
  \/ \E c \in Ids : ServerTakes(c) \/ RequestLost(c) \/ CallTimesOut(c)
  \/ ServerContinues
  \/ WorkerChecks
  \/ SystemTick
  \/ \E g \in Gardeners :
       \/ GardenerStep(g, PingerLocks(g)) \/ GardenerStep(g, PingerRuns(g))
       \/ GardenerStep(g, WatererLocks(g)) \/ GardenerStep(g, WatererRuns(g))
  \/ \E f \in Flowerbeds :
       \/ FlowerbedStep(f, MainLocks(f)) \/ FlowerbedStep(f, MainRuns(f))
       \/ FlowerbedStep(f, PingLocks(f)) \/ FlowerbedStep(f, PingRuns(f))
       \/ FlowerbedStep(f, PushLocks(f)) \/ FlowerbedStep(f, PushRuns(f))

SystemSpec == SystemInit /\ [][SystemNext]_systemVars

-----------------------------------------------------------------------------
(* Every variable of server and clients keeps its type; the retry loops count no
   attempt beyond the last (waterFlowers, start, updateFlowerStates). *)
SystemTypeOK ==
  /\ AppTypeOK /\ GardenerTypeOK /\ FlowerbedTypeOK
  /\ DOMAIN socket = Ids
  /\ DOMAIN late = Ids
  /\ \A c \in Ids :
       /\ socket[c].stage \in {"free", "sent", "taken", "lost", "ended"}
       /\ late[c] \in {NoAnswer} \cup ProgramAnswers(c)
  /\ lossesLeft \in 0..Losses /\ repetitionsLeft \in 0..Repetitions
  /\ asked \in [Flowers -> 0..MaxAsks] /\ waterings \in [Flowers -> Nat]

Repeated == Repetitions - repetitionsLeft

(* The server has still to do what the request asks for. *)
ToBeDone(c) ==
  \/ socket[c].stage = "sent"
  \/ socket[c].stage = "taken" /\ handler.at = "serve"

Asks(c, route) == socket[c] # Free /\ socket[c].request.route = route

(* The flowerbeds whose naming of the flower has not yet reached the board. *)
Naming(flower) ==
  {f \in Flowerbeds :
     /\ flower \in newFlowers[f]
     /\ flowerbedUpdate[f] = "push" \/ (Asks(f, "toWater") /\ ToBeDone(f))}

Brings(c, answers) ==
  socket[c].stage = "ended" /\ socket[c].outcome \in {Reply(reply) : reply \in answers}

(* The gardeners who were given the flower and have not yet watered it. *)
Holding(flower) ==
  {g \in Gardeners :
     \/ gardenerWater[g] = "asked" /\ Brings(g, {FlowerAnswer(g, flower)})
     \/ gardenerWater[g] = "tell" /\ flower_index[g] = flower}

(* The gardeners for whom the flower is left over from an earlier call. *)
Left(flower) == {g \in Gardeners : late[g] = FlowerAnswer(g, flower)}

(* The gardeners whose message that they watered it has not reached the board. *)
Telling(flower) ==
  {g \in Gardeners :
     Asks(g, "water") /\ socket[g].request.index = flower /\ ToBeDone(g)}

Where(flower, list) == {i \in DOMAIN list : list[i] = flower}

Times(flower, list) == Cardinality(Where(flower, list))

(* The waterings that are being sent to a flowerbed. *)
Bringing(f) ==
  IF Asks(f, "getUpdates") /\ socket[f].stage = "ended" /\ socket[f].outcome.kind = "reply"
    THEN ReportIn(socket[f].outcome.answer) ELSE <<>>

(* The reports of waterings of the flower that have left the server: what each
   flowerbed has counted, has still to read, is being sent, or may still be sent. *)
Reports(flower) ==
  UNION {{<<f, "counted", n>> : n \in 1..flower_watering_counts[f][flower]}
           \cup {<<f, "unread", i>> : i \in Where(flower, response[f])}
           \cup {<<f, "sent", i>> : i \in Where(flower, Bringing(f))}
           \cup {<<f, "late", i>> : i \in Where(flower, ReportIn(late[f]))} :
           f \in Flowerbeds}

(* Each time a flowerbed names a flower makes for one watering at most, wherever
   the flower is: on its way to the board, on it, with a gardener, left over for
   one, or watered.
   No two gardeners are given it, unless a request was handled twice
   (addFlowersToWater, getFlowerToWater, waterFlowers). *)
FlowersAreNotDoubled ==
  \A flower \in Flowers :
    Cardinality(Naming(flower)) + Cardinality({flower} \cap flowersToWater)
      + Cardinality(Holding(flower)) + Cardinality(Left(flower)) + waterings[flower]
      <= asked[flower] + Repeated

(* Each watering is reported once at most, to one flowerbed, wherever the report
   is: on its way to the board, on it, on its way to a flowerbed or counted there;
   unless a request was handled twice (addUpdate, clearUpdates,
   handleServerResponse). *)
ReportsAreNotDoubled ==
  \A flower \in Flowers :
    Cardinality(Telling(flower)) + Times(flower, updates) + Cardinality(Reports(flower))
      <= waterings[flower] + Repeated

(* A flowerbed stops for a flower that was watered twice only if a gardener
   watered it twice (handleServerResponse, flowerbed.cpp:275). *)
DiesOnlyOfWater ==
  \A f \in Flowerbeds : \A flower \in Flowers :
    flower_watering_counts[f][flower] > 1 => waterings[flower] > 1

(* At most one flowerbed that was accepted by an "OK" is at work
   (setFlowerbedConnected, flowerbed_state_manager.hpp:21). *)
OneFlowerbed == Cardinality({f \in Flowerbeds : IsOwner(f)}) <= 1
=============================================================================
