------------------------ MODULE FlowerBedSystem_proofs ------------------------
(* Theorems about FlowerBedSystem, for any number of gardeners, flowerbeds, flowers
   and seats, any timeouts and any budget of losses and repetitions. *)
EXTENDS FlowerBedSystem, FlowerBedServer_proofs, FunctionTheorems

(* The thread whose call holds the socket of a gardener waits for it, and the call
   is the one that thread makes. *)
GardenerCalls(g) ==
  \/ /\ socket[g].by = "ping" /\ socket[g].request = Request("pingGardener", g)
     /\ gardenerPing[g] = "pinged"
  \/ /\ socket[g].by = "water" /\ socket[g].request = Request("getFlower", g)
     /\ gardenerWater[g] = "asked"
  \/ /\ socket[g].by = "water" /\ socket[g].request = WaterRequest(g, flower_index[g])
     /\ gardenerWater[g] = "told" /\ flower_index[g] \in Flowers

FlowerbedCalls(f) ==
  \/ /\ socket[f].by = "main" /\ socket[f].request = Request("pingFlowerbed", f)
     /\ flowerbedMain[f] = "firstPinged"
  \/ /\ socket[f].by = "main" /\ socket[f].request = Request("getUpdates", f)
     /\ flowerbedMain[f] = "fetched"
  \/ /\ socket[f].by = "ping" /\ socket[f].request = Request("pingFlowerbed", f)
     /\ flowerbedPing[f] = "pinged"
  \/ /\ socket[f].by = "update" /\ socket[f].request = ToWaterRequest(f, newFlowers[f])
     /\ flowerbedUpdate[f] = "pushed"

IsMade(c) ==
  (c \in Gardeners /\ GardenerCalls(c)) \/ (c \in Flowerbeds /\ FlowerbedCalls(c))

(* What a call can end in: in an answer to any request of its program. *)
OutcomesOf(request) ==
  {Exception} \cup {OutcomeOf(reply) : reply \in ProgramAnswers(request.id)}

IsPending(call) ==
  /\ call.stage \in {"sent", "taken", "lost"}
  /\ call = [stage |-> call.stage, by |-> call.by, request |-> call.request]

IsOver(call) ==
  /\ call.stage = "ended" /\ call = Ended(call, call.outcome)
  /\ call.outcome \in OutcomesOf(call.request)

SocketsOK ==
  /\ socket = [c \in Ids |-> socket[c]]
  /\ \A c \in Ids :
       socket[c] = Free \/ (IsMade(c) /\ (IsPending(socket[c]) \/ IsOver(socket[c])))

(* What is left over for a client is an answer to some request of its program. *)
LateOK ==
  /\ late = [c \in Ids |-> late[c]]
  /\ \A c \in Ids : late[c] \in {NoAnswer} \cup ProgramAnswers(c)

(* The server works on the request of the one call it has taken, and on a route
   that takes it two steps. *)
HandlerFits ==
  /\ handler # Idle =>
       /\ handler.request.id \in Ids
       /\ socket[handler.request.id].stage = "taken"
       /\ socket[handler.request.id].request = handler.request
       /\ \/ /\ handler.at = "serve"
             /\ handler.request.route \in {"getUpdates", "getFlower", "water", "toWater"}
          \/ handler.at = "clear" /\ handler.request.route = "getUpdates"
  /\ \A c \in Ids : socket[c].stage = "taken" => handler # Idle /\ handler.request.id = c

(* The updates are waterings of flowers, and few enough for one answer. *)
ListsFit ==
  /\ updates \in Seq(Flowers) /\ Len(updates) <= MaxUpdates
  /\ handler # Idle /\ handler.at = "serve" /\ handler.request.route = "water"
       => Len(updates) < MaxUpdates

(* Between two calls a thread has what the next one needs. *)
GardenersOK ==
  /\ GardenerTypeOK
  /\ \A g \in Gardeners :
       /\ gardenerWater[g] = "tell" => flower_index[g] \in Flowers
       /\ gardenerWater[g] \in {"ask", "asked"} => waterAttempts[g] < RetryAttempts

FlowerbedFits(main, update, fetches, pushes, new, list) ==
  /\ main \in {"firstPing", "firstPinged"} => update = "off"
  /\ main = "handle" => list # <<>>
  /\ main # "handle" => list = <<>>
  /\ main \in {"fetch", "fetched"} => fetches < RetryAttempts
  /\ update \in {"push", "pushed"} => pushes < RetryAttempts
  /\ update \notin {"push", "pushed"} => new = {}

FlowerbedsOK ==
  /\ FlowerbedTypeOK
  /\ \A f \in Flowerbeds :
       FlowerbedFits(flowerbedMain[f], flowerbedUpdate[f], fetchAttempts[f],
                     pushAttempts[f], newFlowers[f], response[f])

CountsOK ==
  /\ lossesLeft \in 0..Losses /\ repetitionsLeft \in 0..Repetitions
  /\ asked \in [Flowers -> 0..MaxAsks] /\ waterings \in [Flowers -> Nat]

SystemInv ==
  /\ AppInv /\ SocketsOK /\ LateOK /\ HandlerFits /\ ListsFit
  /\ GardenersOK /\ FlowerbedsOK /\ CountsOK

-----------------------------------------------------------------------------
(* The requests of the programs. *)
LEMMA RequestForms ==
  ASSUME SystemInv, NEW c \in Ids, socket[c] # Free
  PROVE  LET request == socket[c].request IN
         \/ /\ c \in Gardeners
            /\ \/ request = Request("pingGardener", c)
               \/ request = Request("getFlower", c)
               \/ \E index \in Flowers : request = WaterRequest(c, index)
         \/ /\ c \in Flowerbeds
            /\ \/ request = Request("pingFlowerbed", c)
               \/ request = Request("getUpdates", c)
               \/ \E new \in SUBSET Flowers : request = ToWaterRequest(c, new)
<1>1. IsMade(c)
  BY DEF SystemInv, SocketsOK
<1>2. c \in Flowerbeds => newFlowers[c] \in SUBSET Flowers
  BY DEF SystemInv, FlowerbedsOK, FlowerbedTypeOK
<1> QED
  BY <1>1, <1>2 DEF IsMade, GardenerCalls, FlowerbedCalls

(* Every one of them is a request the server was modelled for. *)
LEMMA RequestsKnown ==
  ASSUME SystemInv, NEW c \in Ids, socket[c] # Free
  PROVE  LET request == socket[c].request IN
         /\ request \in AppRequests /\ request.id = c
         /\ request.route \in {"pingGardener", "getFlower", "water", "pingFlowerbed",
                               "getUpdates", "toWater"}
         /\ request.route \in {"getFlower", "water"} => c \in Gardeners
         /\ request.route = "water" => request.index \in Flowers
         /\ request.route \in {"getUpdates", "toWater"} => c \in Flowerbeds
         /\ request.route = "toWater" => request.flowers \subseteq Flowers
<1> DEFINE request == socket[c].request
<1>1. CASE \E route \in {"pingGardener", "getFlower"} :
             c \in Gardeners /\ request = Request(route, c)
  BY <1>1 DEF AppRequests, Request
<1>2. CASE c \in Gardeners /\ \E index \in Flowers : request = WaterRequest(c, index)
  <2>1. request \in {WaterRequest(x, i) : x \in Gardeners, i \in Indices}
    BY <1>2, SystemAssumption
  <2>2. request \in AppRequests
    BY <2>1 DEF AppRequests
  <2> QED
    BY <1>2, <2>2 DEF WaterRequest
<1>3. CASE \E route \in {"pingFlowerbed", "getUpdates"} :
             c \in Flowerbeds /\ request = Request(route, c)
  BY <1>3 DEF AppRequests, Request
<1>4. CASE c \in Flowerbeds /\ \E new \in SUBSET Flowers : request = ToWaterRequest(c, new)
  <2>1. request \in {ToWaterRequest(x, new) : x \in Flowerbeds, new \in SUBSET Flowers}
    BY <1>4
  <2>2. request \in AppRequests
    BY <2>1 DEF AppRequests
  <2> QED
    BY <1>4, <2>2 DEF ToWaterRequest
<1> QED
  BY <1>1, <1>2, <1>3, <1>4, RequestForms

(* The answers there are to a request, route by route. *)
LEMMA AnswersByRoute ==
  ASSUME NEW request
  PROVE  LET c == request.id IN
         /\ request.route = "pingGardener" =>
              AnswersTo(request) = {Text(c, "OK"), Text(c, "ERR")}
         /\ request.route = "pingFlowerbed" =>
              AnswersTo(request) = {Text(c, "OK"), Text(c, "HC")}
         /\ request.route = "getFlower" =>
              AnswersTo(request) =
                {Text(c, "NOT_READY")} \cup {FlowerAnswer(c, i) : i \in Flowers \cup {-1}}
         /\ request.route \in {"water", "toWater"} =>
              AnswersTo(request) = {Text(c, "NOT_READY"), Text(c, "OK")}
         /\ request.route = "getUpdates" =>
              AnswersTo(request) =
                {Text(c, "NOT_READY")} \cup {UpdatesAnswer(c, list) : list \in UpdateLists}
  BY DEF AnswersTo

(* An answer to a call is one of its program's. *)
LEMMA AnswersOfPrograms ==
  ASSUME SystemInv, NEW c \in Ids, socket[c] # Free
  PROVE  /\ socket[c].request.id = c
         /\ AnswersTo(socket[c].request) \subseteq ProgramAnswers(c)
<1> SUFFICES ASSUME NEW request, request = socket[c].request
             PROVE  request.id = c /\ AnswersTo(request) \subseteq ProgramAnswers(c)
  OBVIOUS
<1>1. request.id = c
  BY RequestsKnown
<1>2. \/ c \in Gardeners /\ request.route \in {"pingGardener", "getFlower", "water"}
      \/ c \in Flowerbeds /\ request.route \in {"pingFlowerbed", "getUpdates", "toWater"}
  <2>1. \A id, index : WaterRequest(id, index).route = "water"
    BY DEF WaterRequest
  <2>2. \A id, new : ToWaterRequest(id, new).route = "toWater"
    BY DEF ToWaterRequest
  <2>3. \A route, id : Request(route, id).route = route
    BY DEF Request
  <2>4. \/ /\ c \in Gardeners
           /\ \/ request = Request("pingGardener", c)
              \/ request = Request("getFlower", c)
              \/ \E index \in Flowers : request = WaterRequest(c, index)
        \/ /\ c \in Flowerbeds
           /\ \/ request = Request("pingFlowerbed", c)
              \/ request = Request("getUpdates", c)
              \/ \E new \in SUBSET Flowers : request = ToWaterRequest(c, new)
    BY RequestForms
  <2> QED
    BY <2>1, <2>2, <2>3, <2>4
<1>3. AnswersTo(request) = AnswersTo(Request(request.route, c))
  BY <1>1 DEF AnswersTo, Request
<1>4. request.route \in Routes(c)
  BY <1>2, ProgramAssumption DEF Routes
<1> QED
  BY <1>1, <1>3, <1>4 DEF ProgramAnswers

(* The answers a program may get. *)
LEMMA ProgramAnswerForms ==
  ASSUME NEW c \in Gardeners \cup Flowerbeds, NEW reply \in ProgramAnswers(c)
  PROVE  /\ reply # NoAnswer
         /\ \/ \E text : reply = Text(c, text)
            \/ c \in Gardeners /\ \E i \in Flowers \cup {-1} : reply = FlowerAnswer(c, i)
            \/ c \in Flowerbeds /\ \E list \in UpdateLists : reply = UpdatesAnswer(c, list)
<1>1. PICK route \in Routes(c) : reply \in AnswersTo(Request(route, c))
  BY DEF ProgramAnswers
<1>2. Request(route, c).route = route /\ Request(route, c).id = c
  BY DEF Request
<1>3. \/ /\ c \in Gardeners
         /\ route \in {"pingGardener", "getFlower", "water"}
      \/ /\ c \in Flowerbeds
         /\ route \in {"pingFlowerbed", "getUpdates", "toWater"}
  BY <1>1 DEF Routes
<1>4. \/ \E text : reply = Text(c, text)
      \/ c \in Gardeners /\ \E i \in Flowers \cup {-1} : reply = FlowerAnswer(c, i)
      \/ c \in Flowerbeds /\ \E list \in UpdateLists : reply = UpdatesAnswer(c, list)
  BY <1>1, <1>2, <1>3, AnswersByRoute
<1> QED
  BY <1>4 DEF Text, FlowerAnswer, UpdatesAnswer, NoAnswer

(* A client that calls is a gardener or a flowerbed. *)
LEMMA CallersArePrograms ==
  ASSUME SystemInv, NEW c \in Ids, socket[c] # Free
  PROVE  c \in Gardeners \cup Flowerbeds
BY RequestForms

(* The list of updates is short enough for an answer. *)
LEMMA ListsAreUpdates ==
  ASSUME NEW list \in Seq(Flowers), Len(list) <= MaxUpdates
  PROVE  list \in UpdateLists
<1>1. Len(list) \in 0..ListBound
  BY SystemAssumption, PeriodAssumption, FlowerAssumption
<1>2. list \in [1..Len(list) -> Flowers]
  OBVIOUS
<1> QED
  BY <1>1, <1>2 DEF UpdateLists

-----------------------------------------------------------------------------
(* The server on its first critical section: it answers with a text or takes the
   request, and has no request of a monitor. *)
LEMMA MessageReplies ==
  ASSUME SystemInv, NEW c \in Ids, socket[c] # Free, HandleMessage(socket[c].request)
  PROVE  /\ handler = Idle /\ UNCHANGED boardVars
         /\ \/ /\ handler' = Idle /\ \E text : answer' = Text(c, text)
               /\ answer' \in AnswersTo(socket[c].request)
            \/ /\ handler' = Busy("serve", socket[c].request, <<>>) /\ answer' = NoAnswer
               /\ socket[c].request.route \in {"getUpdates", "getFlower", "water", "toWater"}
               /\ socket[c].request.route = "water" => Len(updates) < MaxUpdates
<1> SUFFICES ASSUME NEW request, request = socket[c].request
             PROVE  /\ handler = Idle /\ UNCHANGED boardVars
                    /\ \/ /\ handler' = Idle /\ \E text : answer' = Text(c, text)
                          /\ answer' \in AnswersTo(request)
                       \/ /\ handler' = Busy("serve", request, <<>>) /\ answer' = NoAnswer
                          /\ request.route \in {"getUpdates", "getFlower", "water", "toWater"}
                          /\ request.route = "water" => Len(updates) < MaxUpdates
  OBVIOUS
<1>1. request.id = c /\ handler = Idle /\ request.route # "monitor"
  BY RequestsKnown DEF HandleMessage
<1>2. HandleMessage(request)
  OBVIOUS
<1>3. CASE HandleGardenerPing(request)
  <2>1. AnswersTo(request) = {Text(c, "OK"), Text(c, "ERR")}
    BY <1>1, <1>3, AnswersByRoute DEF HandleGardenerPing
  <2> QED
    BY <1>1, <1>3, <2>1 DEF HandleGardenerPing
<1>4. CASE HandleFlowerbedPing(request)
  <2>1. AnswersTo(request) = {Text(c, "OK"), Text(c, "HC")}
    BY <1>1, <1>4, AnswersByRoute DEF HandleFlowerbedPing
  <2> QED
    BY <1>1, <1>4, <2>1 DEF HandleFlowerbedPing
<1>5. CASE CheckReady(request)
  <2>1. Text(c, "NOT_READY") \in AnswersTo(request)
    BY <1>1, <1>5, AnswersByRoute DEF CheckReady
  <2> QED
    BY <1>1, <1>5, <2>1 DEF CheckReady
<1>6. ~ NoteMonitor(request)
  BY <1>1 DEF NoteMonitor
<1> QED
  BY <1>2, <1>3, <1>4, <1>5, <1>6 DEF HandleMessage

(* What the handler has taken. *)
LEMMA TakenCall ==
  ASSUME SystemInv, ContinueHandler
  PROVE  LET c == handler.request.id IN
         /\ handler # Idle
         /\ c \in Ids /\ socket[c].stage = "taken" /\ socket[c] # Free
         /\ socket[c].request = handler.request
         /\ IsPending(socket[c])
<1>1. handler # Idle
  BY DEF ContinueHandler, GetUpdates, ClearUpdates, GetFlowerToWater, AddUpdate,
         RefuseUpdate, AddFlowersToWater, GetMonitorData, Serves, Idle
<1>2. /\ handler.request.id \in Ids /\ socket[handler.request.id].stage = "taken"
      /\ socket[handler.request.id].request = handler.request
  BY <1>1 DEF SystemInv, HandlerFits
<1> QED
  BY <1>1, <1>2 DEF SystemInv, SocketsOK, IsOver, Free

(* The server on the second one: it copies the updates, or answers with what the
   route is for. *)
LEMMA HandlerReplies ==
  ASSUME SystemInv, ContinueHandler
  PROVE  LET request == handler.request
             c       == handler.request.id
         IN
         \/ /\ handler.at = "serve" /\ request.route = "getUpdates"
            /\ handler' = Busy("clear", request, updates) /\ answer' = NoAnswer
            /\ UNCHANGED boardVars
         \/ /\ handler.at = "clear" /\ request.route = "getUpdates"
            /\ handler' = Idle /\ answer' = UpdatesAnswer(c, updates)
            /\ updates' = <<>> /\ UNCHANGED flowersToWater
         \/ /\ handler.at = "serve" /\ request.route = "getFlower"
            /\ handler' = Idle /\ answer' = FlowerAnswer(c, -1)
            /\ UNCHANGED boardVars
         \/ \E flower \in flowersToWater :
            /\ handler.at = "serve" /\ request.route = "getFlower"
            /\ handler' = Idle /\ answer' = FlowerAnswer(c, flower)
            /\ flowersToWater' = flowersToWater \ {flower} /\ UNCHANGED updates
         \/ /\ handler.at = "serve" /\ request.route = "water"
            /\ handler' = Idle /\ answer' = Text(c, "OK")
            /\ updates' = Append(updates, request.index) /\ UNCHANGED flowersToWater
         \/ /\ handler.at = "serve" /\ request.route = "toWater"
            /\ handler' = Idle /\ answer' = Text(c, "OK")
            /\ flowersToWater' = flowersToWater \cup request.flowers /\ UNCHANGED updates
<1> DEFINE request == handler.request
           c       == handler.request.id
<1>1. /\ handler # Idle /\ c \in Ids /\ socket[c] # Free
      /\ socket[c].request = request
  BY TakenCall
<1>2. handler.at # "monitor" /\ (handler.at = "clear" => request.route = "getUpdates")
  BY <1>1 DEF SystemInv, HandlerFits
<1>3. request.route = "water" => request.index \in Flowers
  BY <1>1, RequestsKnown
<1>4. handler.at = "clear" => handler.seen = updates
  BY DEF SystemInv, AppInv, BoardOK
<1>5. CASE GetUpdates
  BY <1>5 DEF GetUpdates, Serves
<1>6. CASE ClearUpdates
  BY <1>2, <1>4, <1>6 DEF ClearUpdates, Respond
<1>7. CASE GetFlowerToWater
  BY <1>7 DEF GetFlowerToWater, Serves, Respond, boardVars
<1>8. CASE AddUpdate
  BY <1>8 DEF AddUpdate, Serves, Respond
<1>9. ~ RefuseUpdate
  <2>1. ASSUME RefuseUpdate PROVE FALSE
    <3>1. request.route = "water" /\ request.index < 0
      BY <2>1 DEF RefuseUpdate, Serves
    <3>2. request.index \in Nat
      BY <1>3, <3>1, FlowerAssumption
    <3> QED
      BY <3>1, <3>2
  <2> QED
    BY <2>1
<1>10. CASE AddFlowersToWater
  BY <1>10 DEF AddFlowersToWater, Serves, Respond
<1>11. ~ GetMonitorData
  BY <1>2 DEF GetMonitorData
<1> QED
  BY <1>5, <1>6, <1>7, <1>8, <1>9, <1>10, <1>11 DEF ContinueHandler

(* Its answer is one of those there are to the request. *)
LEMMA HandlerAnswers ==
  ASSUME SystemInv, ContinueHandler, handler' = Idle
  PROVE  answer' \in AnswersTo(handler.request) /\ answer' # NoAnswer
<1> DEFINE request == handler.request
           c       == handler.request.id
<1>1. ASSUME answer' = UpdatesAnswer(c, updates), request.route = "getUpdates"
      PROVE  answer' \in AnswersTo(request) /\ answer' # NoAnswer
  <2>1. updates \in UpdateLists
    BY ListsAreUpdates DEF SystemInv, ListsFit
  <2> QED
    BY <1>1, <2>1, AnswersByRoute DEF UpdatesAnswer, NoAnswer
<1>2. ASSUME NEW i \in Flowers \cup {-1}, answer' = FlowerAnswer(c, i),
             request.route = "getFlower"
      PROVE  answer' \in AnswersTo(request) /\ answer' # NoAnswer
  BY <1>2, AnswersByRoute DEF FlowerAnswer, NoAnswer
<1>3. ASSUME answer' = Text(c, "OK"), request.route \in {"water", "toWater"}
      PROVE  answer' \in AnswersTo(request) /\ answer' # NoAnswer
  BY <1>3, AnswersByRoute DEF Text, NoAnswer
<1>4. flowersToWater \subseteq Flowers
  BY DEF SystemInv, AppInv, BoardOK
<1> QED
  BY <1>1, <1>2, <1>3, <1>4, HandlerReplies DEF Busy, Idle

-----------------------------------------------------------------------------
(* What becomes of the call when the server answers or takes its request: an answer
   reaches the client, or is lost, or the request is sent once more. *)
LEMMA DeliverEffects ==
  ASSUME SystemInv, NEW c \in Ids, IsPending(socket[c]), Deliver(c)
  PROVE  /\ socket' = [socket EXCEPT ![c] = socket'[c]]
         /\ late' = [late EXCEPT ![c] = late'[c]]
         /\ \/ /\ answer' = NoAnswer /\ UNCHANGED <<late, budget>>
               /\ IsPending(socket'[c]) /\ socket'[c].stage = "taken"
               /\ socket'[c].by = socket[c].by /\ socket'[c].request = socket[c].request
            \/ /\ answer' # NoAnswer /\ UNCHANGED <<late, budget>>
               /\ late[c] = NoAnswer
               /\ socket'[c] = Ended(socket[c], OutcomeOf(answer'))
            \/ /\ answer' # NoAnswer /\ UNCHANGED budget
               /\ late[c] # NoAnswer /\ late'[c] = answer'
               /\ socket'[c] = Ended(socket[c], OutcomeOf(late[c]))
            \/ /\ answer' # NoAnswer /\ lossesLeft > 0
               /\ lossesLeft' = lossesLeft - 1 /\ UNCHANGED repetitionsLeft
               /\ UNCHANGED late
               /\ IsPending(socket'[c]) /\ socket'[c].stage = "lost"
               /\ socket'[c].by = socket[c].by /\ socket'[c].request = socket[c].request
            \/ /\ answer' # NoAnswer /\ lossesLeft > 0
               /\ lossesLeft' = lossesLeft - 1 /\ UNCHANGED repetitionsLeft
               /\ late[c] # NoAnswer /\ late'[c] = NoAnswer
               /\ socket'[c] = Ended(socket[c], OutcomeOf(late[c]))
            \/ /\ answer' # NoAnswer /\ repetitionsLeft > 0
               /\ repetitionsLeft' = repetitionsLeft - 1 /\ UNCHANGED lossesLeft
               /\ UNCHANGED late \/ (late[c] = NoAnswer /\ late'[c] = answer')
               /\ IsPending(socket'[c]) /\ socket'[c].stage = "sent"
               /\ socket'[c].by = socket[c].by /\ socket'[c].request = socket[c].request
<1>1. c \in DOMAIN socket /\ c \in DOMAIN late
  BY DEF SystemInv, SocketsOK, LateOK
<1>2. ASSUME NEW stage \in {"sent", "taken", "lost"}
      PROVE  LET call == [socket[c] EXCEPT !.stage = stage] IN
             /\ IsPending(call) /\ call.stage = stage
             /\ call.by = socket[c].by /\ call.request = socket[c].request
  BY DEF IsPending
<1>3. ASSUME NEW call, Set(c, call)
      PROVE  socket' = [socket EXCEPT ![c] = socket'[c]] /\ socket'[c] = call
  BY <1>1, <1>3 DEF Set
<1>4. ASSUME UNCHANGED late PROVE late' = [late EXCEPT ![c] = late'[c]]
  BY <1>1, <1>4 DEF SystemInv, LateOK
<1>5. ASSUME NEW reply, Leave(c, reply)
      PROVE  late' = [late EXCEPT ![c] = late'[c]] /\ late'[c] = reply
  BY <1>1, <1>5 DEF Leave
<1>6. CASE answer' = NoAnswer /\ Set(c, [socket[c] EXCEPT !.stage = "taken"])
           /\ UNCHANGED <<late, budget>>
  BY <1>2, <1>3, <1>4, <1>6
<1>7. CASE answer' # NoAnswer /\ Answered(c)
  BY <1>3, <1>4, <1>5, <1>7 DEF Answered, EndsWith
<1>8. CASE answer' # NoAnswer /\ Lost(c)
  BY <1>2, <1>3, <1>4, <1>5, <1>8 DEF Lost, EndsWith
<1>9. CASE answer' # NoAnswer /\ HandledAgain(c)
  BY <1>2, <1>3, <1>4, <1>5, <1>9 DEF HandledAgain
<1> QED
  BY <1>6, <1>7, <1>8, <1>9 DEF Deliver

(* A call that goes on with the same thread and request keeps the sockets in order. *)
LEMMA CallGoesOn ==
  ASSUME SystemInv, NEW c \in Ids, socket[c] # Free, UNCHANGED clientThreads,
         socket' = [socket EXCEPT ![c] = socket'[c]],
         IsPending(socket'[c]) \/ IsOver(socket'[c]),
         socket'[c].by = socket[c].by, socket'[c].request = socket[c].request
  PROVE  SocketsOK'
<1>1. /\ socket = [x \in Ids |-> socket[x]]
      /\ \A x \in Ids :
           socket[x] = Free \/ (IsMade(x) /\ (IsPending(socket[x]) \/ IsOver(socket[x])))
  BY DEF SystemInv, SocketsOK
<1>2. UNCHANGED <<gardenerPing, gardenerWater, flower_index, flowerbedMain, flowerbedPing,
                  flowerbedUpdate, newFlowers>>
  BY DEF clientThreads, gardenerThreads, wateringVars, flowerbedThreads, mainVars, pushVars
<1>3. ASSUME NEW x \in Ids, IsMade(x),
             socket'[x].by = socket[x].by, socket'[x].request = socket[x].request
      PROVE  IsMade(x)'
  BY <1>2, <1>3 DEF IsMade, GardenerCalls, FlowerbedCalls
<1>4. \A x \in Ids : x # c => socket'[x] = socket[x]
  BY <1>1
<1>5. socket' = [x \in Ids |-> socket'[x]]
  BY <1>1
<1>6. IsMade(c)'
  BY <1>1, <1>3
<1>7. ASSUME NEW x \in Ids
      PROVE  \/ socket'[x] = Free
             \/ IsMade(x)' /\ (IsPending(socket'[x]) \/ IsOver(socket'[x]))
  BY <1>1, <1>3, <1>4, <1>6
<1> QED
  BY <1>5, <1>7 DEF SocketsOK

(* An answer to the program ends the call in one of its outcomes. *)
LEMMA AnswerIsOver ==
  ASSUME NEW call, NEW reply \in ProgramAnswers(call.request.id)
  PROVE  LET ended == Ended(call, OutcomeOf(reply)) IN
         IsOver(ended) /\ ended.by = call.by /\ ended.request = call.request
<1> DEFINE outcome == OutcomeOf(reply)
           ended   == Ended(call, outcome)
<1>1. outcome \in OutcomesOf(call.request)
  BY DEF OutcomesOf
<1> HIDE DEF outcome
<1>2. /\ ended.stage = "ended" /\ ended.by = call.by
      /\ ended.request = call.request /\ ended.outcome = outcome
      /\ ended = Ended(ended, outcome)
  BY DEF Ended
<1>3. IsOver(ended)
  BY <1>1, <1>2 DEF IsOver
<1> USE DEF outcome
<1> QED
  BY <1>2, <1>3

LEMMA ThreadsKeep ==
  ASSUME SystemInv, UNCHANGED <<clientThreads, history>>,
         lossesLeft' \in 0..Losses, repetitionsLeft' \in 0..Repetitions
  PROVE  GardenersOK' /\ FlowerbedsOK' /\ CountsOK'
<1>1. GardenersOK'
  BY DEF SystemInv, GardenersOK, GardenerTypeOK, clientThreads, gardenerThreads, wateringVars
<1>2. FlowerbedsOK'
  BY DEF SystemInv, FlowerbedsOK, FlowerbedTypeOK, clientThreads, flowerbedThreads,
         mainVars, pushVars
<1>3. CountsOK'
  BY DEF SystemInv, CountsOK, history
<1> QED
  BY <1>1, <1>2, <1>3

(* A call the server has a part in stays in order, and so do the budgets. *)
LEMMA DeliverKeeps ==
  ASSUME SystemInv, NEW c \in Ids, socket[c] # Free, IsPending(socket[c]), Deliver(c),
         answer' # NoAnswer => answer' \in AnswersTo(socket[c].request),
         UNCHANGED <<clientThreads, history>>
  PROVE  /\ SocketsOK' /\ LateOK' /\ GardenersOK' /\ FlowerbedsOK' /\ CountsOK'
         /\ \A x \in Ids : x # c => socket'[x] = socket[x]
         /\ socket'[c].stage = "taken" <=> answer' = NoAnswer
         /\ socket'[c].request = socket[c].request
<1>1. /\ \/ /\ answer' # NoAnswer
            /\ \/ socket'[c] = Ended(socket[c], OutcomeOf(answer'))
               \/ /\ late[c] # NoAnswer
                  /\ socket'[c] = Ended(socket[c], OutcomeOf(late[c]))
         \/ /\ IsPending(socket'[c]) /\ socket'[c].by = socket[c].by
            /\ socket'[c].request = socket[c].request
      /\ socket' = [socket EXCEPT ![c] = socket'[c]]
      /\ socket'[c].stage = "taken" <=> answer' = NoAnswer
      /\ late' = [late EXCEPT ![c] = late'[c]]
      /\ \/ late'[c] = late[c] \/ late'[c] = NoAnswer
         \/ answer' # NoAnswer /\ late'[c] = answer'
  BY DeliverEffects DEF Ended
<1>2. /\ socket[c].request.id = c
      /\ late[c] \in {NoAnswer} \cup ProgramAnswers(c)
      /\ answer' # NoAnswer => answer' \in ProgramAnswers(c)
  BY AnswersOfPrograms DEF SystemInv, LateOK
<1>3. /\ IsPending(socket'[c]) \/ IsOver(socket'[c])
      /\ socket'[c].by = socket[c].by /\ socket'[c].request = socket[c].request
  BY <1>1, <1>2, AnswerIsOver
<1>4. SocketsOK'
  BY <1>1, <1>3, CallGoesOn
<1>5. LateOK'
  <2>1. late'[c] \in {NoAnswer} \cup ProgramAnswers(c)
    BY <1>1, <1>2
  <2> QED
    BY <1>1, <2>1 DEF SystemInv, LateOK
<1>6. lossesLeft' \in 0..Losses /\ repetitionsLeft' \in 0..Repetitions
  <2>1. lossesLeft \in 0..Losses /\ repetitionsLeft \in 0..Repetitions
    BY DEF SystemInv, CountsOK
  <2>2. \/ UNCHANGED budget
        \/ lossesLeft > 0 /\ lossesLeft' = lossesLeft - 1 /\ UNCHANGED repetitionsLeft
        \/ /\ repetitionsLeft > 0 /\ repetitionsLeft' = repetitionsLeft - 1
           /\ UNCHANGED lossesLeft
    BY DeliverEffects
  <2> QED
    BY <2>1, <2>2, SystemAssumption DEF budget
<1>7. \A x \in Ids : x # c => socket'[x] = socket[x]
  BY <1>1 DEF SystemInv, SocketsOK
<1> QED
  BY <1>1, <1>3, <1>4, <1>5, <1>6, <1>7, ThreadsKeep

(* The server takes a request: only the one that was sent is touched. *)
LEMMA ServerTakesKeeps ==
  ASSUME SystemInv, NEW c \in Ids, ServerTakes(c)
  PROVE  SystemInv'
<1> DEFINE request == socket[c].request
<1>1. /\ socket[c].stage = "sent" /\ HandleMessage(request) /\ Deliver(c)
      /\ UNCHANGED <<clientThreads, history>>
  BY DEF ServerTakes
<1>2. socket[c] # Free /\ IsPending(socket[c])
  BY <1>1 DEF SystemInv, SocketsOK, IsOver, Free
<1>3. request \in AppRequests /\ request.id = c
  BY <1>2, RequestsKnown
<1>4. AppInv'
  BY <1>1, <1>3, GardenerPingKeeps, FlowerbedPingKeeps, CheckReadyKeeps, NoteMonitorKeeps
     DEF HandleMessage, SystemInv
<1>5. /\ handler = Idle /\ UNCHANGED boardVars
      /\ \/ /\ handler' = Idle /\ \E text : answer' = Text(c, text)
            /\ answer' \in AnswersTo(request)
         \/ /\ handler' = Busy("serve", request, <<>>) /\ answer' = NoAnswer
            /\ request.route \in {"getUpdates", "getFlower", "water", "toWater"}
            /\ request.route = "water" => Len(updates) < MaxUpdates
  BY <1>1, <1>2, MessageReplies
<1>6. handler' = Idle <=> answer' # NoAnswer
  BY <1>5 DEF Text, NoAnswer, Busy, Idle
<1>7. /\ SocketsOK' /\ LateOK' /\ GardenersOK' /\ FlowerbedsOK' /\ CountsOK'
      /\ \A x \in Ids : x # c => socket'[x] = socket[x]
      /\ socket'[c].stage = "taken" <=> answer' = NoAnswer
      /\ socket'[c].request = socket[c].request
  BY <1>1, <1>2, <1>5, <1>6, DeliverKeeps
<1>8. \A x \in Ids : socket[x].stage # "taken"
  BY <1>5 DEF SystemInv, HandlerFits
<1>9. HandlerFits'
  <2>1. CASE handler' = Idle
    BY <1>6, <1>7, <1>8, <2>1 DEF HandlerFits
  <2>2. CASE handler' = Busy("serve", request, <<>>) /\ answer' = NoAnswer
    <3>1. /\ handler' # Idle /\ handler'.at = "serve" /\ handler'.request = request
          /\ handler'.request.id = c
      BY <1>3, <2>2 DEF Busy, Idle
    <3> QED
      BY <1>5, <1>6, <1>7, <1>8, <3>1 DEF HandlerFits
  <2> QED
    BY <1>5, <2>1, <2>2
<1>10. ListsFit'
  <2>1. UNCHANGED updates
    BY <1>5 DEF boardVars
  <2> QED
    BY <1>5, <2>1 DEF SystemInv, ListsFit, Busy
<1> QED
  BY <1>4, <1>7, <1>9, <1>10 DEF SystemInv

(* The server goes on with the request it has taken. *)
LEMMA ServerContinuesKeeps ==
  ASSUME SystemInv, ServerContinues
  PROVE  SystemInv'
<1> DEFINE c == handler.request.id
<1>1. ContinueHandler /\ Deliver(c) /\ UNCHANGED <<clientThreads, history>>
  BY DEF ServerContinues
<1>2. /\ handler # Idle
      /\ c \in Ids /\ socket[c].stage = "taken" /\ socket[c] # Free
      /\ socket[c].request = handler.request
      /\ IsPending(socket[c])
  BY <1>1, TakenCall
<1>3. AppInv'
  BY <1>1, ContinueKeeps DEF SystemInv
<1>4. \/ /\ handler' = Idle /\ answer' \in AnswersTo(handler.request) /\ answer' # NoAnswer
      \/ /\ handler.at = "serve" /\ handler.request.route = "getUpdates"
         /\ handler' = Busy("clear", handler.request, updates) /\ answer' = NoAnswer
         /\ UNCHANGED boardVars
  BY <1>1, HandlerReplies, HandlerAnswers
<1>5. /\ SocketsOK' /\ LateOK' /\ GardenersOK' /\ FlowerbedsOK' /\ CountsOK'
      /\ \A x \in Ids : x # c => socket'[x] = socket[x]
      /\ socket'[c].stage = "taken" <=> answer' = NoAnswer
      /\ socket'[c].request = socket[c].request
  BY <1>1, <1>2, <1>4, DeliverKeeps
<1>6. \A x \in Ids : socket[x].stage = "taken" => x = c
  BY DEF SystemInv, HandlerFits
<1>7. HandlerFits'
  <2>1. CASE handler' = Idle /\ answer' # NoAnswer
    BY <1>5, <1>6, <2>1 DEF HandlerFits
  <2>2. CASE /\ handler' = Busy("clear", handler.request, updates) /\ answer' = NoAnswer
             /\ handler.request.route = "getUpdates"
    <3>1. /\ handler' # Idle /\ handler'.at = "clear" /\ handler'.request = handler.request
          /\ handler'.request.id = c
      BY <2>2 DEF Busy, Idle
    <3> QED
      BY <1>2, <1>5, <1>6, <2>2, <3>1 DEF HandlerFits
  <2> QED
    BY <1>4, <2>1, <2>2
<1>8. ListsFit'
  <2>1. updates \in Seq(Flowers) /\ Len(updates) <= MaxUpdates
    BY DEF SystemInv, ListsFit
  <2>2. \/ updates' = updates \/ updates' = <<>>
        \/ handler.at = "serve" /\ handler.request.route = "water"
           /\ updates' = Append(updates, handler.request.index)
    BY <1>1, HandlerReplies DEF boardVars
  <2>3. handler.request.route = "water" => handler.request.index \in Flowers
    BY <1>2, RequestsKnown
  <2>4. handler.at = "serve" /\ handler.request.route = "water" => Len(updates) < MaxUpdates
    BY <1>2 DEF SystemInv, ListsFit
  <2>5. updates' \in Seq(Flowers) /\ Len(updates') <= MaxUpdates
    <3>1. CASE updates' = <<>>
      BY <3>1, PeriodAssumption
    <3>2. CASE handler.at = "serve" /\ handler.request.route = "water"
               /\ updates' = Append(updates, handler.request.index)
      <4>1. Len(updates) < MaxUpdates /\ handler.request.index \in Flowers
        BY <2>3, <2>4, <3>2
      <4>2. updates' = Append(updates, handler.request.index)
        BY <3>2
      <4> QED
        BY <2>1, <4>1, <4>2, PeriodAssumption
    <3> QED
      BY <2>1, <2>2, <3>1, <3>2
  <2>6. handler' = Idle \/ handler'.at = "clear"
    BY <1>4 DEF Busy
  <2> QED
    BY <2>5, <2>6 DEF ListsFit
<1> QED
  BY <1>3, <1>5, <1>7, <1>8 DEF SystemInv

-----------------------------------------------------------------------------
(* A step without the server leaves what is known of it. *)
LEMMA QuietKeeps ==
  ASSUME SystemInv, ServerIsQuiet
  PROVE  AppInv' /\ ListsFit' /\ UNCHANGED <<handler, updates, flowersToWater>>
<1>1. UNCHANGED <<updates, flowersToWater, handler>>
  BY DEF ServerIsQuiet, appState, boardVars
<1>2. BoardOK'
  BY <1>1 DEF SystemInv, AppInv, BoardOK, HandlerOK
<1>3. AppInv'
  BY <1>2, ElsewhereKeeps DEF SystemInv, AppInv, TimesOK, ServerIsQuiet, appState, IsStamps
<1>4. ListsFit'
  BY <1>1 DEF SystemInv, ListsFit
<1> QED
  BY <1>1, <1>3, <1>4

(* As long as no call is taken or given back, the server works on the same one. *)
LEMMA HandlerUndisturbed ==
  ASSUME HandlerFits, handler' = handler,
         \A x \in Ids : socket[x].stage = "taken" \/ socket'[x].stage = "taken"
                          => socket'[x] = socket[x]
  PROVE  HandlerFits'
  BY DEF HandlerFits

(* The worker and the clock leave the calls alone. *)
LEMMA WorkerKeeps ==
  ASSUME SystemInv, WorkerChecks \/ SystemTick
  PROVE  SystemInv'
<1>1. /\ CheckConnections \/ AppTick
      /\ UNCHANGED <<socket, late, clientThreads, budget, history>>
  BY DEF WorkerChecks, SystemTick
<1>2. AppInv'
  BY <1>1, CheckConnectionsKeeps, AppTickKeeps DEF SystemInv
<1>3. UNCHANGED <<handler, updates>>
  BY <1>1 DEF CheckConnections, AppTick, boardVars
<1>4. HandlerFits' /\ ListsFit'
  <2>1. HandlerFits'
    BY <1>1, <1>3, HandlerUndisturbed DEF SystemInv
  <2> QED
    BY <1>3, <2>1 DEF SystemInv, ListsFit
<1>5. GardenersOK' /\ FlowerbedsOK' /\ CountsOK'
  BY <1>1, ThreadsKeep DEF SystemInv, CountsOK, budget
<1>6. SocketsOK'
  BY <1>1 DEF SystemInv, SocketsOK, IsMade, GardenerCalls, FlowerbedCalls, clientThreads,
              gardenerThreads, wateringVars, flowerbedThreads, mainVars, pushVars
<1>7. LateOK'
  BY <1>1 DEF SystemInv, LateOK
<1> QED
  BY <1>2, <1>4, <1>5, <1>6, <1>7 DEF SystemInv

(* A request that is lost, and a call that ends for want of an answer. *)
LEMMA RequestLostKeeps ==
  ASSUME SystemInv, NEW c \in Ids, RequestLost(c)
  PROVE  SystemInv'
<1>1. /\ socket[c].stage = "sent" /\ Lost(c) /\ ServerIsQuiet
      /\ UNCHANGED <<clientThreads, history>>
  BY DEF RequestLost
<1>2. IsPending(socket[c]) /\ socket[c] # Free /\ c \in DOMAIN socket /\ c \in DOMAIN late
  BY <1>1 DEF SystemInv, SocketsOK, LateOK, IsOver, Free
<1>4. late[c] \in {NoAnswer} \cup ProgramAnswers(c) /\ socket[c].request.id = c
  BY <1>2, AnswersOfPrograms DEF SystemInv, LateOK
<1>5. /\ socket' = [socket EXCEPT ![c] = socket'[c]]
      /\ IsPending(socket'[c]) \/ IsOver(socket'[c])
      /\ socket'[c].stage # "taken"
      /\ socket'[c].by = socket[c].by /\ socket'[c].request = socket[c].request
      /\ late' = [late EXCEPT ![c] = late'[c]]
      /\ late'[c] = late[c] \/ late'[c] = NoAnswer
  <2>1. CASE late[c] = NoAnswer /\ UNCHANGED late
             /\ Set(c, [socket[c] EXCEPT !.stage = "lost"])
    <3>1. /\ socket' = [socket EXCEPT ![c] = socket'[c]]
          /\ socket'[c] = [socket[c] EXCEPT !.stage = "lost"]
      BY <1>2, <2>1 DEF Set
    <3>2. /\ IsPending(socket'[c]) /\ socket'[c].stage = "lost"
          /\ socket'[c].by = socket[c].by /\ socket'[c].request = socket[c].request
      BY <1>2, <3>1 DEF IsPending
    <3>3. late' = [late EXCEPT ![c] = late'[c]]
      BY <1>2, <2>1 DEF SystemInv, LateOK
    <3> QED
      BY <2>1, <3>1, <3>2, <3>3
  <2>2. CASE late[c] # NoAnswer /\ EndsWith(c, late[c]) /\ Leave(c, NoAnswer)
    <3>1. /\ socket' = [socket EXCEPT ![c] = socket'[c]]
          /\ socket'[c] = Ended(socket[c], OutcomeOf(late[c]))
          /\ late' = [late EXCEPT ![c] = late'[c]] /\ late'[c] = NoAnswer
      BY <1>2, <2>2 DEF EndsWith, Set, Leave
    <3>2. IsOver(socket'[c]) /\ socket'[c].by = socket[c].by
          /\ socket'[c].request = socket[c].request
      BY <1>4, <2>2, <3>1, AnswerIsOver
    <3> QED
      BY <3>1, <3>2 DEF IsOver
  <2> QED
    BY <1>1, <2>1, <2>2 DEF Lost
<1>6. SocketsOK'
  BY <1>1, <1>2, <1>5, CallGoesOn
<1>7. LateOK'
  <2>1. late'[c] \in {NoAnswer} \cup ProgramAnswers(c)
    BY <1>4, <1>5
  <2> QED
    BY <1>5, <2>1 DEF SystemInv, LateOK
<1>8. AppInv' /\ ListsFit' /\ handler' = handler
  BY <1>1, QuietKeeps
<1>9. HandlerFits'
  BY <1>1, <1>5, <1>8, HandlerUndisturbed DEF SystemInv, SocketsOK
<1>10. lossesLeft' \in 0..Losses /\ repetitionsLeft' \in 0..Repetitions
  BY <1>1, SystemAssumption DEF SystemInv, CountsOK, Lost
<1> QED
  BY <1>1, <1>6, <1>7, <1>8, <1>9, <1>10, ThreadsKeep DEF SystemInv

LEMMA CallTimesOutKeeps ==
  ASSUME SystemInv, NEW c \in Ids, CallTimesOut(c)
  PROVE  SystemInv'
<1>1. /\ socket[c].stage = "lost"
      /\ socket' = [socket EXCEPT ![c] = Ended(socket[c], Exception)]
      /\ ServerIsQuiet
      /\ UNCHANGED <<late, clientThreads, budget, history>>
  BY DEF CallTimesOut, Set
<1>2. socket[c] # Free /\ c \in DOMAIN socket
  BY <1>1 DEF SystemInv, SocketsOK, Free
<1>3. /\ socket' = [socket EXCEPT ![c] = socket'[c]]
      /\ socket'[c] = Ended(socket[c], Exception)
  BY <1>1, <1>2
<1>4. /\ socket'[c].stage = "ended" /\ IsOver(socket'[c])
      /\ socket'[c].by = socket[c].by /\ socket'[c].request = socket[c].request
  <2>1. Exception \in OutcomesOf(socket[c].request)
    BY DEF OutcomesOf
  <2> QED
    BY <1>3, <2>1 DEF IsOver, Ended
<1>5. SocketsOK'
  BY <1>1, <1>2, <1>3, <1>4, CallGoesOn
<1>6. AppInv' /\ ListsFit' /\ handler' = handler
  BY <1>1, QuietKeeps
<1>7. HandlerFits'
  BY <1>1, <1>4, <1>6, HandlerUndisturbed DEF SystemInv, SocketsOK
<1>8. LateOK'
  BY <1>1 DEF SystemInv, LateOK
<1> QED
  BY <1>1, <1>5, <1>6, <1>7, <1>8, ThreadsKeep DEF SystemInv, CountsOK, budget

-----------------------------------------------------------------------------
(* What a call that has ended brings: an answer to any request of the program. *)
LEMMA OutcomeForms ==
  ASSUME SystemInv, NEW c \in Ids, socket[c].stage = "ended"
  PROVE  LET outcome == socket[c].outcome IN
         /\ socket[c] # Free
         /\ \/ outcome = Exception
            \/ \E text : outcome = Reply(Text(c, text))
            \/ /\ c \in Gardeners
               /\ \E i \in Flowers \cup {-1} : outcome = Reply(FlowerAnswer(c, i))
            \/ c \in Flowerbeds /\ outcome = Nullopt
            \/ /\ c \in Flowerbeds
               /\ \E list \in Seq(Flowers) \ {<<>>} : outcome = Reply(UpdatesAnswer(c, list))
<1> SUFFICES ASSUME NEW outcome, outcome = socket[c].outcome
             PROVE  /\ socket[c] # Free
                    /\ \/ outcome = Exception
                       \/ \E text : outcome = Reply(Text(c, text))
                       \/ /\ c \in Gardeners
                          /\ \E i \in Flowers \cup {-1} : outcome = Reply(FlowerAnswer(c, i))
                       \/ c \in Flowerbeds /\ outcome = Nullopt
                       \/ /\ c \in Flowerbeds
                          /\ \E list \in Seq(Flowers) \ {<<>>} :
                               outcome = Reply(UpdatesAnswer(c, list))
  OBVIOUS
<1>1. socket[c] # Free
  BY DEF Free
<1>2. outcome \in OutcomesOf(socket[c].request)
  BY <1>1 DEF SystemInv, SocketsOK, IsPending, IsOver
<1>3. socket[c].request.id = c /\ c \in Gardeners \cup Flowerbeds
  BY <1>1, AnswersOfPrograms, CallersArePrograms
<1>4. outcome = Exception \/ \E reply \in ProgramAnswers(c) : outcome = OutcomeOf(reply)
  BY <1>2, <1>3 DEF OutcomesOf
<1>5. ASSUME NEW text, outcome = OutcomeOf(Text(c, text))
      PROVE  outcome = Reply(Text(c, text))
  BY <1>5 DEF OutcomeOf, Text
<1>6. ASSUME NEW i, outcome = OutcomeOf(FlowerAnswer(c, i))
      PROVE  outcome = Reply(FlowerAnswer(c, i))
  BY <1>6 DEF OutcomeOf, FlowerAnswer
<1>7. ASSUME NEW list \in UpdateLists, outcome = OutcomeOf(UpdatesAnswer(c, list))
      PROVE  /\ list \in Seq(Flowers)
             /\ \/ outcome = Nullopt
                \/ list # <<>> /\ outcome = Reply(UpdatesAnswer(c, list))
  <2>1. list \in Seq(Flowers)
    BY FlowerAssumption DEF UpdateLists
  <2> QED
    BY <1>7, <2>1 DEF OutcomeOf, UpdatesAnswer
<1>8. CASE \E reply \in ProgramAnswers(c) : outcome = OutcomeOf(reply)
  <2>1. PICK reply \in ProgramAnswers(c) : outcome = OutcomeOf(reply)
    BY <1>8
  <2>2. CASE \E text : reply = Text(c, text)
    BY <1>1, <1>5, <2>1, <2>2
  <2>3. CASE c \in Gardeners /\ \E i \in Flowers \cup {-1} : reply = FlowerAnswer(c, i)
    BY <1>1, <1>6, <2>1, <2>3
  <2>4. CASE c \in Flowerbeds /\ \E list \in UpdateLists : reply = UpdatesAnswer(c, list)
    <3>1. PICK list \in UpdateLists : reply = UpdatesAnswer(c, list)
      BY <2>4
    <3> QED
      BY <1>1, <1>7, <2>1, <2>4, <3>1
  <2> QED
    BY <1>3, <2>1, <2>2, <2>3, <2>4, ProgramAnswerForms
<1> QED
  BY <1>1, <1>4, <1>8

(* What a step of a client's thread may do with the socket. *)
CallMoves(c) ==
  \/ UNCHANGED socket /\ (IsMade(c) => IsMade(c)')
  \/ /\ socket[c] = Free /\ socket' = [socket EXCEPT ![c] = socket'[c]]
     /\ IsPending(socket'[c]) /\ socket'[c].stage = "sent" /\ IsMade(c)'
  \/ socket[c].stage = "ended" /\ socket' = [socket EXCEPT ![c] = Free]

LEMMA CallMovesKeep ==
  ASSUME SystemInv, NEW c \in Ids, CallMoves(c), handler' = handler,
         \A x \in Ids \ {c} : socket'[x] = socket[x] /\ IsMade(x) => IsMade(x)'
  PROVE  SocketsOK' /\ HandlerFits'
<1>1. /\ socket = [x \in Ids |-> socket[x]]
      /\ \A x \in Ids :
           socket[x] = Free \/ (IsMade(x) /\ (IsPending(socket[x]) \/ IsOver(socket[x])))
  BY DEF SystemInv, SocketsOK
<1>2. CASE UNCHANGED socket /\ (IsMade(c) => IsMade(c)')
  BY <1>1, <1>2, HandlerUndisturbed DEF SystemInv, SocketsOK
<1>3. CASE /\ socket' = [socket EXCEPT ![c] = socket'[c]]
           /\ \/ socket[c] = Free /\ IsPending(socket'[c]) /\ socket'[c].stage = "sent"
                 /\ IsMade(c)'
              \/ socket[c].stage = "ended" /\ socket'[c] = Free
  <2>1. socket' = [x \in Ids |-> socket'[x]] /\ \A x \in Ids \ {c} : socket'[x] = socket[x]
    BY <1>1, <1>3
  <2>2. SocketsOK'
    BY <1>1, <1>3, <2>1 DEF SocketsOK
  <2>3. socket[c].stage # "taken" /\ socket'[c].stage # "taken"
    BY <1>3 DEF Free
  <2>4. HandlerFits'
    BY <2>1, <2>3, HandlerUndisturbed DEF SystemInv
  <2> QED
    BY <2>2, <2>4
<1>4. socket' = [socket EXCEPT ![c] = Free] => socket'[c] = Free
  BY <1>1
<1> QED
  BY <1>2, <1>3, <1>4 DEF CallMoves

(* Taking the socket and giving it back. *)
LEMMA BeginCallEffects ==
  ASSUME SystemInv, NEW c \in Ids, NEW thread, NEW request, BeginCall(c, thread, request)
  PROVE  /\ socket[c] = Free /\ socket' = [socket EXCEPT ![c] = socket'[c]]
         /\ socket'[c] = Sent(thread, request)
         /\ IsPending(socket'[c]) /\ socket'[c].stage = "sent"
         /\ socket'[c].by = thread /\ socket'[c].request = request
<1>1. c \in DOMAIN socket
  BY DEF SystemInv, SocketsOK
<1>2. socket'[c] = Sent(thread, request)
  BY <1>1 DEF BeginCall
<1> QED
  BY <1>1, <1>2 DEF BeginCall, IsPending, Sent

LEMMA ReturnMoves ==
  ASSUME NEW c \in Ids, NEW thread, Returned(c, thread), Unlock(c)
  PROVE  CallMoves(c)
  BY DEF Returned, Unlock, CallMoves

-----------------------------------------------------------------------------
(* The threads of a gardener: each waits for its own call, and what it learns from
   the call is what the next one needs. *)
LEMMA GardenersMade ==
  ASSUME NEW g \in Gardeners
  PROVE  /\ g \in Ids
         /\ IsMade(g) <=> GardenerCalls(g)
         /\ IsMade(g)' <=> GardenerCalls(g)'
  BY ProgramAssumption DEF IsMade, Ids

LEMMA PingerMoves ==
  ASSUME SystemInv, NEW g \in Gardeners, PingerLocks(g) \/ PingerRuns(g)
  PROVE  /\ CallMoves(g) /\ GardenersOK'
         /\ \A x \in Gardeners \ {g} : gardenerPing'[x] = gardenerPing[x]
         /\ UNCHANGED <<gardenerWater, flower_index>>
<1>1. UNCHANGED <<gardenerWater, flower_index, waterAttempts>>
  BY DEF PingerLocks, PingerRuns, PingAsGardener, GardenerPingLoop, GardenerPinged, wateringVars
<1>2. GardenersOK
  BY DEF SystemInv
<1>3. \E place \in {"loop", "ping", "pinged", "ended"} : gardenerPing' = At(gardenerPing, g, place)
  BY DEF PingerLocks, PingerRuns, PingAsGardener, GardenerPingLoop, GardenerPinged
<1>4. gardenerStopped' = gardenerStopped \/ gardenerStopped' = At(gardenerStopped, g, TRUE)
  BY DEF PingerLocks, PingerRuns, PingAsGardener, GardenerPingLoop, GardenerPinged
<1>5. GardenersOK'
  <2>1. gardenerPing' \in [Gardeners -> {"loop", "ping", "pinged", "ended"}]
    BY <1>2, <1>3 DEF GardenersOK, GardenerTypeOK, At
  <2>2. gardenerStopped' \in [Gardeners -> BOOLEAN]
    BY <1>2, <1>4 DEF GardenersOK, GardenerTypeOK, At
  <2> QED
    BY <1>1, <1>2, <2>1, <2>2 DEF GardenersOK, GardenerTypeOK
<1>6. \A x \in Gardeners \ {g} : gardenerPing'[x] = gardenerPing[x]
  BY <1>2, <1>3 DEF GardenersOK, GardenerTypeOK, At
<1>7. CASE PingAsGardener(g)
  <2>1. BeginCall(g, "ping", Request("pingGardener", g)) /\ gardenerPing'[g] = "pinged"
    BY <1>2, <1>7 DEF PingAsGardener, GardenersOK, GardenerTypeOK, At
  <2> QED
    BY <1>1, <1>5, <1>6, <2>1, BeginCallEffects, GardenersMade DEF CallMoves, GardenerCalls
<1>8. CASE GardenerPingLoop(g)
  BY <1>1, <1>5, <1>6, <1>8, GardenersMade
     DEF GardenerPingLoop, CallMoves, GardenerCalls
<1>9. CASE GardenerPinged(g)
  BY <1>1, <1>5, <1>6, <1>9, GardenersMade, ReturnMoves DEF GardenerPinged
<1> QED
  BY <1>7, <1>8, <1>9 DEF PingerLocks, PingerRuns

LEMMA WatererMoves ==
  ASSUME SystemInv, NEW g \in Gardeners, WatererLocks(g) \/ WatererRuns(g)
  PROVE  /\ CallMoves(g) /\ GardenersOK'
         /\ \A x \in Gardeners \ {g} :
              gardenerWater'[x] = gardenerWater[x] /\ flower_index'[x] = flower_index[x]
         /\ UNCHANGED gardenerPing
<1> DEFINE Places == {"loop", "ask", "asked", "retry", "tell", "told", "ended"}
<1>1. UNCHANGED gardenerPing
  BY DEF WatererLocks, WatererRuns, AskFlower, TellWatered, WaterLoop, Asked, RetryAsking,
         Told, FlowerGiven, AskAgain, AskFailed, StopWatering
<1>2. /\ gardenerWater \in [Gardeners -> Places]
      /\ gardenerStopped \in [Gardeners -> BOOLEAN]
      /\ flower_index \in [Gardeners -> Flowers \cup {-1}]
      /\ waterAttempts \in [Gardeners -> 0..RetryAttempts]
      /\ gardenerPing \in [Gardeners -> {"loop", "ping", "pinged", "ended"}]
      /\ \A x \in Gardeners :
           /\ gardenerWater[x] = "tell" => flower_index[x] \in Flowers
           /\ gardenerWater[x] \in {"ask", "asked"} => waterAttempts[x] < RetryAttempts
  BY DEF SystemInv, GardenersOK, GardenerTypeOK
<1>3. ASSUME NEW place \in Places, gardenerWater' = At(gardenerWater, g, place),
             NEW index \in Flowers \cup {-1}, flower_index' = At(flower_index, g, index),
             NEW attempts \in 0..RetryAttempts, waterAttempts' = At(waterAttempts, g, attempts),
             gardenerStopped' = gardenerStopped
               \/ gardenerStopped' = At(gardenerStopped, g, TRUE),
             place = "tell" => index \in Flowers,
             place \in {"ask", "asked"} => attempts < RetryAttempts
      PROVE  /\ GardenersOK'
             /\ gardenerWater'[g] = place /\ flower_index'[g] = index
             /\ \A x \in Gardeners \ {g} :
                  gardenerWater'[x] = gardenerWater[x] /\ flower_index'[x] = flower_index[x]
  <2>1. gardenerStopped' \in [Gardeners -> BOOLEAN]
    BY <1>2, <1>3 DEF At
  <2>2. /\ gardenerWater' \in [Gardeners -> Places] /\ gardenerWater'[g] = place
        /\ \A x \in Gardeners \ {g} : gardenerWater'[x] = gardenerWater[x]
    BY <1>2, <1>3 DEF At
  <2>3. /\ flower_index' \in [Gardeners -> Flowers \cup {-1}] /\ flower_index'[g] = index
        /\ \A x \in Gardeners \ {g} : flower_index'[x] = flower_index[x]
    BY <1>2, <1>3 DEF At
  <2>4. /\ waterAttempts' \in [Gardeners -> 0..RetryAttempts] /\ waterAttempts'[g] = attempts
        /\ \A x \in Gardeners \ {g} : waterAttempts'[x] = waterAttempts[x]
    BY <1>2, <1>3 DEF At
  <2>5. GardenerTypeOK'
    BY <1>1, <1>2, <2>1, <2>2, <2>3, <2>4 DEF GardenerTypeOK
  <2> HIDE DEF Places
  <2> QED
    BY <1>2, <1>3, <2>2, <2>3, <2>4, <2>5 DEF GardenersOK
<1>4. /\ flower_index = At(flower_index, g, flower_index[g])
      /\ waterAttempts = At(waterAttempts, g, waterAttempts[g])
      /\ flower_index[g] \in Flowers \cup {-1} /\ waterAttempts[g] \in 0..RetryAttempts
      /\ 0 \in 0..RetryAttempts /\ 0 < RetryAttempts
  BY <1>2, RetryAssumption DEF At
<1> HIDE DEF Places
<1>5. {"loop", "ask", "asked", "retry", "tell", "told", "ended"} \subseteq Places
  BY DEF Places
<1>6. CASE WaterLoop(g)
  BY <1>1, <1>3, <1>4, <1>5, <1>6, GardenersMade DEF WaterLoop, CallMoves, GardenerCalls
<1>7. CASE AskFlower(g)
  <2>1. BeginCall(g, "water", Request("getFlower", g))
    BY <1>7 DEF AskFlower
  <2>2. /\ GardenersOK' /\ gardenerWater'[g] = "asked"
        /\ \A x \in Gardeners \ {g} :
             gardenerWater'[x] = gardenerWater[x] /\ flower_index'[x] = flower_index[x]
    BY <1>2, <1>3, <1>4, <1>5, <1>7 DEF AskFlower
  <2> QED
    BY <1>1, <2>1, <2>2, BeginCallEffects, GardenersMade DEF CallMoves, GardenerCalls
<1>8. CASE TellWatered(g)
  <2>1. /\ BeginCall(g, "water", WaterRequest(g, flower_index[g]))
        /\ flower_index' = flower_index /\ flower_index[g] \in Flowers
    BY <1>2, <1>8 DEF TellWatered
  <2>2. /\ GardenersOK' /\ gardenerWater'[g] = "told"
        /\ \A x \in Gardeners \ {g} :
             gardenerWater'[x] = gardenerWater[x] /\ flower_index'[x] = flower_index[x]
    BY <1>2, <1>3, <1>4, <1>5, <1>8 DEF TellWatered
  <2> QED
    BY <1>1, <2>1, <2>2, BeginCallEffects, GardenersMade DEF CallMoves, GardenerCalls
<1>9. CASE Asked(g)
  <2>1. CallMoves(g) /\ gardenerWater[g] = "asked" /\ socket[g].stage = "ended"
    BY <1>9, ReturnMoves, GardenersMade DEF Asked, Returned
  <2>2. CASE FlowerGiven(g, socket[g].outcome)
    <3> DEFINE reply == socket[g].outcome.answer
    <3>1. reply.flower \in Flowers \cup {-1}
      <4>1. /\ socket[g].outcome.kind = "reply"
            /\ "flower" \in DOMAIN reply
        BY <2>2 DEF FlowerGiven
      <4>2. \/ socket[g].outcome = Exception
            \/ \E text : socket[g].outcome = Reply(Text(g, text))
            \/ \E i \in Flowers \cup {-1} : socket[g].outcome = Reply(FlowerAnswer(g, i))
            \/ socket[g].outcome = Nullopt
            \/ \E list \in Seq(Flowers) : socket[g].outcome = Reply(UpdatesAnswer(g, list))
        BY <2>1, OutcomeForms, GardenersMade
      <4>3. socket[g].outcome # Exception /\ socket[g].outcome # Nullopt
        BY <4>1 DEF Exception, Nullopt
      <4>4. \A text : socket[g].outcome # Reply(Text(g, text))
        BY <4>1 DEF Reply, Text
      <4>5. \A list \in Seq(Flowers) : socket[g].outcome # Reply(UpdatesAnswer(g, list))
        BY <4>1 DEF Reply, UpdatesAnswer
      <4>6. PICK i \in Flowers \cup {-1} : socket[g].outcome = Reply(FlowerAnswer(g, i))
        BY <4>2, <4>3, <4>4, <4>5
      <4> QED
        BY <4>6 DEF Reply, FlowerAnswer
    <3>2. PICK index \in Flowers \cup {-1} : reply.flower = index
      BY <3>1
    <3>3. ~ (reply.flower < 0) => reply.flower \in Flowers
      BY <3>2, FlowerAssumption
    <3>4. /\ flower_index' = At(flower_index, g, reply.flower)
          /\ gardenerWater' = At(gardenerWater, g, IF reply.flower < 0 THEN "loop" ELSE "tell")
          /\ UNCHANGED <<waterAttempts, gardenerStopped>>
      BY <2>2 DEF FlowerGiven
    <3> HIDE DEF reply
    <3> QED
      BY <1>1, <1>3, <1>4, <1>5, <2>1, <3>1, <3>3, <3>4
  <2>3. CASE AskAgain(g, socket[g].outcome)
    <3>1. waterAttempts[g] + 1 \in 0..RetryAttempts
      BY <1>2, <1>4, <2>1, RetryAssumption
    <3> QED
      BY <1>1, <1>3, <1>4, <1>5, <2>1, <2>3, <3>1 DEF AskAgain
  <2>4. CASE AskFailed(g, socket[g].outcome)
    BY <1>1, <1>3, <1>4, <1>5, <2>1, <2>4 DEF AskFailed, StopWatering
  <2> QED
    BY <1>9, <2>2, <2>3, <2>4 DEF Asked
<1>10. CASE RetryAsking(g)
  <2>1. CallMoves(g)
    BY <1>1, <1>10, GardenersMade DEF RetryAsking, CallMoves, GardenerCalls
  <2>2. CASE waterAttempts[g] < RetryAttempts
    BY <1>1, <1>3, <1>4, <1>5, <1>10, <2>1, <2>2 DEF RetryAsking
  <2>3. CASE ~ (waterAttempts[g] < RetryAttempts)
    BY <1>1, <1>3, <1>4, <1>5, <1>10, <2>1, <2>3 DEF RetryAsking, StopWatering
  <2> QED
    BY <2>2, <2>3
<1>11. CASE Told(g)
  <2>1. CallMoves(g)
    BY <1>11, ReturnMoves, GardenersMade DEF Told
  <2>2. \/ gardenerWater' = At(gardenerWater, g, "loop") /\ UNCHANGED gardenerStopped
        \/ /\ gardenerWater' = At(gardenerWater, g, "ended")
           /\ gardenerStopped' = At(gardenerStopped, g, TRUE)
    BY <1>11 DEF Told, StopWatering
  <2> QED
    BY <1>1, <1>3, <1>4, <1>5, <1>11, <2>1, <2>2 DEF Told
<1> QED
  BY <1>6, <1>7, <1>8, <1>9, <1>10, <1>11 DEF WatererLocks, WatererRuns

-----------------------------------------------------------------------------
(* The threads of a flowerbed. *)
LEMMA FlowerbedsMade ==
  ASSUME NEW f \in Flowerbeds
  PROVE  /\ f \in Ids
         /\ IsMade(f) <=> FlowerbedCalls(f)
         /\ IsMade(f)' <=> FlowerbedCalls(f)'
  BY ProgramAssumption DEF IsMade, Ids

(* The variables of FlowerbedsOK, one by one. *)
MainPlaces == {"firstPing", "firstPinged", "loop", "fetch", "fetched", "handle", "ended"}
PingPlaces == {"off", "loop", "ping", "pinged", "ended"}
UpdatePlaces == {"off", "loop", "push", "pushed", "rest", "ended"}

(* A step of flowerbed f to these values of its variables ... *)
StepTo(f, main, ping, update, fetches, pushes, new, list) ==
  /\ flowerbedMain' = At(flowerbedMain, f, main)
  /\ flowerbedPing' = At(flowerbedPing, f, ping)
  /\ flowerbedUpdate' = At(flowerbedUpdate, f, update)
  /\ fetchAttempts' = At(fetchAttempts, f, fetches)
  /\ pushAttempts' = At(pushAttempts, f, pushes)
  /\ newFlowers' = At(newFlowers, f, new)
  /\ response' = At(response, f, list)

(* ... which leaves the others where they are. *)
OthersStay(f) ==
  \A x \in Flowerbeds \ {f} :
    /\ flowerbedMain'[x] = flowerbedMain[x] /\ flowerbedPing'[x] = flowerbedPing[x]
    /\ flowerbedUpdate'[x] = flowerbedUpdate[x] /\ newFlowers'[x] = newFlowers[x]
    /\ response'[x] = response[x]

LEMMA FlowerbedsKept ==
  ASSUME FlowerbedsOK, NEW f \in Flowerbeds,
         NEW main \in MainPlaces, NEW ping \in PingPlaces, NEW update \in UpdatePlaces,
         NEW fetches \in 0..RetryAttempts, NEW pushes \in 0..RetryAttempts,
         NEW new \in SUBSET Flowers, NEW list \in Seq(Flowers),
         StepTo(f, main, ping, update, fetches, pushes, new, list),
         FlowerbedFits(main, update, fetches, pushes, new, list),
         flowerbedStopped' = flowerbedStopped \/ StopFlowerbed(f),
         flower_watering_counts' \in [Flowerbeds -> [Flowers -> Nat]]
  PROVE  /\ FlowerbedsOK' /\ OthersStay(f)
         /\ flowerbedMain'[f] = main /\ flowerbedPing'[f] = ping
         /\ flowerbedUpdate'[f] = update /\ newFlowers'[f] = new /\ response'[f] = list
<1>1. /\ flowerbedMain \in [Flowerbeds -> MainPlaces]
      /\ flowerbedPing \in [Flowerbeds -> PingPlaces]
      /\ flowerbedUpdate \in [Flowerbeds -> UpdatePlaces]
      /\ flowerbedStopped \in [Flowerbeds -> BOOLEAN]
      /\ fetchAttempts \in [Flowerbeds -> 0..RetryAttempts]
      /\ pushAttempts \in [Flowerbeds -> 0..RetryAttempts]
      /\ newFlowers \in [Flowerbeds -> SUBSET Flowers]
      /\ response \in [Flowerbeds -> Seq(Flowers)]
  BY DEF FlowerbedsOK, FlowerbedTypeOK, MainPlaces, PingPlaces, UpdatePlaces
<1>2. /\ flowerbedMain' \in [Flowerbeds -> MainPlaces] /\ flowerbedMain'[f] = main
      /\ \A x \in Flowerbeds \ {f} : flowerbedMain'[x] = flowerbedMain[x]
  BY <1>1 DEF At, StepTo
<1>3. /\ flowerbedPing' \in [Flowerbeds -> PingPlaces] /\ flowerbedPing'[f] = ping
      /\ \A x \in Flowerbeds \ {f} : flowerbedPing'[x] = flowerbedPing[x]
  BY <1>1 DEF At, StepTo
<1>4. /\ flowerbedUpdate' \in [Flowerbeds -> UpdatePlaces] /\ flowerbedUpdate'[f] = update
      /\ \A x \in Flowerbeds \ {f} : flowerbedUpdate'[x] = flowerbedUpdate[x]
  BY <1>1 DEF At, StepTo
<1>5. flowerbedStopped' \in [Flowerbeds -> BOOLEAN]
  BY <1>1 DEF At, StopFlowerbed
<1>6. /\ fetchAttempts' \in [Flowerbeds -> 0..RetryAttempts] /\ fetchAttempts'[f] = fetches
      /\ \A x \in Flowerbeds \ {f} : fetchAttempts'[x] = fetchAttempts[x]
  BY <1>1 DEF At, StepTo
<1>7. /\ pushAttempts' \in [Flowerbeds -> 0..RetryAttempts] /\ pushAttempts'[f] = pushes
      /\ \A x \in Flowerbeds \ {f} : pushAttempts'[x] = pushAttempts[x]
  BY <1>1 DEF At, StepTo
<1>8. /\ newFlowers' \in [Flowerbeds -> SUBSET Flowers] /\ newFlowers'[f] = new
      /\ \A x \in Flowerbeds \ {f} : newFlowers'[x] = newFlowers[x]
  BY <1>1 DEF At, StepTo
<1>9. /\ response' \in [Flowerbeds -> Seq(Flowers)] /\ response'[f] = list
      /\ \A x \in Flowerbeds \ {f} : response'[x] = response[x]
  BY <1>1 DEF At, StepTo
<1>10. FlowerbedTypeOK'
  BY <1>2, <1>3, <1>4, <1>5, <1>6, <1>7, <1>8, <1>9
     DEF FlowerbedTypeOK, MainPlaces, PingPlaces, UpdatePlaces
<1>11. \A x \in Flowerbeds :
         FlowerbedFits(flowerbedMain'[x], flowerbedUpdate'[x], fetchAttempts'[x],
                       pushAttempts'[x], newFlowers'[x], response'[x])
  <2> SUFFICES ASSUME NEW x \in Flowerbeds
               PROVE  FlowerbedFits(flowerbedMain'[x], flowerbedUpdate'[x], fetchAttempts'[x],
                                    pushAttempts'[x], newFlowers'[x], response'[x])
    OBVIOUS
  <2>1. CASE x = f
    BY <1>2, <1>4, <1>6, <1>7, <1>8, <1>9, <2>1
  <2>2. CASE x # f
    <3>1. FlowerbedFits(flowerbedMain[x], flowerbedUpdate[x], fetchAttempts[x],
                        pushAttempts[x], newFlowers[x], response[x])
      BY DEF FlowerbedsOK
    <3> QED
      BY <1>2, <1>4, <1>6, <1>7, <1>8, <1>9, <2>2, <3>1
  <2> QED
    BY <2>1, <2>2
<1>12. FlowerbedsOK'
  BY <1>10, <1>11 DEF FlowerbedsOK
<1> QED
  BY <1>2, <1>3, <1>4, <1>8, <1>9, <1>12 DEF OthersStay

(* Where the flowerbed is, as a step that changes nothing there has it. *)
LEMMA FlowerbedNow ==
  ASSUME FlowerbedsOK, NEW f \in Flowerbeds
  PROVE  /\ flowerbedMain = At(flowerbedMain, f, flowerbedMain[f])
         /\ flowerbedPing = At(flowerbedPing, f, flowerbedPing[f])
         /\ flowerbedUpdate = At(flowerbedUpdate, f, flowerbedUpdate[f])
         /\ fetchAttempts = At(fetchAttempts, f, fetchAttempts[f])
         /\ pushAttempts = At(pushAttempts, f, pushAttempts[f])
         /\ newFlowers = At(newFlowers, f, newFlowers[f])
         /\ response = At(response, f, response[f])
         /\ flowerbedMain[f] \in MainPlaces /\ flowerbedPing[f] \in PingPlaces
         /\ flowerbedUpdate[f] \in UpdatePlaces
         /\ fetchAttempts[f] \in 0..RetryAttempts /\ pushAttempts[f] \in 0..RetryAttempts
         /\ newFlowers[f] \in SUBSET Flowers /\ response[f] \in Seq(Flowers)
         /\ flower_watering_counts \in [Flowerbeds -> [Flowers -> Nat]]
         /\ FlowerbedFits(flowerbedMain[f], flowerbedUpdate[f], fetchAttempts[f],
                          pushAttempts[f], newFlowers[f], response[f])
         /\ 0 \in 0..RetryAttempts /\ 0 < RetryAttempts
<1>1. FlowerbedTypeOK
  BY DEF FlowerbedsOK
<1>2. 0 \in 0..RetryAttempts /\ 0 < RetryAttempts
  BY RetryAssumption
<1>3. /\ flowerbedMain = At(flowerbedMain, f, flowerbedMain[f])
      /\ flowerbedPing = At(flowerbedPing, f, flowerbedPing[f])
      /\ flowerbedUpdate = At(flowerbedUpdate, f, flowerbedUpdate[f])
      /\ fetchAttempts = At(fetchAttempts, f, fetchAttempts[f])
      /\ pushAttempts = At(pushAttempts, f, pushAttempts[f])
      /\ newFlowers = At(newFlowers, f, newFlowers[f])
      /\ response = At(response, f, response[f])
  BY <1>1 DEF FlowerbedTypeOK, At
<1> QED
  BY <1>1, <1>2, <1>3 DEF FlowerbedsOK, FlowerbedTypeOK, MainPlaces, PingPlaces, UpdatePlaces

(* pingServer *)
LEMMA FlowerbedPingMoves ==
  ASSUME SystemInv, NEW f \in Flowerbeds, PingLocks(f) \/ PingRuns(f)
  PROVE  CallMoves(f) /\ FlowerbedsOK' /\ OthersStay(f) /\ UNCHANGED <<mainVars, pushVars>>
<1>1. UNCHANGED <<mainVars, pushVars>>
  BY DEF PingLocks, PingRuns, PingAsFlowerbed, FlowerbedPingLoop, FlowerbedPinged
<1>2. FlowerbedsOK
  BY DEF SystemInv
<1>3. ASSUME NEW ping \in PingPlaces, flowerbedPing' = At(flowerbedPing, f, ping),
             flowerbedStopped' = flowerbedStopped \/ StopFlowerbed(f)
      PROVE  FlowerbedsOK' /\ OthersStay(f) /\ flowerbedPing'[f] = ping
  <2>1. StepTo(f, flowerbedMain[f], ping, flowerbedUpdate[f], fetchAttempts[f],
               pushAttempts[f], newFlowers[f], response[f])
    BY <1>1, <1>2, <1>3, FlowerbedNow DEF StepTo, mainVars, pushVars
  <2>2. flower_watering_counts' \in [Flowerbeds -> [Flowers -> Nat]]
    BY <1>1, <1>2, FlowerbedNow DEF mainVars
  <2> QED
    BY <1>2, <1>3, <2>1, <2>2, FlowerbedNow, FlowerbedsKept, ZenonT(60)
<1>4. {"loop", "ping", "pinged", "ended"} \subseteq PingPlaces
  BY DEF PingPlaces
<1>5. CASE PingAsFlowerbed(f)
  <2>1. BeginCall(f, "ping", Request("pingFlowerbed", f))
    BY <1>5 DEF PingAsFlowerbed
  <2>2. FlowerbedsOK' /\ OthersStay(f) /\ flowerbedPing'[f] = "pinged"
    BY <1>3, <1>4, <1>5 DEF PingAsFlowerbed
  <2> QED
    BY <1>1, <2>1, <2>2, BeginCallEffects, FlowerbedsMade DEF CallMoves, FlowerbedCalls
<1>6. CASE FlowerbedPingLoop(f)
  <2>1. CallMoves(f)
    BY <1>1, <1>6, FlowerbedsMade
       DEF FlowerbedPingLoop, CallMoves, FlowerbedCalls, mainVars, pushVars
  <2> QED
    BY <1>1, <1>3, <1>4, <1>6, <2>1 DEF FlowerbedPingLoop
<1>7. CASE FlowerbedPinged(f)
  <2>1. CallMoves(f)
    BY <1>7, FlowerbedsMade, ReturnMoves DEF FlowerbedPinged
  <2>2. \/ flowerbedPing' = At(flowerbedPing, f, "loop") /\ UNCHANGED flowerbedStopped
        \/ flowerbedPing' = At(flowerbedPing, f, "ended") /\ StopFlowerbed(f)
    BY <1>7 DEF FlowerbedPinged
  <2> QED
    BY <1>1, <1>3, <1>4, <2>1, <2>2
<1> QED
  BY <1>5, <1>6, <1>7 DEF PingLocks, PingRuns

(* updateFlowerStates *)
LEMMA FlowerbedPushMoves ==
  ASSUME SystemInv, NEW f \in Flowerbeds, PushLocks(f) \/ PushRuns(f)
  PROVE  /\ CallMoves(f) /\ FlowerbedsOK' /\ OthersStay(f)
         /\ UNCHANGED <<mainVars, flowerbedPing>>
<1>1. UNCHANGED <<mainVars, flowerbedPing>>
  BY DEF PushLocks, PushRuns, PushFlowers, LeavePushing, ChooseFlowers, Pushed, EndRest
<1>2. FlowerbedsOK
  BY DEF SystemInv
<1>3. ASSUME NEW update \in UpdatePlaces, flowerbedUpdate' = At(flowerbedUpdate, f, update),
             NEW pushes \in 0..RetryAttempts, pushAttempts' = At(pushAttempts, f, pushes),
             NEW new \in SUBSET Flowers, newFlowers' = At(newFlowers, f, new),
             flowerbedStopped' = flowerbedStopped \/ StopFlowerbed(f),
             flowerbedUpdate[f] # "off",
             update \in {"push", "pushed"} => pushes < RetryAttempts,
             update \notin {"push", "pushed"} => new = {}
      PROVE  /\ FlowerbedsOK' /\ OthersStay(f)
             /\ flowerbedUpdate'[f] = update /\ newFlowers'[f] = new
  <2>1. StepTo(f, flowerbedMain[f], flowerbedPing[f], update, fetchAttempts[f],
               pushes, new, response[f])
    BY <1>1, <1>2, <1>3, FlowerbedNow DEF StepTo, mainVars
  <2>2. flower_watering_counts' \in [Flowerbeds -> [Flowers -> Nat]]
    BY <1>1, <1>2, FlowerbedNow DEF mainVars
  <2>3. FlowerbedFits(flowerbedMain[f], update, fetchAttempts[f], pushes, new, response[f])
    BY <1>2, <1>3, FlowerbedNow DEF FlowerbedFits
  <2>4. /\ flowerbedMain[f] \in MainPlaces /\ flowerbedPing[f] \in PingPlaces
        /\ fetchAttempts[f] \in 0..RetryAttempts /\ response[f] \in Seq(Flowers)
    BY <1>2, FlowerbedNow
  <2>5. /\ update \in UpdatePlaces /\ pushes \in 0..RetryAttempts /\ new \in SUBSET Flowers
        /\ flowerbedStopped' = flowerbedStopped \/ StopFlowerbed(f)
    BY <1>3
  <2> QED
    BY <1>2, <2>1, <2>2, <2>3, <2>4, <2>5, FlowerbedsKept, ZenonT(60)
<1>4. {"loop", "push", "pushed", "rest", "ended"} \subseteq UpdatePlaces /\ {} \in SUBSET Flowers
  BY DEF UpdatePlaces
<1>5. /\ pushAttempts = At(pushAttempts, f, pushAttempts[f])
      /\ newFlowers = At(newFlowers, f, newFlowers[f])
      /\ pushAttempts[f] \in 0..RetryAttempts /\ newFlowers[f] \in SUBSET Flowers
      /\ flowerbedUpdate[f] \in {"push", "pushed"} => pushAttempts[f] < RetryAttempts
      /\ flowerbedUpdate[f] \notin {"push", "pushed"} => newFlowers[f] = {}
  BY <1>2, FlowerbedNow DEF FlowerbedFits
<1>6. CASE PushFlowers(f)
  <2>1. BeginCall(f, "update", ToWaterRequest(f, newFlowers[f])) /\ newFlowers' = newFlowers
    BY <1>6 DEF PushFlowers
  <2>2. FlowerbedsOK' /\ OthersStay(f) /\ flowerbedUpdate'[f] = "pushed"
    BY <1>3, <1>4, <1>5, <1>6 DEF PushFlowers
  <2> QED
    BY <1>1, <2>1, <2>2, BeginCallEffects, FlowerbedsMade DEF CallMoves, FlowerbedCalls
<1>7. CASE LeavePushing(f)
  <2>1. CallMoves(f)
    BY <1>1, <1>7, FlowerbedsMade DEF LeavePushing, CallMoves, FlowerbedCalls, mainVars
  <2> QED
    BY <1>1, <1>3, <1>4, <1>5, <1>7, <2>1 DEF LeavePushing
<1>8. CASE ChooseFlowers(f)
  <2>1. CallMoves(f)
    BY <1>1, <1>8, FlowerbedsMade DEF ChooseFlowers, CallMoves, FlowerbedCalls, mainVars
  <2> QED
    BY <1>1, <1>3, <1>4, <1>5, <1>8, <2>1 DEF ChooseFlowers
<1>9. CASE Pushed(f)
  <2>1. CallMoves(f)
    BY <1>9, FlowerbedsMade, ReturnMoves DEF Pushed
  <2>2. pushAttempts[f] + 1 \in 0..RetryAttempts
    BY <1>5, <1>9, RetryAssumption DEF Pushed
  <2>3. 0 \in 0..RetryAttempts
    BY <1>2, FlowerbedNow
  <2> QED
    BY <1>1, <1>3, <1>4, <1>5, <1>9, <2>1, <2>2, <2>3 DEF Pushed
<1>10. CASE EndRest(f)
  <2>1. CallMoves(f)
    BY <1>1, <1>10, FlowerbedsMade DEF EndRest, CallMoves, FlowerbedCalls, mainVars
  <2> QED
    BY <1>1, <1>3, <1>4, <1>5, <1>10, <2>1 DEF EndRest
<1> QED
  BY <1>6, <1>7, <1>8, <1>9, <1>10 DEF PushLocks, PushRuns

(* start: the first ping, which starts the threads, and the loop that fetches. *)
LEMMA FlowerbedMainMoves ==
  ASSUME SystemInv, NEW f \in Flowerbeds, MainLocks(f) \/ MainRuns(f)
  PROVE  CallMoves(f) /\ FlowerbedsOK' /\ OthersStay(f) /\ UNCHANGED newFlowers
<1>1. UNCHANGED <<pushAttempts, newFlowers>>
  BY DEF MainLocks, MainRuns, FirstPing, FetchUpdates, FirstPinged, FetchLoop, Fetched,
         HandleUpdate, pushVars
<1>2. FlowerbedsOK
  BY DEF SystemInv
<1>3. /\ flowerbedMain[f] \in MainPlaces /\ flowerbedPing[f] \in PingPlaces
      /\ flowerbedUpdate[f] \in UpdatePlaces
      /\ fetchAttempts[f] \in 0..RetryAttempts /\ pushAttempts[f] \in 0..RetryAttempts
      /\ newFlowers[f] \in SUBSET Flowers /\ response[f] \in Seq(Flowers)
      /\ flower_watering_counts \in [Flowerbeds -> [Flowers -> Nat]]
      /\ FlowerbedFits(flowerbedMain[f], flowerbedUpdate[f], fetchAttempts[f],
                       pushAttempts[f], newFlowers[f], response[f])
      /\ 0 \in 0..RetryAttempts /\ 0 < RetryAttempts
  BY <1>2, FlowerbedNow
<1>4. /\ {"firstPinged", "loop", "fetch", "fetched", "handle", "ended"} \subseteq MainPlaces
      /\ "loop" \in PingPlaces /\ "loop" \in UpdatePlaces
  BY DEF MainPlaces, PingPlaces, UpdatePlaces
<1>5. ASSUME NEW main \in MainPlaces, flowerbedMain' = At(flowerbedMain, f, main),
             UNCHANGED <<flowerbedPing, flowerbedUpdate>>,
             NEW fetches \in 0..RetryAttempts, fetchAttempts' = At(fetchAttempts, f, fetches),
             NEW list \in Seq(Flowers), response' = At(response, f, list),
             flower_watering_counts' \in [Flowerbeds -> [Flowers -> Nat]],
             flowerbedStopped' = flowerbedStopped \/ StopFlowerbed(f),
             main # "firstPing",
             main = "firstPinged" => flowerbedMain[f] = "firstPing",
             main = "handle" <=> list # <<>>,
             main \in {"fetch", "fetched"} => fetches < RetryAttempts
      PROVE  FlowerbedsOK' /\ OthersStay(f) /\ flowerbedMain'[f] = main
  <2>1. StepTo(f, main, flowerbedPing[f], flowerbedUpdate[f], fetches,
               pushAttempts[f], newFlowers[f], list)
    BY <1>1, <1>2, <1>5, FlowerbedNow DEF StepTo
  <2>2. FlowerbedFits(main, flowerbedUpdate[f], fetches, pushAttempts[f], newFlowers[f], list)
    BY <1>3, <1>5 DEF FlowerbedFits
  <2> QED
    BY <1>2, <1>3, <1>5, <2>1, <2>2, FlowerbedsKept
<1>6. /\ fetchAttempts = At(fetchAttempts, f, fetchAttempts[f])
      /\ response = At(response, f, response[f])
      /\ flowerbedMain[f] = "handle" <=> response[f] # <<>>
      /\ flowerbedMain[f] \in {"fetch", "fetched"} => fetchAttempts[f] < RetryAttempts
  BY <1>2, <1>3, FlowerbedNow DEF FlowerbedFits
<1>7. CASE FirstPing(f)
  <2>1. BeginCall(f, "main", Request("pingFlowerbed", f))
    BY <1>7 DEF FirstPing
  <2>2. FlowerbedsOK' /\ OthersStay(f) /\ flowerbedMain'[f] = "firstPinged"
    BY <1>3, <1>4, <1>5, <1>6, <1>7 DEF FirstPing, pushVars
  <2> QED
    BY <1>1, <2>1, <2>2, BeginCallEffects, FlowerbedsMade DEF CallMoves, FlowerbedCalls
<1>8. CASE FetchUpdates(f)
  <2>1. BeginCall(f, "main", Request("getUpdates", f))
    BY <1>8 DEF FetchUpdates
  <2>2. FlowerbedsOK' /\ OthersStay(f) /\ flowerbedMain'[f] = "fetched"
    BY <1>3, <1>4, <1>5, <1>6, <1>8 DEF FetchUpdates, pushVars
  <2> QED
    BY <1>1, <2>1, <2>2, BeginCallEffects, FlowerbedsMade DEF CallMoves, FlowerbedCalls
<1>9. CASE FirstPinged(f)
  <2>1. CallMoves(f)
    BY <1>9, FlowerbedsMade, ReturnMoves DEF FirstPinged
  <2>2. CASE /\ flowerbedMain' = At(flowerbedMain, f, "loop")
             /\ flowerbedPing' = At(flowerbedPing, f, "loop")
             /\ flowerbedUpdate' = At(flowerbedUpdate, f, "loop")
             /\ UNCHANGED flowerbedStopped
    <3>1. StepTo(f, "loop", "loop", "loop", fetchAttempts[f], pushAttempts[f],
                 newFlowers[f], response[f])
      BY <1>1, <1>2, <1>9, <2>2, FlowerbedNow DEF StepTo, FirstPinged
    <3>2. FlowerbedFits("loop", "loop", fetchAttempts[f], pushAttempts[f], newFlowers[f],
                        response[f])
      BY <1>3, <1>9 DEF FirstPinged, FlowerbedFits
    <3>3. flower_watering_counts' = flower_watering_counts
      BY <1>9 DEF FirstPinged
    <3> QED
      BY <1>1, <1>2, <1>3, <1>4, <2>1, <2>2, <3>1, <3>2, <3>3, FlowerbedsKept
  <2>3. CASE /\ flowerbedMain' = At(flowerbedMain, f, "ended")
             /\ StopFlowerbed(f)
             /\ UNCHANGED <<flowerbedPing, flowerbedUpdate>>
    BY <1>1, <1>3, <1>4, <1>5, <1>6, <1>9, <2>1, <2>3 DEF FirstPinged
  <2> QED
    BY <1>9, <2>2, <2>3 DEF FirstPinged
<1>10. CASE FetchLoop(f)
  <2>1. CallMoves(f)
    BY <1>1, <1>10, FlowerbedsMade DEF FetchLoop, CallMoves, FlowerbedCalls, pushVars
  <2>2. CASE fetchAttempts[f] >= RetryAttempts \/ flowerbedStopped[f]
    BY <1>1, <1>3, <1>4, <1>5, <1>6, <1>10, <2>1, <2>2, ZenonT(60) DEF FetchLoop, pushVars
  <2>3. CASE ~ (fetchAttempts[f] >= RetryAttempts) /\ ~ flowerbedStopped[f]
    <3>1. fetchAttempts[f] < RetryAttempts
      BY <1>3, <2>3, RetryAssumption
    <3> QED
      BY <1>1, <1>3, <1>4, <1>5, <1>6, <1>10, <2>1, <2>3, <3>1 DEF FetchLoop, pushVars
  <2> QED
    BY <2>2, <2>3
<1>11. CASE Fetched(f)
  <2>1. CallMoves(f) /\ flowerbedMain[f] = "fetched" /\ socket[f].stage = "ended"
    BY <1>11, FlowerbedsMade, ReturnMoves DEF Fetched, Returned
  <2>2. response[f] = <<>> /\ fetchAttempts[f] + 1 \in 0..RetryAttempts
    BY <1>3, <1>6, <2>1, RetryAssumption
  <2>3. ASSUME /\ socket[f].outcome.kind = "reply"
               /\ "updates" \in DOMAIN socket[f].outcome.answer
        PROVE  socket[f].outcome.answer.updates \in Seq(Flowers) \ {<<>>}
    <3>1. \/ socket[f].outcome = Exception
          \/ \E text : socket[f].outcome = Reply(Text(f, text))
          \/ \E i \in Flowers \cup {-1} : socket[f].outcome = Reply(FlowerAnswer(f, i))
          \/ socket[f].outcome = Nullopt
          \/ \E list \in Seq(Flowers) \ {<<>>} : socket[f].outcome = Reply(UpdatesAnswer(f, list))
      BY <2>1, OutcomeForms, FlowerbedsMade
    <3>2. socket[f].outcome # Exception /\ socket[f].outcome # Nullopt
      BY <2>3 DEF Exception, Nullopt
    <3>3. \A text : socket[f].outcome # Reply(Text(f, text))
      BY <2>3 DEF Reply, Text
    <3>4. \A i : socket[f].outcome # Reply(FlowerAnswer(f, i))
      BY <2>3 DEF Reply, FlowerAnswer
    <3>5. PICK list \in Seq(Flowers) \ {<<>>} : socket[f].outcome = Reply(UpdatesAnswer(f, list))
      BY <3>1, <3>2, <3>3, <3>4
    <3>6. socket[f].outcome.answer.updates = list
      BY <3>5 DEF Reply, UpdatesAnswer
    <3> QED
      BY <3>6
  <2>4. UNCHANGED <<flowerbedPing, flowerbedUpdate, flower_watering_counts, flowerbedStopped>>
    BY <1>11 DEF Fetched, pushVars
  <2>5. CASE /\ fetchAttempts' = At(fetchAttempts, f, fetchAttempts[f] + 1)
             /\ flowerbedMain' = At(flowerbedMain, f, "loop") /\ UNCHANGED response
    BY <1>1, <1>3, <1>4, <1>5, <1>6, <2>1, <2>2, <2>4, <2>5, ZenonT(60)
  <2>6. CASE /\ flowerbedMain' = At(flowerbedMain, f, "loop")
             /\ UNCHANGED <<fetchAttempts, response>>
    BY <1>1, <1>3, <1>4, <1>5, <1>6, <2>1, <2>2, <2>4, <2>6, ZenonT(60)
  <2>7. CASE /\ fetchAttempts' = At(fetchAttempts, f, 0)
             /\ flowerbedMain' = At(flowerbedMain, f, "loop") /\ UNCHANGED response
    BY <1>1, <1>3, <1>4, <1>5, <1>6, <2>1, <2>2, <2>4, <2>7, ZenonT(60)
  <2>8. CASE /\ socket[f].outcome.kind = "reply"
             /\ "updates" \in DOMAIN socket[f].outcome.answer
             /\ response' = At(response, f, socket[f].outcome.answer.updates)
             /\ flowerbedMain' = At(flowerbedMain, f, "handle") /\ UNCHANGED fetchAttempts
    BY <1>1, <1>3, <1>4, <1>5, <1>6, <2>1, <2>3, <2>4, <2>8, ZenonT(60)
  <2> QED
    BY <1>11, <2>5, <2>6, <2>7, <2>8 DEF Fetched
<1>12. CASE HandleUpdate(f)
  <2> DEFINE i     == Head(response[f])
             count == flower_watering_counts[f][i] + 1
             rest  == IF count > 1 THEN <<>> ELSE Tail(response[f])
  <2>1. /\ flowerbedMain[f] = "handle" /\ response[f] # <<>>
        /\ UNCHANGED <<flowerbedPing, flowerbedUpdate, socket>>
    BY <1>6, <1>12 DEF HandleUpdate, pushVars
  <2>2. CallMoves(f)
    BY <1>1, <1>12, FlowerbedsMade DEF HandleUpdate, CallMoves, FlowerbedCalls, pushVars
  <2>3. i \in Flowers /\ Tail(response[f]) \in Seq(Flowers)
    BY <1>3, <2>1
  <2>4. count \in Nat /\ rest \in Seq(Flowers)
    BY <1>3, <2>3
  <2>5. /\ flower_watering_counts' = [flower_watering_counts EXCEPT ![f][i] = count]
        /\ response' = At(response, f, rest)
        /\ flowerbedStopped' = flowerbedStopped \/ StopFlowerbed(f)
        /\ \/ /\ rest = <<>>
              /\ flowerbedMain' = At(flowerbedMain, f, "loop")
              /\ fetchAttempts' = At(fetchAttempts, f, 0)
           \/ rest # <<>> /\ UNCHANGED <<flowerbedMain, fetchAttempts>>
    BY <1>12 DEF HandleUpdate
  <2> HIDE DEF rest, count, i
  <2>6. flower_watering_counts' \in [Flowerbeds -> [Flowers -> Nat]]
    BY <1>3, <2>3, <2>4, <2>5
  <2>7. flowerbedMain = At(flowerbedMain, f, "handle")
    BY <1>2, <2>1, FlowerbedNow
  <2> QED
    BY <1>1, <1>3, <1>4, <1>5, <1>6, <2>1, <2>2, <2>4, <2>5, <2>6, <2>7
<1> QED
  BY <1>7, <1>8, <1>9, <1>10, <1>11, <1>12 DEF MainLocks, MainRuns

-----------------------------------------------------------------------------
(* A step of a gardener's thread keeps the invariant ... *)
LEMMA GardenerKeeps ==
  ASSUME SystemInv, NEW g \in Gardeners,
         \/ GardenerStep(g, PingerLocks(g)) \/ GardenerStep(g, PingerRuns(g))
         \/ GardenerStep(g, WatererLocks(g)) \/ GardenerStep(g, WatererRuns(g))
  PROVE  SystemInv'
<1>1. /\ PingerLocks(g) \/ PingerRuns(g) \/ WatererLocks(g) \/ WatererRuns(g)
      /\ waterings' = IF IsTelling(g)
                        THEN [waterings EXCEPT ![flower_index[g]] = @ + 1]
                        ELSE waterings
      /\ UNCHANGED <<flowerbedThreads, asked, late, budget>> /\ ServerIsQuiet
  BY DEF GardenerStep
<1>2. /\ CallMoves(g) /\ GardenersOK'
      /\ \A x \in Gardeners \ {g} :
           /\ gardenerPing'[x] = gardenerPing[x] /\ gardenerWater'[x] = gardenerWater[x]
           /\ flower_index'[x] = flower_index[x]
  BY <1>1, PingerMoves, WatererMoves
<1>3. AppInv' /\ ListsFit' /\ handler' = handler
  BY <1>1, QuietKeeps
<1>4. UNCHANGED <<flowerbedMain, flowerbedPing, flowerbedUpdate, newFlowers>>
  BY <1>1 DEF flowerbedThreads, mainVars, pushVars
<1>5. SocketsOK' /\ HandlerFits'
  <2>1. \A x \in Ids \ {g} : socket'[x] = socket[x] /\ IsMade(x) => IsMade(x)'
    BY <1>2, <1>4 DEF IsMade, GardenerCalls, FlowerbedCalls
  <2> QED
    BY <1>2, <1>3, <2>1, CallMovesKeep, GardenersMade
<1>6. FlowerbedsOK'
  BY <1>1 DEF SystemInv, FlowerbedsOK, FlowerbedTypeOK, flowerbedThreads, mainVars, pushVars
<1>7. CountsOK'
  <2>1. waterings \in [Flowers -> Nat]
    BY DEF SystemInv, CountsOK
  <2>2. waterings' \in [Flowers -> Nat]
    <3>1. CASE IsTelling(g)
      <4>1. flower_index[g] \in Flowers
        BY <3>1 DEF IsTelling, SystemInv, GardenersOK
      <4> QED
        BY <1>1, <2>1, <3>1, <4>1
    <3> QED
      BY <1>1, <2>1, <3>1
  <2> QED
    BY <1>1, <2>2 DEF SystemInv, CountsOK, budget
<1>8. LateOK'
  BY <1>1 DEF SystemInv, LateOK
<1> QED
  BY <1>2, <1>3, <1>5, <1>6, <1>7, <1>8 DEF SystemInv

(* ... and so does one of a flowerbed's. *)
LEMMA FlowerbedMoves ==
  ASSUME SystemInv, NEW f \in Flowerbeds,
         \/ MainLocks(f) \/ MainRuns(f) \/ PingLocks(f) \/ PingRuns(f)
         \/ PushLocks(f) \/ PushRuns(f)
  PROVE  CallMoves(f) /\ FlowerbedsOK' /\ OthersStay(f)
  BY FlowerbedMainMoves, FlowerbedPingMoves, FlowerbedPushMoves

LEMMA FlowerbedKeeps ==
  ASSUME SystemInv, NEW f \in Flowerbeds,
         \/ FlowerbedStep(f, MainLocks(f)) \/ FlowerbedStep(f, MainRuns(f))
         \/ FlowerbedStep(f, PingLocks(f)) \/ FlowerbedStep(f, PingRuns(f))
         \/ FlowerbedStep(f, PushLocks(f)) \/ FlowerbedStep(f, PushRuns(f))
  PROVE  SystemInv'
<1>1. /\ \/ MainLocks(f) \/ MainRuns(f) \/ PingLocks(f) \/ PingRuns(f)
         \/ PushLocks(f) \/ PushRuns(f)
      /\ asked' = [flower \in Flowers |->
                     IF flower \in newFlowers'[f] \ newFlowers[f]
                       THEN asked[flower] + 1 ELSE asked[flower]]
      /\ \A flower \in Flowers : asked'[flower] <= MaxAsks
      /\ UNCHANGED <<gardenerThreads, waterings, late, budget>> /\ ServerIsQuiet
  BY DEF FlowerbedStep
<1>2. CallMoves(f) /\ FlowerbedsOK' /\ OthersStay(f)
  BY <1>1, FlowerbedMoves
<1>3. AppInv' /\ ListsFit' /\ handler' = handler
  BY <1>1, QuietKeeps
<1>4. UNCHANGED <<gardenerPing, gardenerWater, flower_index>>
  BY <1>1 DEF gardenerThreads, wateringVars
<1>5. SocketsOK' /\ HandlerFits'
  <2>1. \A x \in Ids \ {f} : socket'[x] = socket[x] /\ IsMade(x) => IsMade(x)'
    BY <1>2, <1>4 DEF IsMade, GardenerCalls, FlowerbedCalls, OthersStay
  <2> QED
    BY <1>2, <1>3, <2>1, CallMovesKeep, FlowerbedsMade
<1>6. GardenersOK'
  BY <1>1 DEF SystemInv, GardenersOK, GardenerTypeOK, gardenerThreads, wateringVars
<1>7. CountsOK'
  <2>1. asked \in [Flowers -> 0..MaxAsks]
    BY DEF SystemInv, CountsOK
  <2>2. asked' \in [Flowers -> 0..MaxAsks]
    BY <1>1, <2>1, SystemAssumption
  <2> QED
    BY <1>1, <2>2 DEF SystemInv, CountsOK, budget
<1>8. LateOK'
  BY <1>1 DEF SystemInv, LateOK
<1> QED
  BY <1>2, <1>3, <1>5, <1>6, <1>7, <1>8 DEF SystemInv

-----------------------------------------------------------------------------
(* The system at its start. *)
LEMMA InitSystemInv == SystemInit => SystemInv
<1> SUFFICES ASSUME SystemInit PROVE SystemInv
  OBVIOUS
<1>1. AppInv
  BY InitAppInv DEF SystemInit
<1>2. SocketsOK /\ LateOK
  BY DEF SystemInit, SocketsOK, LateOK
<1>3. handler = Idle /\ updates = <<>> /\ \A c \in Ids : socket[c] = Free
  BY DEF SystemInit, AppInit
<1>4. HandlerFits /\ ListsFit
  <2>1. HandlerFits
    BY <1>3 DEF HandlerFits, Free
  <2> QED
    BY <1>3, <2>1, PeriodAssumption DEF ListsFit
<1>5. GardenersOK
  BY RetryAssumption DEF SystemInit, GardenerInit, GardenerLocals, GardenersOK, GardenerTypeOK
<1>6. FlowerbedsOK
  BY RetryAssumption
     DEF SystemInit, FlowerbedInit, FlowerbedLocals, FlowerbedsOK, FlowerbedTypeOK, FlowerbedFits
<1>7. CountsOK
  BY SystemAssumption DEF SystemInit, CountsOK
<1> QED
  BY <1>1, <1>2, <1>4, <1>5, <1>6, <1>7 DEF SystemInv

LEMMA StutterSystemInv ==
  ASSUME SystemInv, UNCHANGED systemVars
  PROVE  SystemInv'
<1>1. /\ UNCHANGED <<socket, late, clientThreads, budget, history, appState>>
  BY DEF systemVars, appVars
<1>2. UNCHANGED <<updates, flowersToWater, handler>>
  BY <1>1 DEF appState, boardVars
<1>3. BoardOK'
  BY <1>2 DEF SystemInv, AppInv, BoardOK, HandlerOK
<1>4. AppInv'
  BY <1>1, <1>3, ElsewhereKeeps DEF SystemInv, AppInv, TimesOK, appState, IsStamps
<1>5. GardenersOK' /\ FlowerbedsOK' /\ CountsOK'
  BY <1>1, ThreadsKeep DEF SystemInv, CountsOK, budget
<1>6. SocketsOK' /\ LateOK'
  BY <1>1 DEF SystemInv, SocketsOK, LateOK, IsMade, GardenerCalls, FlowerbedCalls, clientThreads,
              gardenerThreads, wateringVars, flowerbedThreads, mainVars, pushVars
<1>7. HandlerFits' /\ ListsFit'
  <2>1. HandlerFits'
    BY <1>1, <1>2, HandlerUndisturbed DEF SystemInv
  <2> QED
    BY <1>2, <2>1 DEF SystemInv, ListsFit
<1> QED
  BY <1>4, <1>5, <1>6, <1>7 DEF SystemInv

LEMMA NextSystemInv == SystemInv /\ [SystemNext]_systemVars => SystemInv'
  BY ServerTakesKeeps, ServerContinuesKeeps, WorkerKeeps, RequestLostKeeps, CallTimesOutKeeps,
     GardenerKeeps, FlowerbedKeeps, StutterSystemInv DEF SystemNext

(* What holds of every call, thread and list in every reachable state. *)
THEOREM SystemInvariant == SystemSpec => []SystemInv
  BY InitSystemInv, NextSystemInv, PTL DEF SystemSpec

(* Type correctness of server and clients together; the retry loops of gardeners and
   flowerbeds make no more attempts than they are allowed. *)
THEOREM SystemTypeCorrect == SystemSpec => []SystemTypeOK
<1>1. SystemInv => SystemTypeOK
  <2> SUFFICES ASSUME SystemInv PROVE SystemTypeOK
    OBVIOUS
  <2>1. AppTypeOK
    <3>1. gardener_count \in 0..MaxGardeners
      BY FS_CardinalityType, SeatsAssumption DEF SystemInv, AppInv, SeatsOK
    <3> QED
      BY <3>1 DEF SystemInv, AppInv, TimesOK, BoardOK, HandlerOK, SeatsOK, AppTypeOK
  <2>2. /\ DOMAIN socket = Ids /\ DOMAIN late = Ids
        /\ \A c \in Ids :
             /\ socket[c].stage \in {"free", "sent", "taken", "lost", "ended"}
             /\ late[c] \in {NoAnswer} \cup ProgramAnswers(c)
    BY DEF SystemInv, SocketsOK, LateOK, IsPending, IsOver, Free
  <2> QED
    BY <2>1, <2>2 DEF SystemInv, GardenersOK, FlowerbedsOK, CountsOK, SystemTypeOK
<1> QED
  BY <1>1, SystemInvariant, PTL

-----------------------------------------------------------------------------
(* Counting.  A set that shrinks, gains or loses an element. *)
LEMMA CountShrinks ==
  ASSUME NEW S, NEW T, IsFiniteSet(S), T \subseteq S
  PROVE  /\ IsFiniteSet(T)
         /\ Cardinality(T) \in Nat /\ Cardinality(S) \in Nat
         /\ Cardinality(T) <= Cardinality(S)
  BY FS_Subset, FS_CardinalityType

LEMMA CountGains ==
  ASSUME NEW S, NEW T, IsFiniteSet(S), NEW x, T \subseteq S \cup {x}
  PROVE  /\ IsFiniteSet(T)
         /\ Cardinality(T) \in Nat /\ Cardinality(S) \in Nat
         /\ Cardinality(T) <= Cardinality(S) + 1
<1>1. /\ IsFiniteSet(S \cup {x}) /\ Cardinality(S) \in Nat
      /\ Cardinality(S \cup {x}) <= Cardinality(S) + 1
  <2>1. Cardinality(S) \in Nat
    BY FS_CardinalityType
  <2>2. CASE x \in S
    <3>1. S \cup {x} = S
      BY <2>2
    <3> QED
      BY <2>1, <3>1
  <2>3. CASE x \notin S
    <3>1. IsFiniteSet(S \cup {x})
      BY FS_AddElement
    <3>2. Cardinality(S \cup {x}) = Cardinality(S) + 1
      BY <2>3, FS_AddElement
    <3> QED
      BY <2>1, <3>1, <3>2
  <2> QED
    BY <2>2, <2>3
<1>2. /\ IsFiniteSet(T) /\ Cardinality(T) \in Nat /\ Cardinality(S \cup {x}) \in Nat
      /\ Cardinality(T) <= Cardinality(S \cup {x})
  BY <1>1, CountShrinks
<1> QED
  BY <1>1, <1>2

LEMMA CountLoses ==
  ASSUME NEW S, NEW T, IsFiniteSet(S), NEW x \in S, T \subseteq S \ {x}
  PROVE  /\ IsFiniteSet(T)
         /\ Cardinality(T) \in Nat /\ Cardinality(S) \in Nat
         /\ Cardinality(T) + 1 <= Cardinality(S)
<1>1. /\ IsFiniteSet(S \ {x}) /\ Cardinality(S) \in Nat
      /\ Cardinality(S \ {x}) = Cardinality(S) - 1
  BY FS_RemoveElement, FS_CardinalityType
<1>2. /\ IsFiniteSet(T) /\ Cardinality(T) \in Nat /\ Cardinality(S \ {x}) \in Nat
      /\ Cardinality(T) <= Cardinality(S \ {x})
  BY <1>1, CountShrinks
<1> QED
  BY <1>1, <1>2

(* An injective image has as many elements. *)
LEMMA CountOfImage ==
  ASSUME NEW S, NEW T, NEW F \in [S -> T], IsFiniteSet(S),
         \A x, y \in S : F[x] = F[y] => x = y,
         \A t \in T : \E x \in S : F[x] = t
  PROVE  IsFiniteSet(T) /\ Cardinality(T) = Cardinality(S)
<1>1. F \in Bijection(S, T)
  BY DEF Bijection, Injection, Surjection, IsInjective
<1> QED
  BY <1>1, FS_Bijection DEF ExistsBijection

(* How often a flower is in a list. *)
LEMMA WhereOK ==
  ASSUME NEW flower, NEW list \in Seq(Flowers)
  PROVE  /\ Where(flower, list) \subseteq 1..Len(list)
         /\ IsFiniteSet(Where(flower, list)) /\ Times(flower, list) \in Nat
<1>1. Where(flower, list) \subseteq 1..Len(list)
  BY DEF Where
<1>2. IsFiniteSet(1..Len(list))
  BY FS_Interval
<1> QED
  BY <1>1, <1>2, CountShrinks DEF Times

LEMMA TimesEmpty == \A flower : Times(flower, <<>>) = 0
<1> SUFFICES ASSUME NEW flower PROVE Cardinality(Where(flower, <<>>)) = 0
  BY DEF Times
<1>1. Where(flower, <<>>) = {}
  BY DEF Where
<1> QED
  BY <1>1, FS_EmptySet

LEMMA TimesAppend ==
  ASSUME NEW flower, NEW list \in Seq(Flowers), NEW x \in Flowers
  PROVE  Times(flower, Append(list, x)) =
           IF x = flower THEN Times(flower, list) + 1 ELSE Times(flower, list)
<1> DEFINE longer == Append(list, x)
           last   == Len(list) + 1
<1>1. /\ DOMAIN longer = 1..last /\ longer[last] = x /\ DOMAIN list = 1..Len(list)
      /\ \A i \in 1..Len(list) : longer[i] = list[i]
      /\ 1..last = (1..Len(list)) \cup {last} /\ last \notin 1..Len(list)
  OBVIOUS
<1>2. Where(flower, longer) =
        IF x = flower THEN Where(flower, list) \cup {last} ELSE Where(flower, list)
  <2> HIDE DEF longer, last
  <2> QED
    BY <1>1 DEF Where
<1>3. last \notin Where(flower, list) /\ IsFiniteSet(Where(flower, list))
  BY <1>1, WhereOK
<1> HIDE DEF longer, last
<1>4. Cardinality(Where(flower, list) \cup {last}) = Cardinality(Where(flower, list)) + 1
  BY <1>3, FS_AddElement
<1>5. Times(flower, longer) = IF x = flower THEN Times(flower, list) + 1 ELSE Times(flower, list)
  BY <1>2, <1>4 DEF Times
<1> QED
  BY <1>5 DEF longer

LEMMA TimesTail ==
  ASSUME NEW flower, NEW list \in Seq(Flowers), list # <<>>
  PROVE  Times(flower, list) =
           IF Head(list) = flower THEN Times(flower, Tail(list)) + 1
                                  ELSE Times(flower, Tail(list))
<1> DEFINE tail  == Where(flower, Tail(list))
           later == {i \in Where(flower, list) : i # 1}
<1>1. /\ Tail(list) \in Seq(Flowers) /\ Len(Tail(list)) = Len(list) - 1
      /\ Len(list) \in Nat /\ Len(list) > 0
      /\ \A i \in 1..Len(list) - 1 : Tail(list)[i] = list[i + 1]
      /\ Head(list) = list[1] /\ DOMAIN list = 1..Len(list)
      /\ DOMAIN Tail(list) = 1..Len(list) - 1
  OBVIOUS
<1>2. \A i \in tail : i \in Nat /\ i + 1 \in later
  <2> SUFFICES ASSUME NEW i \in tail PROVE i \in Nat /\ i + 1 \in later
    OBVIOUS
  <2>1. i \in 1..Len(list) - 1 /\ Tail(list)[i] = flower
    BY <1>1 DEF Where
  <2>2. i + 1 \in 1..Len(list) /\ i + 1 # 1 /\ list[i + 1] = flower
    BY <1>1, <2>1
  <2> QED
    BY <1>1, <2>1, <2>2 DEF Where
<1>3. \A j \in later : j \in Nat /\ j - 1 \in tail
  <2> SUFFICES ASSUME NEW j \in later PROVE j \in Nat /\ j - 1 \in tail
    OBVIOUS
  <2>1. j \in 1..Len(list) /\ j # 1 /\ list[j] = flower
    BY <1>1 DEF Where
  <2>2. j - 1 \in 1..Len(list) - 1 /\ j - 1 + 1 = j
    BY <1>1, <2>1
  <2>3. Tail(list)[j - 1] = flower
    BY <1>1, <2>1, <2>2
  <2> QED
    BY <1>1, <2>1, <2>2, <2>3 DEF Where
<1>4. IsFiniteSet(tail) /\ Cardinality(tail) \in Nat
  BY <1>1, WhereOK DEF Times
<1>5. 1 \in Where(flower, list) <=> Head(list) = flower
  BY <1>1 DEF Where
<1>6. Where(flower, list) = IF Head(list) = flower THEN later \cup {1} ELSE later
  BY <1>5
<1>7. 1 \notin later
  OBVIOUS
<1> HIDE DEF tail, later
<1>8. IsFiniteSet(later) /\ Cardinality(later) = Cardinality(tail)
  <2> DEFINE F == [i \in tail |-> i + 1]
  <2>1. F \in [tail -> later]
    BY <1>2
  <2>2. \A x, y \in tail : F[x] = F[y] => x = y
    BY <1>2
  <2>3. \A j \in later : \E i \in tail : F[i] = j
    <3> SUFFICES ASSUME NEW j \in later PROVE \E i \in tail : F[i] = j
      OBVIOUS
    <3>1. F[j - 1] = j - 1 + 1 /\ j - 1 + 1 = j
      BY <1>3
    <3> QED
      BY <1>3, <3>1
  <2> HIDE DEF F
  <2> QED
    BY <1>4, <2>1, <2>2, <2>3, CountOfImage
<1>9. Cardinality(later \cup {1}) = Cardinality(later) + 1
  BY <1>7, <1>8, FS_AddElement
<1> QED
  BY <1>6, <1>8, <1>9 DEF Times, tail

-----------------------------------------------------------------------------
(* Where a flower is, and where a report of its watering is, decided client by
   client: the clients that have no part in a step keep their places. *)
OthersRest(c) ==
  \A x \in Ids \ {c} : socket'[x] = socket[x] /\ (ToBeDone(x)' <=> ToBeDone(x))

(* The answer reaches the client, is left over or lost; the one that was left over
   stays or ends the call. *)
Delivered(c) ==
  /\ \A x \in Ids \ {c} : late'[x] = late[x]
  /\ \/ /\ late'[c] = late[c]
        /\ socket'[c].stage = "ended" => socket'[c].outcome \in {OutcomeOf(answer'), Exception}
     \/ /\ late'[c] \in {answer', NoAnswer}
        /\ socket'[c].stage = "ended" => socket'[c].outcome = OutcomeOf(late[c])

ThreadsRest(c) ==
  /\ \A g \in Gardeners \ {c} :
       gardenerWater'[g] = gardenerWater[g] /\ flower_index'[g] = flower_index[g]
  /\ \A f \in Flowerbeds \ {c} :
       /\ flowerbedUpdate'[f] = flowerbedUpdate[f] /\ newFlowers'[f] = newFlowers[f]
       /\ response'[f] = response[f]
       /\ flower_watering_counts'[f] = flower_watering_counts[f]

LEMMA CallsElsewhere ==
  ASSUME SystemInv, NEW c \in Ids, socket' = [socket EXCEPT ![c] = socket'[c]],
         handler' = handler \/ handler = Idle \/ socket[c].stage = "taken"
  PROVE  OthersRest(c)
<1> SUFFICES ASSUME NEW x \in Ids \ {c}
             PROVE  socket'[x] = socket[x] /\ (ToBeDone(x)' <=> ToBeDone(x))
  BY DEF OthersRest
<1>1. socket'[x] = socket[x]
  BY DEF SystemInv, SocketsOK
<1>2. handler' = handler \/ socket[x].stage # "taken"
  BY DEF SystemInv, HandlerFits
<1> QED
  BY <1>1, <1>2 DEF ToBeDone

LEMMA PlacesElsewhere ==
  ASSUME NEW c, OthersRest(c), ThreadsRest(c), NEW flower
  PROVE  /\ \A f \in Flowerbeds \ {c} :
              /\ f \in Naming(flower)' <=> f \in Naming(flower)
              /\ Bringing(f)' = Bringing(f)
         /\ \A g \in Gardeners \ {c} :
              /\ g \in Holding(flower)' <=> g \in Holding(flower)
              /\ g \in Telling(flower)' <=> g \in Telling(flower)
<1>1. ASSUME NEW f \in Flowerbeds \ {c}
      PROVE  /\ f \in Naming(flower)' <=> f \in Naming(flower)
             /\ Bringing(f)' = Bringing(f)
  <2>1. f \in Ids \ {c}
    BY DEF Ids
  <2>2. socket'[f] = socket[f] /\ (ToBeDone(f)' <=> ToBeDone(f))
    BY <2>1 DEF OthersRest
  <2>3. flowerbedUpdate'[f] = flowerbedUpdate[f] /\ newFlowers'[f] = newFlowers[f]
    BY DEF ThreadsRest
  <2> QED
    BY <2>2, <2>3 DEF Naming, Asks, Bringing
<1>2. ASSUME NEW g \in Gardeners \ {c}
      PROVE  /\ g \in Holding(flower)' <=> g \in Holding(flower)
             /\ g \in Telling(flower)' <=> g \in Telling(flower)
  <2>1. g \in Ids \ {c}
    BY DEF Ids
  <2>2. socket'[g] = socket[g] /\ (ToBeDone(g)' <=> ToBeDone(g))
    BY <2>1 DEF OthersRest
  <2>3. gardenerWater'[g] = gardenerWater[g] /\ flower_index'[g] = flower_index[g]
    BY DEF ThreadsRest
  <2> QED
    BY <2>2, <2>3 DEF Telling, Holding, Asks, Brings
<1> QED
  BY <1>1, <1>2

LEMMA PlacesFinite ==
  ASSUME NEW flower
  PROVE  /\ Naming(flower) \subseteq Flowerbeds /\ IsFiniteSet(Naming(flower))
         /\ Naming(flower)' \subseteq Flowerbeds
         /\ Holding(flower) \subseteq Gardeners /\ IsFiniteSet(Holding(flower))
         /\ Holding(flower)' \subseteq Gardeners
         /\ Left(flower) \subseteq Gardeners /\ IsFiniteSet(Left(flower))
         /\ Left(flower)' \subseteq Gardeners
         /\ Telling(flower) \subseteq Gardeners /\ IsFiniteSet(Telling(flower))
         /\ Telling(flower)' \subseteq Gardeners
<1>1. /\ Naming(flower) \subseteq Flowerbeds /\ Naming(flower)' \subseteq Flowerbeds
      /\ Holding(flower) \subseteq Gardeners /\ Holding(flower)' \subseteq Gardeners
      /\ Left(flower) \subseteq Gardeners /\ Left(flower)' \subseteq Gardeners
      /\ Telling(flower) \subseteq Gardeners /\ Telling(flower)' \subseteq Gardeners
  BY DEF Naming, Holding, Left, Telling
<1>2. IsFiniteSet(Gardeners) /\ IsFiniteSet(Flowerbeds)
  BY ProgramAssumption
<1> QED
  BY <1>1, <1>2, CountShrinks

-----------------------------------------------------------------------------
(* The server's first critical section, and the ways a call fails: nobody gets a
   flower or a report, and what has reached the board is not to be done again. *)
FirstHalf(c) == ServerTakes(c) \/ RequestLost(c) \/ CallTimesOut(c)

LEMMA DeliverMoves ==
  ASSUME SystemInv, NEW c \in Ids, IsPending(socket[c]), Deliver(c)
  PROVE  Delivered(c)
<1>1. /\ late' = [late EXCEPT ![c] = late'[c]]
      /\ \/ late'[c] = late[c] /\ socket'[c].stage # "ended"
         \/ late'[c] = late[c] /\ socket'[c] = Ended(socket[c], OutcomeOf(answer'))
         \/ /\ late'[c] \in {answer', NoAnswer}
            /\ socket'[c] = Ended(socket[c], OutcomeOf(late[c]))
         \/ late'[c] = answer' /\ socket'[c].stage # "ended"
  BY DeliverEffects
<1>2. \A x \in Ids \ {c} : late'[x] = late[x]
  BY <1>1 DEF SystemInv, LateOK
<1> QED
  BY <1>1, <1>2 DEF Delivered, Ended

LEMMA FirstHalfMoves ==
  ASSUME SystemInv, NEW c \in Ids, FirstHalf(c)
  PROVE  /\ OthersRest(c) /\ UNCHANGED <<clientThreads, history, boardVars>>
         /\ repetitionsLeft' \in Int /\ repetitionsLeft' <= repetitionsLeft
         /\ socket[c] # Free /\ socket[c].stage # "ended" /\ socket'[c] # Free
         /\ socket'[c].request = socket[c].request
         /\ ToBeDone(c)' => ToBeDone(c)
         /\ Delivered(c) /\ (answer' = NoAnswer \/ \E text : answer' = Text(c, text))
<1>0. repetitionsLeft \in Nat
  BY SystemAssumption DEF SystemInv, CountsOK
<1>1. CASE ServerTakes(c)
  <2>1. socket[c].stage = "sent" /\ socket[c] # Free /\ IsPending(socket[c])
    BY <1>1 DEF ServerTakes, SystemInv, SocketsOK, IsOver, Free
  <2>2. HandleMessage(socket[c].request) /\ Deliver(c) /\ UNCHANGED <<clientThreads, history>>
    BY <1>1 DEF ServerTakes
  <2>3. /\ handler = Idle /\ UNCHANGED boardVars
        /\ \/ handler' = Idle /\ \E text : answer' = Text(c, text)
           \/ handler' = Busy("serve", socket[c].request, <<>>) /\ answer' = NoAnswer
    BY <2>1, <2>2, MessageReplies
  <2>4. OthersRest(c)
    BY <2>1, <2>2, <2>3, DeliverEffects, CallsElsewhere
  <2>5. repetitionsLeft' \in Int /\ repetitionsLeft' <= repetitionsLeft
    BY <1>0, <2>1, <2>2, DeliverEffects DEF budget
  <2>6. Delivered(c)
    BY <2>1, <2>2, DeliverMoves
  <2>7. socket'[c] # Free /\ socket'[c].request = socket[c].request
    <3>1. \/ socket'[c].request = socket[c].request
             /\ socket'[c].stage \in {"sent", "taken", "lost"}
          \/ socket'[c] = Ended(socket[c], OutcomeOf(answer'))
          \/ socket'[c] = Ended(socket[c], OutcomeOf(late[c]))
      BY <2>1, <2>2, DeliverEffects
    <3>2. ASSUME NEW outcome, socket'[c] = Ended(socket[c], outcome)
          PROVE  socket'[c].request = socket[c].request /\ socket'[c].stage = "ended"
      BY <3>2 DEF Ended
    <3>3. socket'[c].request = socket[c].request /\ socket'[c].stage # "free"
      BY <3>1, <3>2
    <3> QED
      BY <3>3 DEF Free
  <2> QED
    BY <2>1, <2>2, <2>3, <2>4, <2>5, <2>6, <2>7 DEF ToBeDone
<1>2. CASE RequestLost(c)
  <2>1. /\ socket[c].stage = "sent" /\ Lost(c) /\ ServerIsQuiet
        /\ UNCHANGED <<clientThreads, history>>
    BY <1>2 DEF RequestLost
  <2>2. IsPending(socket[c]) /\ socket[c] # Free /\ c \in DOMAIN socket /\ c \in DOMAIN late
    BY <2>1 DEF SystemInv, SocketsOK, LateOK, IsOver, Free
  <2>3. UNCHANGED <<handler, boardVars, repetitionsLeft>> /\ answer' = NoAnswer
    BY <2>1, QuietKeeps DEF boardVars, Lost, ServerIsQuiet
  <2>4. /\ socket' = [socket EXCEPT ![c] = socket'[c]] /\ Delivered(c)
        /\ socket'[c].stage \in {"lost", "ended"} /\ socket'[c] # Free
        /\ socket'[c].request = socket[c].request
    <3>1. CASE late[c] = NoAnswer /\ UNCHANGED late
               /\ Set(c, [socket[c] EXCEPT !.stage = "lost"])
      <4>1. /\ socket' = [socket EXCEPT ![c] = socket'[c]]
            /\ socket'[c] = [socket[c] EXCEPT !.stage = "lost"]
        BY <2>2, <3>1 DEF Set
      <4>2. socket'[c].stage = "lost" /\ socket'[c].request = socket[c].request
        BY <2>2, <4>1 DEF IsPending
      <4> QED
        BY <3>1, <4>1, <4>2 DEF Delivered, Free
    <3>2. CASE late[c] # NoAnswer /\ EndsWith(c, late[c]) /\ Leave(c, NoAnswer)
      <4>1. /\ socket' = [socket EXCEPT ![c] = socket'[c]]
            /\ socket'[c] = Ended(socket[c], OutcomeOf(late[c]))
        BY <2>2, <3>2 DEF EndsWith, Set
      <4>2. late'[c] = NoAnswer /\ \A x \in Ids \ {c} : late'[x] = late[x]
        BY <2>2, <3>2 DEF Leave, SystemInv, LateOK
      <4>3. socket'[c].stage = "ended" /\ socket'[c].outcome = OutcomeOf(late[c])
            /\ socket'[c].request = socket[c].request
        BY <4>1 DEF Ended
      <4> QED
        BY <4>1, <4>2, <4>3 DEF Delivered, Free
    <3> QED
      BY <2>1, <3>1, <3>2 DEF Lost
  <2>5. OthersRest(c)
    BY <2>3, <2>4, CallsElsewhere
  <2> QED
    BY <1>0, <2>1, <2>2, <2>3, <2>4, <2>5 DEF ToBeDone
<1>3. CASE CallTimesOut(c)
  <2>1. /\ socket[c].stage = "lost" /\ socket[c] # Free /\ c \in DOMAIN socket
        /\ UNCHANGED <<late, clientThreads, history, repetitionsLeft>> /\ ServerIsQuiet
        /\ socket' = [socket EXCEPT ![c] = Ended(socket[c], Exception)]
    BY <1>3 DEF CallTimesOut, Set, Free, budget, SystemInv, SocketsOK
  <2>2. UNCHANGED <<handler, boardVars>> /\ answer' = NoAnswer
    BY <2>1, QuietKeeps DEF boardVars, ServerIsQuiet
  <2>3. /\ socket' = [socket EXCEPT ![c] = socket'[c]]
        /\ socket'[c] = Ended(socket[c], Exception)
    BY <2>1
  <2>4. OthersRest(c)
    BY <2>2, <2>3, CallsElsewhere
  <2>5. /\ socket'[c] # Free /\ socket'[c].request = socket[c].request
        /\ ~ ToBeDone(c)' /\ Delivered(c)
    BY <2>1, <2>3 DEF Ended, Free, ToBeDone, Delivered
  <2> QED
    BY <1>0, <2>1, <2>2, <2>4, <2>5
<1> QED
  BY <1>1, <1>2, <1>3 DEF FirstHalf

(* The second critical section: of one call that is to be done, one thing is done;
   whoever does not get the answer asks again, from the budget of repetitions, or
   has lost the answer for good. *)
LEMMA SecondHalfMoves ==
  ASSUME SystemInv, ServerContinues,
         NEW request, request = handler.request, NEW c, c = request.id
  PROVE  /\ c \in Ids /\ OthersRest(c) /\ UNCHANGED <<clientThreads, history>>
         /\ socket[c] # Free /\ socket[c].stage = "taken" /\ socket[c].request = request
         /\ socket'[c] # Free /\ socket'[c].request = request
         /\ repetitionsLeft' \in Int
         /\ \/ repetitionsLeft' = repetitionsLeft /\ ~ ToBeDone(c)'
            \/ repetitionsLeft' = repetitionsLeft - 1 /\ socket'[c].stage # "ended"
         /\ Delivered(c)
         /\ handler.at = "serve" => ToBeDone(c)
         /\ \/ /\ request.route = "getUpdates" /\ UNCHANGED boardVars
               /\ socket'[c].stage = "taken" /\ late'[c] = late[c]
            \/ /\ request.route = "getUpdates" /\ answer' = UpdatesAnswer(c, updates)
               /\ updates' = <<>> /\ UNCHANGED flowersToWater
            \/ /\ request.route = "getFlower" /\ answer' = FlowerAnswer(c, -1)
               /\ UNCHANGED boardVars
            \/ \E flower \in flowersToWater :
               /\ request.route = "getFlower" /\ answer' = FlowerAnswer(c, flower)
               /\ flowersToWater' = flowersToWater \ {flower} /\ UNCHANGED updates
            \/ /\ handler.at = "serve" /\ request.route = "water"
               /\ answer' = Text(c, "OK")
               /\ updates' = Append(updates, request.index) /\ UNCHANGED flowersToWater
            \/ /\ handler.at = "serve" /\ request.route = "toWater"
               /\ answer' = Text(c, "OK")
               /\ flowersToWater' = flowersToWater \cup request.flowers
               /\ UNCHANGED updates
<1>1. ContinueHandler /\ Deliver(c) /\ UNCHANGED <<clientThreads, history>>
  BY DEF ServerContinues
<1>2. /\ c \in Ids /\ socket[c].stage = "taken" /\ socket[c] # Free
      /\ socket[c].request = request /\ IsPending(socket[c])
  BY <1>1, TakenCall
<1>3. repetitionsLeft \in Nat
  BY SystemAssumption DEF SystemInv, CountsOK
<1>4. /\ socket' = [socket EXCEPT ![c] = socket'[c]]
      /\ \/ /\ answer' = NoAnswer /\ UNCHANGED <<late, repetitionsLeft>>
            /\ socket'[c].stage = "taken" /\ socket'[c].request = socket[c].request
         \/ /\ answer' # NoAnswer /\ UNCHANGED repetitionsLeft
            /\ \/ socket'[c] = Ended(socket[c], OutcomeOf(answer'))
               \/ socket'[c] = Ended(socket[c], OutcomeOf(late[c]))
         \/ /\ answer' # NoAnswer /\ UNCHANGED repetitionsLeft
            /\ socket'[c].stage = "lost" /\ socket'[c].request = socket[c].request
         \/ /\ answer' # NoAnswer /\ repetitionsLeft' = repetitionsLeft - 1
            /\ socket'[c].stage = "sent" /\ socket'[c].request = socket[c].request
  BY <1>1, <1>2, DeliverEffects DEF budget
<1>5. OthersRest(c)
  BY <1>2, <1>4, CallsElsewhere
<1>6. socket'[c] # Free /\ socket'[c].request = request /\ Delivered(c)
  BY <1>1, <1>2, <1>4, DeliverMoves DEF Ended, Free
<1>7. handler'.at # "serve"
  BY <1>1, HandlerReplies DEF Busy, Idle
<1>8. \/ repetitionsLeft' = repetitionsLeft /\ ~ ToBeDone(c)'
      \/ repetitionsLeft' = repetitionsLeft - 1 /\ socket'[c].stage # "ended"
  BY <1>4, <1>7 DEF ToBeDone, Ended
<1>9. repetitionsLeft' \in Int
  BY <1>3, <1>4
<1>10. handler.at = "serve" => ToBeDone(c)
  BY <1>2 DEF ToBeDone
<1>11. answer' = NoAnswer => socket'[c].stage = "taken" /\ late'[c] = late[c]
  BY <1>4
<1>12. \/ /\ request.route = "getUpdates" /\ UNCHANGED boardVars
          /\ socket'[c].stage = "taken" /\ late'[c] = late[c]
       \/ /\ request.route = "getUpdates" /\ answer' = UpdatesAnswer(c, updates)
          /\ updates' = <<>> /\ UNCHANGED flowersToWater
       \/ /\ request.route = "getFlower" /\ answer' = FlowerAnswer(c, -1)
          /\ UNCHANGED boardVars
       \/ \E flower \in flowersToWater :
          /\ request.route = "getFlower" /\ answer' = FlowerAnswer(c, flower)
          /\ flowersToWater' = flowersToWater \ {flower} /\ UNCHANGED updates
       \/ /\ handler.at = "serve" /\ request.route = "water"
          /\ answer' = Text(c, "OK")
          /\ updates' = Append(updates, request.index) /\ UNCHANGED flowersToWater
       \/ /\ handler.at = "serve" /\ request.route = "toWater"
          /\ answer' = Text(c, "OK")
          /\ flowersToWater' = flowersToWater \cup request.flowers
          /\ UNCHANGED updates
  BY <1>1, <1>11, HandlerReplies
<1> QED
  BY <1>1, <1>2, <1>5, <1>6, <1>8, <1>9, <1>10, <1>12

-----------------------------------------------------------------------------
(* A flower makes for one watering at most: the ledger of one flower. *)
Kept(flower) == Cardinality(Holding(flower)) + Cardinality(Left(flower))

FlowerOnce(flower) ==
  Cardinality(Naming(flower)) + Cardinality({flower} \cap flowersToWater)
    + Kept(flower) + waterings[flower] <= asked[flower] + Repeated

LEMMA OnBoard ==
  ASSUME NEW flower, NEW B
  PROVE  Cardinality({flower} \cap B) = IF flower \in B THEN 1 ELSE 0
<1>1. CASE flower \in B
  <2>1. {flower} \cap B = {flower}
    BY <1>1
  <2> QED
    BY <1>1, <2>1, FS_Singleton
<1>2. CASE flower \notin B
  <2>1. {flower} \cap B = {}
    BY <1>2
  <2> QED
    BY <1>2, <2>1, FS_EmptySet
<1> QED
  BY <1>1, <1>2

LEMMA KeptIsNat ==
  ASSUME NEW flower
  PROVE  /\ Cardinality(Holding(flower)) \in Nat /\ Cardinality(Left(flower)) \in Nat
         /\ Kept(flower) \in Nat
<1>1. /\ Cardinality(Holding(flower)) \in Nat /\ Cardinality(Left(flower)) \in Nat
  BY PlacesFinite, FS_CardinalityType
<1> QED
  BY <1>1 DEF Kept

LEMMA KeptStays ==
  ASSUME NEW flower, Holding(flower)' \subseteq Holding(flower),
         Left(flower)' \subseteq Left(flower)
  PROVE  Kept(flower) \in Nat /\ Kept(flower)' \in Nat /\ Kept(flower)' <= Kept(flower)
<1>1. /\ Cardinality(Holding(flower)') \in Nat /\ Cardinality(Holding(flower)) \in Nat
      /\ Cardinality(Holding(flower)') <= Cardinality(Holding(flower))
  BY PlacesFinite, CountShrinks
<1>2. /\ Cardinality(Left(flower)') \in Nat /\ Cardinality(Left(flower)) \in Nat
      /\ Cardinality(Left(flower)') <= Cardinality(Left(flower))
  BY PlacesFinite, CountShrinks
<1> QED
  BY <1>1, <1>2 DEF Kept

LEMMA KeptLoses ==
  ASSUME NEW flower, NEW g \in Holding(flower), Left(flower)' \subseteq Left(flower),
         Holding(flower)' \subseteq Holding(flower) \ {g}
  PROVE  /\ Kept(flower) \in Nat /\ Kept(flower)' \in Nat
         /\ Kept(flower)' <= Kept(flower) + -1
<1>1. /\ Cardinality(Holding(flower)') \in Nat /\ Cardinality(Holding(flower)) \in Nat
      /\ Cardinality(Holding(flower)') + 1 <= Cardinality(Holding(flower))
  BY PlacesFinite, CountLoses
<1>2. /\ Cardinality(Left(flower)') \in Nat /\ Cardinality(Left(flower)) \in Nat
      /\ Cardinality(Left(flower)') <= Cardinality(Left(flower))
  BY PlacesFinite, CountShrinks
<1> QED
  BY <1>1, <1>2 DEF Kept

(* The flower of an answer comes to be held or left over, one that was left over
   comes to be held or is dropped. *)
LEMMA KeptDelivered ==
  ASSUME NEW c \in Ids, OthersRest(c), UNCHANGED clientThreads, Delivered(c), NEW flower
  PROVE  /\ Kept(flower) \in Nat /\ Kept(flower)' \in Nat
         /\ Kept(flower)' <= Kept(flower) + 1
         /\ answer' # FlowerAnswer(c, flower) => Kept(flower)' <= Kept(flower)
<1> DEFINE given == answer' = FlowerAnswer(c, flower)
           h     == Cardinality(Holding(flower))
           h1    == Cardinality(Holding(flower)')
           l     == Cardinality(Left(flower))
           l1    == Cardinality(Left(flower)')
<1>1. ThreadsRest(c)
  BY DEF ThreadsRest, clientThreads, gardenerThreads, wateringVars, flowerbedThreads,
         mainVars, pushVars
<1>2. Holding(flower)' \subseteq Holding(flower) \cup {c}
  BY <1>1, PlacesElsewhere, PlacesFinite
<1>3. Left(flower)' \subseteq Left(flower) \cup {c}
  BY DEF Delivered, Left, Ids
<1>4. /\ OutcomeOf(answer') = Reply(FlowerAnswer(c, flower)) => given
      /\ OutcomeOf(late[c]) = Reply(FlowerAnswer(c, flower)) => late[c] = FlowerAnswer(c, flower)
      /\ Exception # Reply(FlowerAnswer(c, flower)) /\ NoAnswer # FlowerAnswer(c, flower)
  BY DEF OutcomeOf, Reply, Nullopt, Exception, NoAnswer, FlowerAnswer
<1>5. c \in Holding(flower)' => c \in Holding(flower) \/ Brings(c, {FlowerAnswer(c, flower)})'
  BY DEF Holding, clientThreads, gardenerThreads, wateringVars
<1>6. CASE /\ late'[c] = late[c]
           /\ socket'[c].stage = "ended" =>
                socket'[c].outcome \in {OutcomeOf(answer'), Exception}
  <2>1. Left(flower)' \subseteq Left(flower)
    BY <1>3, <1>6 DEF Left
  <2>2. ~ given => Holding(flower)' \subseteq Holding(flower)
    BY <1>2, <1>4, <1>5, <1>6 DEF Brings
  <2>3. h1 \in Nat /\ h \in Nat /\ h1 <= h + 1
    BY <1>2, PlacesFinite, CountGains
  <2>4. l1 \in Nat /\ l \in Nat /\ l1 <= l
    BY <2>1, PlacesFinite, CountShrinks
  <2>5. ~ given => h1 <= h
    BY <2>2, PlacesFinite, CountShrinks
  <2> HIDE DEF h, h1, l, l1, given
  <2>6. /\ h + l \in Nat /\ h1 + l1 \in Nat /\ h1 + l1 <= h + l + 1
        /\ ~ given => h1 + l1 <= h + l
    BY <2>3, <2>4, <2>5
  <2> QED
    BY <2>6 DEF Kept, h, h1, l, l1, given
<1>7. CASE /\ late'[c] \in {answer', NoAnswer}
           /\ socket'[c].stage = "ended" => socket'[c].outcome = OutcomeOf(late[c])
  <2>1. c \in Left(flower)' => given
    BY <1>4, <1>7 DEF Left
  <2>2. c \in Holding(flower)' => c \in Holding(flower) \/ c \in Left(flower)
    BY <1>4, <1>5, <1>7 DEF Brings, Left, Holding
  <2>3. h1 \in Nat /\ h \in Nat /\ h1 <= h + 1
    BY <1>2, PlacesFinite, CountGains
  <2>4. l1 \in Nat /\ l \in Nat /\ l1 <= l + 1
    BY <1>3, PlacesFinite, CountGains
  <2>5. c \notin Left(flower) => h1 <= h
    <3>1. c \notin Left(flower) => Holding(flower)' \subseteq Holding(flower)
      BY <1>2, <2>2
    <3> QED
      BY <3>1, PlacesFinite, CountShrinks
  <2>6. c \in Left(flower) => l1 <= l
    <3>1. c \in Left(flower) => Left(flower)' \subseteq Left(flower)
      BY <1>3
    <3> QED
      BY <3>1, PlacesFinite, CountShrinks
  <2>7. ~ given /\ c \in Left(flower) => l1 + 1 <= l
    <3>1. ~ given => Left(flower)' \subseteq Left(flower) \ {c}
      BY <1>3, <2>1
    <3> QED
      BY <3>1, PlacesFinite, CountLoses
  <2>8. ~ given /\ c \notin Left(flower) => l1 <= l
    <3>1. ~ given => Left(flower)' \subseteq Left(flower)
      BY <1>3, <2>1
    <3> QED
      BY <3>1, PlacesFinite, CountShrinks
  <2> DEFINE left == c \in Left(flower)
  <2> HIDE DEF h, h1, l, l1, given, left
  <2>9. /\ h1 \in Nat /\ h \in Nat /\ l1 \in Nat /\ l \in Nat
        /\ h1 <= h + 1 /\ l1 <= l + 1
        /\ ~ left => h1 <= h
        /\ left => l1 <= l
        /\ ~ given /\ left => l1 + 1 <= l
        /\ ~ given /\ ~ left => l1 <= l
    BY <2>3, <2>4, <2>5, <2>6, <2>7, <2>8, Zenon DEF left
  <2>10. /\ h + l \in Nat /\ h1 + l1 \in Nat /\ h1 + l1 <= h + l + 1
         /\ ~ given => h1 + l1 <= h + l
    BY <2>9
  <2> QED
    BY <2>10 DEF Kept, h, h1, l, l1, given
<1> QED
  BY <1>6, <1>7 DEF Delivered

(* The ledger balances when what is named, on the board, held and watered grows by
   no more than what was asked for and what is repeated. *)
LEMMA FlowerBalance ==
  ASSUME SystemInv, NEW flower \in Flowers, FlowerOnce(flower),
         NEW dn \in Int, NEW db \in Int, NEW dh \in Int, NEW dw \in Int, NEW da \in Int,
         Cardinality(Naming(flower)') \in Nat,
         Cardinality(Naming(flower)') <= Cardinality(Naming(flower)) + dn,
         Cardinality({flower} \cap flowersToWater')
           <= Cardinality({flower} \cap flowersToWater) + db,
         Kept(flower)' \in Nat,
         Kept(flower)' <= Kept(flower) + dh,
         waterings'[flower] = waterings[flower] + dw,
         asked'[flower] = asked[flower] + da,
         repetitionsLeft' \in Int,
         dn + db + dh + dw <= da + (repetitionsLeft - repetitionsLeft')
  PROVE  FlowerOnce(flower)'
<1>1. Cardinality(Naming(flower)) \in Nat /\ Kept(flower) \in Nat
  BY PlacesFinite, KeptIsNat, FS_CardinalityType
<1>2. /\ Cardinality({flower} \cap flowersToWater) \in 0..1
      /\ Cardinality({flower} \cap flowersToWater') \in 0..1
  BY OnBoard
<1>3. /\ waterings[flower] \in Nat /\ asked[flower] \in Int /\ repetitionsLeft \in Int
      /\ Repetitions \in Int
  BY SystemAssumption DEF SystemInv, CountsOK
<1> DEFINE n  == Cardinality(Naming(flower))
           b  == Cardinality({flower} \cap flowersToWater)
           h  == Kept(flower)
           w  == waterings[flower]
           a  == asked[flower]
           n1 == Cardinality(Naming(flower)')
           b1 == Cardinality({flower} \cap flowersToWater')
           h1 == Kept(flower)'
           w1 == waterings'[flower]
           a1 == asked'[flower]
           r1 == repetitionsLeft'
<1>4. n + b + h + w <= a + (Repetitions - repetitionsLeft)
  BY DEF FlowerOnce, Repeated
<1>5. /\ n \in Int /\ b \in Int /\ h \in Int /\ n1 \in Int /\ b1 \in Int /\ h1 \in Int
      /\ n1 <= n + dn /\ b1 <= b + db /\ h1 <= h + dh
  BY <1>1, <1>2
<1>6. /\ w \in Int /\ a \in Int /\ w1 = w + dw /\ a1 = a + da /\ r1 \in Int
      /\ dn + db + dh + dw <= da + (repetitionsLeft - r1)
  <2>1. w \in Int /\ a \in Int
    BY <1>3
  <2>2. /\ w1 = w + dw /\ a1 = a + da /\ r1 \in Int
        /\ dn + db + dh + dw <= da + (repetitionsLeft - r1)
    BY ZenonT(60)
  <2> QED
    BY <2>1, <2>2, Zenon
<1> HIDE DEF n, b, h, w, a, n1, b1, h1, w1, a1, r1
<1>7. n1 + b1 + h1 + w1 <= a1 + (Repetitions - r1)
  <2>1. w1 \in Int /\ a1 \in Int
    BY <1>6
  <2>2. n + b + h + w + repetitionsLeft <= a + Repetitions
    BY <1>3, <1>4, <1>5, <1>6
  <2>3. n1 + b1 + h1 + w1 <= (n + b + h + w) + (dn + db + dh + dw)
    BY <1>5, <1>6
  <2>4. (n + b + h + w) + (dn + db + dh + dw) <= a1 + (Repetitions - r1)
    BY <1>3, <1>5, <1>6, <2>2
  <2> QED
    BY <1>3, <1>5, <1>6, <2>1, <2>3, <2>4
<1> QED
  BY <1>7 DEF n1, b1, h1, w1, a1, r1, FlowerOnce, Repeated

(* Nothing comes in anywhere. *)
LEMMA FlowerStays ==
  ASSUME SystemInv, NEW flower \in Flowers, FlowerOnce(flower),
         Naming(flower)' \subseteq Naming(flower),
         Kept(flower)' \in Nat, Kept(flower)' <= Kept(flower),
         flower \in flowersToWater' => flower \in flowersToWater,
         waterings'[flower] = waterings[flower], asked'[flower] = asked[flower],
         repetitionsLeft' \in Int, repetitionsLeft' <= repetitionsLeft
  PROVE  FlowerOnce(flower)'
<1>1. /\ Cardinality(Naming(flower)') \in Nat
      /\ Cardinality(Naming(flower)') <= Cardinality(Naming(flower)) + 0
      /\ Kept(flower)' <= Kept(flower) + 0
  <2>1. /\ Cardinality(Naming(flower)') \in Nat /\ Cardinality(Naming(flower)) \in Nat
        /\ Cardinality(Naming(flower)') <= Cardinality(Naming(flower))
    BY PlacesFinite, CountShrinks
  <2>2. Kept(flower)' <= Kept(flower) + 0
    BY KeptIsNat
  <2> QED
    BY <2>1, <2>2
<1>2. Cardinality({flower} \cap flowersToWater')
        <= Cardinality({flower} \cap flowersToWater) + 0
  BY OnBoard
<1>3. waterings[flower] \in Int /\ asked[flower] \in Int /\ repetitionsLeft \in Int
  BY SystemAssumption DEF SystemInv, CountsOK
<1>4. waterings'[flower] = waterings[flower] + 0 /\ asked'[flower] = asked[flower] + 0
  BY <1>3
<1>5. 0 \in Int
  OBVIOUS
<1>6. 0 + 0 + 0 + 0 <= 0 + (repetitionsLeft - repetitionsLeft')
  <2>1. \A r, r1 \in Int : r1 <= r => 0 + 0 + 0 + 0 <= 0 + (r - r1)
    OBVIOUS
  <2> QED
    BY <1>3, <2>1, Zenon
<1> QED
  BY <1>1, <1>2, <1>4, <1>5, <1>6, FlowerBalance, Zenon

LEMMA FlowerOfFirstHalf ==
  ASSUME SystemInv, NEW c \in Ids, FirstHalf(c), NEW flower \in Flowers, FlowerOnce(flower)
  PROVE  FlowerOnce(flower)'
<1>1. /\ OthersRest(c) /\ UNCHANGED <<clientThreads, history, boardVars>>
      /\ repetitionsLeft' \in Int /\ repetitionsLeft' <= repetitionsLeft
      /\ socket[c] # Free /\ socket'[c] # Free
      /\ socket'[c].request = socket[c].request
      /\ ToBeDone(c)' => ToBeDone(c)
      /\ Delivered(c) /\ (answer' = NoAnswer \/ \E text : answer' = Text(c, text))
  BY FirstHalfMoves
<1>2. ThreadsRest(c)
  BY <1>1 DEF ThreadsRest, clientThreads, gardenerThreads, wateringVars, flowerbedThreads,
              mainVars, pushVars
<1>3. c \in Naming(flower)' => c \in Naming(flower)
  BY <1>1 DEF Naming, Asks, clientThreads, flowerbedThreads, pushVars
<1>4. answer' # FlowerAnswer(c, flower)
  BY <1>1 DEF Text, FlowerAnswer, NoAnswer
<1>5. Kept(flower)' \in Nat /\ Kept(flower)' <= Kept(flower)
  BY <1>1, <1>4, KeptDelivered
<1>6. Naming(flower)' \subseteq Naming(flower)
  BY <1>1, <1>2, <1>3, PlacesElsewhere, PlacesFinite
<1> QED
  BY <1>1, <1>5, <1>6, FlowerStays DEF boardVars, history

(* Flowers reach the board from the flowerbed that names them, or a gardener is
   given one, which then is off the board. *)
LEMMA FlowerOfSecondHalf ==
  ASSUME SystemInv, ServerContinues, NEW flower \in Flowers, FlowerOnce(flower)
  PROVE  FlowerOnce(flower)'
<1> SUFFICES ASSUME NEW request, request = handler.request, NEW c, c = request.id
             PROVE  FlowerOnce(flower)'
  OBVIOUS
<1>1. /\ c \in Ids /\ OthersRest(c) /\ UNCHANGED <<clientThreads, history>>
      /\ socket[c] # Free /\ socket[c].stage = "taken" /\ socket[c].request = request
      /\ socket'[c] # Free /\ socket'[c].request = request
      /\ repetitionsLeft' \in Int
      /\ handler.at = "serve" => ToBeDone(c)
  BY SecondHalfMoves
<1>2. \/ repetitionsLeft' = repetitionsLeft /\ ~ ToBeDone(c)'
      \/ repetitionsLeft' = repetitionsLeft - 1 /\ socket'[c].stage # "ended"
  BY SecondHalfMoves
<1>3. Delivered(c)
  BY SecondHalfMoves
<1>4. \/ /\ request.route = "getUpdates" /\ UNCHANGED boardVars
         /\ socket'[c].stage = "taken" /\ late'[c] = late[c]
      \/ /\ request.route = "getUpdates" /\ answer' = UpdatesAnswer(c, updates)
         /\ updates' = <<>> /\ UNCHANGED flowersToWater
      \/ /\ request.route = "getFlower" /\ answer' = FlowerAnswer(c, -1)
         /\ UNCHANGED boardVars
      \/ \E given \in flowersToWater :
         /\ request.route = "getFlower" /\ answer' = FlowerAnswer(c, given)
         /\ flowersToWater' = flowersToWater \ {given} /\ UNCHANGED updates
      \/ /\ handler.at = "serve" /\ request.route = "water"
         /\ answer' = Text(c, "OK")
         /\ updates' = Append(updates, request.index) /\ UNCHANGED flowersToWater
      \/ /\ handler.at = "serve" /\ request.route = "toWater"
         /\ answer' = Text(c, "OK")
         /\ flowersToWater' = flowersToWater \cup request.flowers
         /\ UNCHANGED updates
  BY SecondHalfMoves
<1>5. ThreadsRest(c)
  BY <1>1 DEF ThreadsRest, clientThreads, gardenerThreads, wateringVars, flowerbedThreads,
              mainVars, pushVars
<1>6. repetitionsLeft \in Int
  BY SystemAssumption DEF SystemInv, CountsOK
<1>7. repetitionsLeft' <= repetitionsLeft
  BY <1>2, <1>6
<1>8. request.route = "toWater" => /\ handler.at = "serve"
                                   /\ c \in Flowerbeds /\ flowerbedUpdate[c] = "pushed"
                                   /\ request.flowers = newFlowers[c]
  <2> SUFFICES ASSUME request.route = "toWater"
               PROVE  /\ handler.at = "serve"
                      /\ c \in Flowerbeds /\ flowerbedUpdate[c] = "pushed"
                      /\ request.flowers = newFlowers[c]
    OBVIOUS
  <2>1. handler.at = "serve"
    BY <1>4
  <2>2. IsMade(c)
    BY <1>1 DEF SystemInv, SocketsOK
  <2>3. ~ (c \in Gardeners /\ GardenerCalls(c))
    BY <1>1 DEF GardenerCalls, Request, WaterRequest
  <2>4. c \in Flowerbeds /\ FlowerbedCalls(c)
    BY <2>2, <2>3 DEF IsMade
  <2> QED
    BY <1>1, <2>1, <2>4 DEF FlowerbedCalls, Request, ToWaterRequest
<1>9. Naming(flower)' \subseteq Naming(flower)
  <2>1. c \in Naming(flower)' => c \in Naming(flower)
    BY <1>1, <1>8 DEF Naming, Asks, clientThreads, flowerbedThreads, pushVars
  <2> QED
    BY <1>1, <1>5, <2>1, PlacesElsewhere, PlacesFinite
<1>10. /\ Kept(flower) \in Nat /\ Kept(flower)' \in Nat
       /\ Kept(flower)' <= Kept(flower) + 1
       /\ answer' # FlowerAnswer(c, flower) => Kept(flower)' <= Kept(flower)
  BY <1>1, <1>3, KeptDelivered
<1>11. CASE request.route = "toWater" /\ flower \in request.flowers
            /\ answer' = Text(c, "OK")
            /\ flowersToWater' = flowersToWater \cup request.flowers
  <2>1. c \in Naming(flower)
    BY <1>1, <1>8, <1>11 DEF Naming, Asks
  <2>2. answer' # FlowerAnswer(c, flower)
    BY <1>11 DEF Text, FlowerAnswer
  <2>3. Kept(flower)' \in Nat /\ Kept(flower)' <= Kept(flower) + 0
    BY <1>10, <2>2
  <2>4. Cardinality({flower} \cap flowersToWater')
          <= Cardinality({flower} \cap flowersToWater) + 1
    BY OnBoard
  <2>5. /\ waterings'[flower] = waterings[flower] + 0
        /\ asked'[flower] = asked[flower] + 0
    <3>1. waterings[flower] \in Int /\ asked[flower] \in Int
      BY DEF SystemInv, CountsOK
    <3> QED
      BY <1>1, <3>1 DEF history
  <2>6. 0 \in Int /\ 1 \in Int /\ -1 \in Int
    OBVIOUS
  <2>7. CASE repetitionsLeft' = repetitionsLeft /\ ~ ToBeDone(c)'
    <3>1. c \notin Naming(flower)'
      BY <1>1, <1>8, <1>11, <2>7 DEF Naming, clientThreads, flowerbedThreads, pushVars
    <3>2. Naming(flower)' \subseteq Naming(flower) \ {c}
      BY <1>9, <3>1
    <3>3. /\ Cardinality(Naming(flower)') \in Nat
          /\ Cardinality(Naming(flower)') <= Cardinality(Naming(flower)) + -1
      <4>1. /\ Cardinality(Naming(flower)') \in Nat /\ Cardinality(Naming(flower)) \in Nat
            /\ Cardinality(Naming(flower)') + 1 <= Cardinality(Naming(flower))
        BY <2>1, <3>2, PlacesFinite, CountLoses
      <4> QED
        BY <4>1
    <3>4. -1 + 1 + 0 + 0 <= 0 + (repetitionsLeft - repetitionsLeft')
      BY <1>6, <2>7
    <3> QED
      BY <1>1, <2>3, <2>4, <2>5, <2>6, <3>3, <3>4, FlowerBalance, Zenon
  <2>8. CASE repetitionsLeft' = repetitionsLeft - 1
    <3>1. /\ Cardinality(Naming(flower)') \in Nat
          /\ Cardinality(Naming(flower)') <= Cardinality(Naming(flower)) + 0
      <4>1. /\ Cardinality(Naming(flower)') \in Nat /\ Cardinality(Naming(flower)) \in Nat
            /\ Cardinality(Naming(flower)') <= Cardinality(Naming(flower))
        BY <1>9, PlacesFinite, CountShrinks
      <4> QED
        BY <4>1
    <3>2. 0 + 1 + 0 + 0 <= 0 + (repetitionsLeft - repetitionsLeft')
      BY <1>6, <2>8
    <3> QED
      BY <1>1, <2>3, <2>4, <2>5, <2>6, <3>1, <3>2, FlowerBalance, Zenon
  <2> QED
    BY <1>2, <2>7, <2>8
<1>12. CASE request.route = "getFlower" /\ answer' = FlowerAnswer(c, flower)
            /\ flower \in flowersToWater /\ flowersToWater' = flowersToWater \ {flower}
  <2>1. /\ Cardinality(Naming(flower)') \in Nat
        /\ Cardinality(Naming(flower)') <= Cardinality(Naming(flower)) + 0
    <3>1. /\ Cardinality(Naming(flower)') \in Nat /\ Cardinality(Naming(flower)) \in Nat
          /\ Cardinality(Naming(flower)') <= Cardinality(Naming(flower))
      BY <1>9, PlacesFinite, CountShrinks
    <3> QED
      BY <3>1
  <2>2. Cardinality({flower} \cap flowersToWater')
          <= Cardinality({flower} \cap flowersToWater) + -1
    <3>1. /\ Cardinality({flower} \cap flowersToWater') = 0
          /\ Cardinality({flower} \cap flowersToWater) = 1
      BY <1>12, OnBoard
    <3> QED
      BY <3>1
  <2>3. Kept(flower)' \in Nat /\ Kept(flower)' <= Kept(flower) + 1
    BY <1>10
  <2>4. /\ waterings'[flower] = waterings[flower] + 0
        /\ asked'[flower] = asked[flower] + 0
    <3>1. waterings[flower] \in Int /\ asked[flower] \in Int
      BY DEF SystemInv, CountsOK
    <3> QED
      BY <1>1, <3>1 DEF history
  <2>5. 0 \in Int /\ 1 \in Int /\ -1 \in Int
    OBVIOUS
  <2>6. 0 + -1 + 1 + 0 <= 0 + (repetitionsLeft - repetitionsLeft')
    <3>1. \A r, r1 \in Int : r1 <= r => 0 + -1 + 1 + 0 <= 0 + (r - r1)
      OBVIOUS
    <3> QED
      BY <1>1, <1>6, <1>7, <3>1, Zenon
  <2> QED
    BY <1>1, <2>1, <2>2, <2>3, <2>4, <2>5, <2>6, FlowerBalance, Zenon
<1>13. CASE answer' # FlowerAnswer(c, flower)
            /\ (flower \in flowersToWater' => flower \in flowersToWater)
  BY <1>1, <1>7, <1>9, <1>10, <1>13, FlowerStays DEF history
<1>14. \A text : Text(c, text) # FlowerAnswer(c, flower)
  BY DEF Text, FlowerAnswer
<1>15. UpdatesAnswer(c, updates) # FlowerAnswer(c, flower)
  BY DEF UpdatesAnswer, FlowerAnswer
<1>16. \A other : other # flower => FlowerAnswer(c, other) # FlowerAnswer(c, flower)
  BY DEF FlowerAnswer
<1>17. -1 # flower
  BY FlowerAssumption
<1>18. ASSUME socket'[c].stage = "taken", late'[c] = late[c], UNCHANGED boardVars
       PROVE  FlowerOnce(flower)'
  <2>1. Holding(flower)' \subseteq Holding(flower)
    <3>1. ~ Brings(c, {FlowerAnswer(c, flower)})'
      BY <1>18 DEF Brings
    <3>2. c \in Holding(flower)' => c \in Holding(flower)
      BY <1>1, <3>1 DEF Holding, clientThreads, gardenerThreads, wateringVars
    <3> QED
      BY <1>1, <1>5, <3>2, PlacesElsewhere, PlacesFinite
  <2>2. Left(flower)' \subseteq Left(flower)
    BY <1>3, <1>18 DEF Delivered, Left, Ids
  <2> QED
    BY <1>1, <1>7, <1>9, <1>18, <2>1, <2>2, KeptStays, FlowerStays DEF boardVars, history
<1> QED
  BY <1>4, <1>11, <1>12, <1>13, <1>14, <1>15, <1>16, <1>17, <1>18 DEF boardVars

(* A step without the server, the board and the clients' calls. *)
LEMMA FlowerOfWorker ==
  ASSUME SystemInv, UNCHANGED <<socket, late, handler, boardVars, clientThreads, budget, history>>,
         NEW flower \in Flowers, FlowerOnce(flower)
  PROVE  FlowerOnce(flower)'
<1>1. /\ Naming(flower)' = Naming(flower) /\ Holding(flower)' = Holding(flower)
      /\ Left(flower)' = Left(flower)
      /\ waterings' = waterings /\ asked' = asked /\ repetitionsLeft' = repetitionsLeft
      /\ flowersToWater' = flowersToWater
  BY DEF Naming, Asks, ToBeDone, Holding, Left, Brings, clientThreads, gardenerThreads,
         wateringVars, flowerbedThreads, pushVars, budget, history, boardVars
<1> QED
  BY <1>1 DEF FlowerOnce, Kept, Repeated

LEMMA WorkerMoves ==
  ASSUME WorkerChecks \/ SystemTick \/ UNCHANGED systemVars
  PROVE  UNCHANGED <<socket, late, handler, boardVars, clientThreads, budget, history>>
  BY DEF WorkerChecks, SystemTick, CheckConnections, AppTick, systemVars, appVars, appState

-----------------------------------------------------------------------------
(* The steps of a client: the others keep their places, and its own call is as it
   was, or new, or over. *)
LEMMA CallMovesPlaces ==
  ASSUME SystemInv, NEW c \in Ids, CallMoves(c), handler' = handler
  PROVE  /\ OthersRest(c)
         /\ \/ UNCHANGED socket
            \/ socket[c] = Free /\ socket'[c].stage = "sent" /\ socket'[c] # Free
            \/ socket[c].stage = "ended" /\ socket'[c] = Free
<1>1. socket' = [socket EXCEPT ![c] = socket'[c]]
      /\ \/ UNCHANGED socket
         \/ socket[c] = Free /\ socket'[c].stage = "sent"
         \/ socket[c].stage = "ended" /\ socket'[c] = Free
  <2>1. socket = [socket EXCEPT ![c] = socket[c]] /\ c \in DOMAIN socket
    BY DEF SystemInv, SocketsOK
  <2> QED
    BY <2>1 DEF CallMoves
<1>2. OthersRest(c)
  BY <1>1, CallsElsewhere
<1> QED
  BY <1>1, <1>2 DEF Free

(* A gardener leaves the place it was in, except that it goes from being given a
   flower to watering it, and from watering it to telling that it did. *)
LEMMA PingerPlaces ==
  ASSUME SystemInv, NEW g \in Gardeners, PingerLocks(g) \/ PingerRuns(g), handler' = handler,
         NEW flower \in Flowers
  PROVE  /\ ~ IsTelling(g)
         /\ g \in Holding(flower)' => g \in Holding(flower)
         /\ g \in Telling(flower)' => g \in Telling(flower)
<1>1. /\ CallMoves(g) /\ UNCHANGED <<gardenerWater, flower_index>> /\ g \in Ids
  BY PingerMoves, GardenersMade
<1>2. \/ UNCHANGED socket
      \/ socket'[g].stage = "sent"
      \/ socket'[g] = Free
  BY <1>1, CallMovesPlaces
<1>3. Brings(g, {FlowerAnswer(g, flower)})' => Brings(g, {FlowerAnswer(g, flower)})
  BY <1>2 DEF Brings, Free
<1>4. g \in Telling(flower)' => UNCHANGED socket
  <2>1. socket'[g] = Free => g \notin Telling(flower)'
    BY DEF Telling, Asks
  <2>2. ASSUME ~ UNCHANGED socket, socket'[g] # Free
        PROVE  socket'[g].request.route = "pingGardener"
    <3>1. PingAsGardener(g)
      BY <2>2, <1>1 DEF PingerLocks, PingerRuns, GardenerPingLoop, GardenerPinged, Unlock,
                  SystemInv, SocketsOK
    <3> QED
      BY <1>1, <3>1, BeginCallEffects DEF PingAsGardener, Request
  <2> QED
    BY <2>1, <2>2 DEF Telling, Asks
<1> QED
  BY <1>1, <1>3, <1>4 DEF IsTelling, Holding, Telling, Asks, ToBeDone

LEMMA WatererPlaces ==
  ASSUME SystemInv, NEW g \in Gardeners, WatererLocks(g) \/ WatererRuns(g), handler' = handler,
         NEW flower \in Flowers
  PROVE  \/ /\ ~ IsTelling(g)
            /\ g \in Holding(flower)' => g \in Holding(flower)
            /\ g \in Telling(flower)' => g \in Telling(flower)
         \/ /\ IsTelling(g) /\ g \notin Holding(flower)'
            /\ flower_index[g] \in Flowers
            /\ flower = flower_index[g] => g \in Holding(flower)
            /\ g \in Telling(flower)' => flower = flower_index[g]
<1>1. g \in Ids /\ g \in DOMAIN gardenerWater /\ g \in DOMAIN flower_index /\ g \in DOMAIN socket
  BY DEF SystemInv, GardenersOK, GardenerTypeOK, SocketsOK, Ids
<1>2. ASSUME NEW place, gardenerWater' = At(gardenerWater, g, place)
      PROVE  gardenerWater'[g] = place
  BY <1>1, <1>2 DEF At
<1>3. ASSUME UNCHANGED socket \/ Unlock(g) PROVE g \in Telling(flower)' => g \in Telling(flower)
  <2>1. UNCHANGED socket \/ socket'[g] = Free
    BY <1>1, <1>3 DEF Unlock
  <2> QED
    BY <2>1 DEF Telling, Asks, ToBeDone
<1>4. ASSUME gardenerWater'[g] \notin {"asked", "tell"} PROVE g \notin Holding(flower)'
  BY <1>4 DEF Holding
<1>5. CASE WaterLoop(g) \/ RetryAsking(g)
  <2>1. gardenerWater[g] # "tell" /\ UNCHANGED socket
        /\ gardenerWater'[g] \in {"ask", "ended"}
    BY <1>2, <1>5 DEF WaterLoop, RetryAsking, StopWatering
  <2> QED
    BY <1>3, <1>4, <2>1 DEF IsTelling
<1>6. CASE AskFlower(g)
  <2>1. /\ socket'[g] = Sent("water", Request("getFlower", g))
        /\ gardenerWater[g] = "ask"
    BY <1>1, <1>6, BeginCallEffects DEF AskFlower
  <2>2. gardenerWater'[g] = "asked"
    BY <1>2, <1>6 DEF AskFlower
  <2>3. g \notin Holding(flower)' /\ g \notin Telling(flower)'
    BY <2>1, <2>2 DEF Holding, Telling, Brings, Asks, Sent, Request
  <2> QED
    BY <2>1, <2>3 DEF IsTelling
<1>7. CASE Asked(g)
  <2>1. /\ gardenerWater[g] = "asked" /\ socket[g].stage = "ended" /\ socket[g].by = "water"
        /\ Unlock(g)
    BY <1>7 DEF Asked, Returned
  <2>2. g \in Holding(flower)' => g \in Holding(flower)
    <3> DEFINE outcome == socket[g].outcome
    <3>1. CASE FlowerGiven(g, outcome)
      <4>1. /\ outcome.kind = "reply" /\ "flower" \in DOMAIN outcome.answer
            /\ flower_index'[g] = outcome.answer.flower
        BY <1>1, <3>1 DEF FlowerGiven, At
      <4>2. \A text : outcome # Reply(Text(g, text))
        BY <4>1 DEF Reply, Text
      <4>3. outcome # Exception /\ outcome # Nullopt
        BY <4>1 DEF Exception, Nullopt
      <4>4. \A list : outcome # Reply(UpdatesAnswer(g, list))
        BY <4>1 DEF Reply, UpdatesAnswer
      <4>5. PICK i \in Flowers \cup {-1} : outcome = Reply(FlowerAnswer(g, i))
        BY <1>1, <2>1, <4>2, <4>3, <4>4, OutcomeForms
      <4>6. flower_index'[g] = i
        BY <4>1, <4>5 DEF Reply, FlowerAnswer
      <4>7. gardenerWater'[g] # "asked"
        BY <1>2, <3>1 DEF FlowerGiven
      <4>8. g \in Holding(flower)' => flower = i
        BY <4>6, <4>7 DEF Holding
      <4> QED
        BY <2>1, <4>5, <4>8 DEF Holding, Brings
    <3>2. CASE AskAgain(g, outcome) \/ AskFailed(g, outcome)
      <4>1. gardenerWater'[g] \in {"retry", "ended"}
        BY <1>2, <3>2 DEF AskAgain, AskFailed, StopWatering
      <4> QED
        BY <1>4, <4>1
    <3> QED
      BY <1>7, <3>1, <3>2 DEF Asked
  <2> QED
    BY <1>3, <2>1, <2>2 DEF IsTelling
<1>8. CASE TellWatered(g)
  <2>1. /\ gardenerWater[g] = "tell"
        /\ socket'[g] = Sent("water", WaterRequest(g, flower_index[g]))
    BY <1>1, <1>8, BeginCallEffects DEF TellWatered
  <2>2. gardenerWater'[g] = "told"
    BY <1>2, <1>8 DEF TellWatered
  <2>3. flower_index[g] \in Flowers
    BY <2>1 DEF SystemInv, GardenersOK
  <2>4. g \in Telling(flower)' => flower = flower_index[g]
    BY <2>1 DEF Telling, Sent, WaterRequest
  <2>5. flower = flower_index[g] => g \in Holding(flower)
    BY <2>1 DEF Holding
  <2> QED
    BY <1>4, <2>1, <2>2, <2>3, <2>4, <2>5 DEF IsTelling
<1>9. CASE Told(g)
  <2>1. gardenerWater[g] = "told" /\ Unlock(g) /\ gardenerWater'[g] \in {"loop", "ended"}
    BY <1>2, <1>9 DEF Told, StopWatering
  <2> QED
    BY <1>3, <1>4, <2>1 DEF IsTelling
<1> QED
  BY <1>5, <1>6, <1>7, <1>8, <1>9 DEF WatererLocks, WatererRuns

(* What a gardener's step leaves alone. *)
LEMMA GardenerMoves ==
  ASSUME SystemInv, NEW g \in Gardeners,
         \/ GardenerStep(g, PingerLocks(g)) \/ GardenerStep(g, PingerRuns(g))
         \/ GardenerStep(g, WatererLocks(g)) \/ GardenerStep(g, WatererRuns(g)),
         NEW flower \in Flowers
  PROVE  /\ OthersRest(g) /\ ThreadsRest(g) /\ g \in Ids /\ g \notin Flowerbeds
         /\ UNCHANGED <<boardVars, flowerbedThreads, asked, late, budget>>
         /\ \/ /\ waterings'[flower] = waterings[flower]
               /\ g \in Holding(flower)' => g \in Holding(flower)
               /\ g \in Telling(flower)' => g \in Telling(flower)
            \/ /\ g \in Holding(flower) /\ g \notin Holding(flower)'
               /\ waterings'[flower] = waterings[flower] + 1
<1> DEFINE pings  == PingerLocks(g) \/ PingerRuns(g)
           waters == WatererLocks(g) \/ WatererRuns(g)
<1>1. /\ pings \/ waters
      /\ UNCHANGED <<flowerbedThreads, asked, late, budget>> /\ ServerIsQuiet
      /\ waterings' = IF IsTelling(g)
                        THEN [waterings EXCEPT ![flower_index[g]] = @ + 1]
                        ELSE waterings
  BY DEF GardenerStep
<1>2. UNCHANGED <<handler, boardVars>>
  BY <1>1, QuietKeeps DEF boardVars
<1>3. /\ CallMoves(g)
      /\ \A x \in Gardeners \ {g} :
           gardenerWater'[x] = gardenerWater[x] /\ flower_index'[x] = flower_index[x]
  BY <1>1, PingerMoves, WatererMoves
<1>4. g \in Ids /\ g \notin Flowerbeds
  BY ProgramAssumption, GardenersMade
<1>5. OthersRest(g)
  BY <1>2, <1>3, <1>4, CallMovesPlaces
<1>6. ThreadsRest(g)
  BY <1>1, <1>3 DEF ThreadsRest, flowerbedThreads, mainVars, pushVars
<1>7. waterings \in [Flowers -> Nat]
  BY DEF SystemInv, CountsOK
<1>8. ASSUME pings
      PROVE  /\ waterings'[flower] = waterings[flower]
             /\ g \in Holding(flower)' => g \in Holding(flower)
             /\ g \in Telling(flower)' => g \in Telling(flower)
  <2>1. /\ ~ IsTelling(g)
        /\ g \in Holding(flower)' => g \in Holding(flower)
        /\ g \in Telling(flower)' => g \in Telling(flower)
    BY <1>2, <1>8, PingerPlaces
  <2> QED
    BY <1>1, <2>1
<1>9. ASSUME waters
      PROVE  \/ /\ waterings'[flower] = waterings[flower]
                /\ g \in Holding(flower)' => g \in Holding(flower)
                /\ g \in Telling(flower)' => g \in Telling(flower)
             \/ /\ g \in Holding(flower) /\ g \notin Holding(flower)'
                /\ waterings'[flower] = waterings[flower] + 1
  <2>1. \/ /\ ~ IsTelling(g)
           /\ g \in Holding(flower)' => g \in Holding(flower)
           /\ g \in Telling(flower)' => g \in Telling(flower)
        \/ /\ IsTelling(g) /\ g \notin Holding(flower)'
           /\ flower_index[g] \in Flowers
           /\ flower = flower_index[g] => g \in Holding(flower)
           /\ g \in Telling(flower)' => flower = flower_index[g]
    BY <1>2, <1>9, WatererPlaces
  <2> QED
    BY <1>1, <1>7, <2>1
<1> QED
  BY <1>1, <1>2, <1>4, <1>5, <1>6, <1>8, <1>9

LEMMA FlowerOfGardener ==
  ASSUME SystemInv, NEW g \in Gardeners,
         \/ GardenerStep(g, PingerLocks(g)) \/ GardenerStep(g, PingerRuns(g))
         \/ GardenerStep(g, WatererLocks(g)) \/ GardenerStep(g, WatererRuns(g)),
         NEW flower \in Flowers, FlowerOnce(flower)
  PROVE  FlowerOnce(flower)'
<1>1. /\ OthersRest(g) /\ ThreadsRest(g) /\ g \in Ids /\ g \notin Flowerbeds
      /\ UNCHANGED <<boardVars, flowerbedThreads, asked, late, budget>>
      /\ \/ /\ waterings'[flower] = waterings[flower]
            /\ g \in Holding(flower)' => g \in Holding(flower)
         \/ /\ g \in Holding(flower) /\ g \notin Holding(flower)'
            /\ waterings'[flower] = waterings[flower] + 1
  BY GardenerMoves
<1>2. /\ Naming(flower)' \subseteq Naming(flower)
      /\ \A x \in Gardeners \ {g} : x \in Holding(flower)' <=> x \in Holding(flower)
      /\ Holding(flower)' \subseteq Gardeners
      /\ Left(flower)' \subseteq Left(flower)
  BY <1>1, PlacesElsewhere, PlacesFinite DEF Left
<1>3. /\ Cardinality(Naming(flower)') \in Nat
      /\ Cardinality(Naming(flower)') <= Cardinality(Naming(flower)) + 0
  <2>1. /\ Cardinality(Naming(flower)') \in Nat /\ Cardinality(Naming(flower)) \in Nat
        /\ Cardinality(Naming(flower)') <= Cardinality(Naming(flower))
    BY <1>2, PlacesFinite, CountShrinks
  <2> QED
    BY <2>1
<1>4. Cardinality({flower} \cap flowersToWater')
        <= Cardinality({flower} \cap flowersToWater) + 0
  BY <1>1, OnBoard DEF boardVars
<1>5. asked'[flower] = asked[flower] + 0
  <2>1. asked[flower] \in Int
    BY DEF SystemInv, CountsOK
  <2> QED
    BY <1>1, <2>1
<1>6. /\ repetitionsLeft' \in Int
      /\ 0 + 0 + 0 + 0 <= 0 + (repetitionsLeft - repetitionsLeft')
      /\ 0 + 0 + -1 + 1 <= 0 + (repetitionsLeft - repetitionsLeft')
  <2>1. repetitionsLeft' = repetitionsLeft /\ repetitionsLeft \in Int
    BY <1>1, SystemAssumption DEF budget, SystemInv, CountsOK
  <2> QED
    BY <2>1
<1>7. 0 \in Int /\ 1 \in Int /\ -1 \in Int
  OBVIOUS
<1>8. CASE /\ waterings'[flower] = waterings[flower]
           /\ g \in Holding(flower)' => g \in Holding(flower)
  <2>1. Holding(flower)' \subseteq Holding(flower)
    BY <1>2, <1>8
  <2>2. Kept(flower)' \in Nat /\ Kept(flower)' <= Kept(flower) + 0
    <3>1. /\ Kept(flower) \in Nat /\ Kept(flower)' \in Nat
          /\ Kept(flower)' <= Kept(flower)
      BY <1>2, <2>1, KeptStays
    <3> QED
      BY <3>1
  <2>3. waterings'[flower] = waterings[flower] + 0
    <3>1. waterings[flower] \in Int
      BY DEF SystemInv, CountsOK
    <3> QED
      BY <1>8, <3>1
  <2> QED
    BY <1>3, <1>4, <1>5, <1>6, <1>7, <2>2, <2>3, FlowerBalance, Zenon
<1>9. CASE /\ g \in Holding(flower) /\ g \notin Holding(flower)'
           /\ waterings'[flower] = waterings[flower] + 1
  <2>1. Holding(flower)' \subseteq Holding(flower) \ {g}
    BY <1>2, <1>9
  <2>2. Kept(flower)' \in Nat /\ Kept(flower)' <= Kept(flower) + -1
    BY <1>2, <1>9, <2>1, KeptLoses
  <2> QED
    BY <1>3, <1>4, <1>5, <1>6, <1>7, <1>9, <2>2, FlowerBalance, Zenon
<1> QED
  BY <1>1, <1>8, <1>9

-----------------------------------------------------------------------------
(* A flowerbed names flowers it does not name at the time, and forgets them when
   its call is over. *)
FlowerbedRuns(f) ==
  \/ MainLocks(f) \/ MainRuns(f) \/ PingLocks(f) \/ PingRuns(f)
  \/ PushLocks(f) \/ PushRuns(f)

LEMMA FlowerbedPlaces ==
  ASSUME SystemInv, NEW f \in Flowerbeds, FlowerbedRuns(f), handler' = handler,
         NEW flower \in Flowers
  PROVE  /\ newFlowers'[f] \subseteq Flowers
         /\ f \in Naming(flower)' => \/ f \in Naming(flower)
                                     \/ flower \in newFlowers'[f] \ newFlowers[f]
         /\ flower \in newFlowers'[f] \ newFlowers[f] => f \notin Naming(flower)
<1>1. f \in Ids /\ f \in DOMAIN flowerbedUpdate /\ f \in DOMAIN newFlowers /\ f \in DOMAIN socket
  BY DEF SystemInv, FlowerbedsOK, FlowerbedTypeOK, SocketsOK, Ids
<1>2. CallMoves(f) /\ FlowerbedsOK'
  BY FlowerbedMoves DEF FlowerbedRuns
<1>3. newFlowers'[f] \subseteq Flowers
  BY <1>2 DEF FlowerbedsOK, FlowerbedTypeOK
<1>4. flower \in newFlowers'[f] \ newFlowers[f] => f \notin Naming(flower)
  BY DEF Naming
<1>5. \/ UNCHANGED socket
      \/ socket[f] = Free /\ socket'[f].stage = "sent" /\ socket'[f] # Free
      \/ socket[f].stage = "ended" /\ socket'[f] = Free
  BY <1>1, <1>2, CallMovesPlaces
<1>6. ASSUME newFlowers'[f] = newFlowers[f],
             flowerbedUpdate'[f] = "push" => flowerbedUpdate[f] = "push",
             Asks(f, "toWater")' => Asks(f, "toWater") /\ UNCHANGED socket
      PROVE  f \in Naming(flower)' => f \in Naming(flower)
  BY <1>6 DEF Naming, ToBeDone
<1>7. ASSUME MainLocks(f) \/ MainRuns(f) \/ PingLocks(f) \/ PingRuns(f)
      PROVE  f \in Naming(flower)' => f \in Naming(flower)
  <2>1. newFlowers'[f] = newFlowers[f]
    <3>1. UNCHANGED newFlowers
      BY <1>7, FlowerbedMainMoves, FlowerbedPingMoves DEF pushVars
    <3> QED
      BY <3>1
  <2>2. flowerbedUpdate'[f] = "push" => flowerbedUpdate[f] = "push"
    BY <1>1, <1>7 DEF MainLocks, MainRuns, PingLocks, PingRuns, FirstPing, FirstPinged,
             FetchLoop, FetchUpdates, Fetched, HandleUpdate, FlowerbedPingLoop,
             PingAsFlowerbed, FlowerbedPinged, pushVars, At
  <2>3. ASSUME socket[f] = Free, socket'[f] # Free
        PROVE  socket'[f].request.route \in {"pingFlowerbed", "getUpdates"}
    <3>1. ASSUME NEW thread, NEW route, BeginCall(f, thread, Request(route, f))
          PROVE  socket'[f].request.route = route
      BY <1>1, <3>1, BeginCallEffects DEF Request
    <3>2. FirstPing(f) \/ FetchUpdates(f) \/ PingAsFlowerbed(f)
      <4>1. ~ UNCHANGED socket
        BY <2>3
      <4>2. ~ Returned(f, "main") /\ ~ Returned(f, "ping")
        BY <2>3 DEF Returned, Free
      <4> QED
        BY <1>7, <4>1, <4>2 DEF MainLocks, MainRuns, PingLocks, PingRuns, FirstPinged,
                 FetchLoop, Fetched, HandleUpdate, FlowerbedPingLoop, FlowerbedPinged
    <3> QED
      BY <3>1, <3>2 DEF FirstPing, FetchUpdates, PingAsFlowerbed
  <2>4. Asks(f, "toWater")' => Asks(f, "toWater") /\ UNCHANGED socket
    BY <1>5, <2>3 DEF Asks
  <2> QED
    BY <1>6, <2>1, <2>2, <2>4
<1>8. CASE LeavePushing(f) \/ EndRest(f)
  <2>1. /\ UNCHANGED <<socket, newFlowers>>
        /\ flowerbedUpdate'[f] \in {"ended", "loop"}
    BY <1>1, <1>8 DEF LeavePushing, EndRest, At
  <2> QED
    BY <1>3, <1>4, <1>6, <2>1 DEF Asks
<1>9. CASE ChooseFlowers(f)
  <2>1. flowerbedUpdate[f] = "loop"
    BY <1>9 DEF ChooseFlowers
  <2>2. newFlowers[f] = {}
    BY <2>1 DEF SystemInv, FlowerbedsOK, FlowerbedFits
  <2> QED
    BY <1>3, <1>4, <2>2 DEF Naming
<1>10. CASE PushFlowers(f)
  <2>1. flowerbedUpdate[f] = "push" /\ UNCHANGED newFlowers
    BY <1>10 DEF PushFlowers
  <2> QED
    BY <1>3, <1>4, <2>1 DEF Naming
<1>11. CASE Pushed(f)
  <2>1. newFlowers'[f] = {}
    BY <1>1, <1>11 DEF Pushed, At
  <2> QED
    BY <1>3, <1>4, <2>1 DEF Naming
<1> QED
  BY <1>3, <1>4, <1>7, <1>8, <1>9, <1>10, <1>11 DEF FlowerbedRuns, PushLocks, PushRuns

IsFlowerbedStep(f) ==
  \/ FlowerbedStep(f, MainLocks(f)) \/ FlowerbedStep(f, MainRuns(f))
  \/ FlowerbedStep(f, PingLocks(f)) \/ FlowerbedStep(f, PingRuns(f))
  \/ FlowerbedStep(f, PushLocks(f)) \/ FlowerbedStep(f, PushRuns(f))

LEMMA FlowerbedStepMoves ==
  ASSUME SystemInv, NEW f \in Flowerbeds, IsFlowerbedStep(f)
  PROVE  /\ FlowerbedRuns(f)
         /\ OthersRest(f) /\ ThreadsRest(f) /\ f \in Ids /\ f \notin Gardeners
         /\ UNCHANGED <<handler, boardVars, gardenerThreads, waterings, late, budget>>
         /\ \A flower \in Flowers :
              asked'[flower] = IF flower \in newFlowers'[f] \ newFlowers[f]
                                 THEN asked[flower] + 1 ELSE asked[flower]
<1>1. /\ FlowerbedRuns(f) /\ ServerIsQuiet
      /\ UNCHANGED <<gardenerThreads, waterings, late, budget>>
      /\ asked' = [flower \in Flowers |->
                     IF flower \in newFlowers'[f] \ newFlowers[f]
                       THEN asked[flower] + 1 ELSE asked[flower]]
  BY DEF IsFlowerbedStep, FlowerbedStep, FlowerbedRuns
<1>2. UNCHANGED <<handler, boardVars>>
  BY <1>1, QuietKeeps DEF boardVars
<1>3. CallMoves(f) /\ OthersStay(f)
  BY <1>1, FlowerbedMoves DEF FlowerbedRuns
<1>4. f \in Ids /\ f \notin Gardeners
  BY ProgramAssumption, FlowerbedsMade
<1>5. OthersRest(f)
  BY <1>2, <1>3, <1>4, CallMovesPlaces
<1>6. \A x \in Flowerbeds \ {f} : flower_watering_counts'[x] = flower_watering_counts[x]
  <2>1. flower_watering_counts \in [Flowerbeds -> [Flowers -> Nat]]
    BY DEF SystemInv, FlowerbedsOK, FlowerbedTypeOK
  <2>2. CASE PingLocks(f) \/ PingRuns(f) \/ PushLocks(f) \/ PushRuns(f)
    BY <2>2, FlowerbedPingMoves, FlowerbedPushMoves DEF mainVars
  <2>3. CASE MainLocks(f) \/ FirstPinged(f) \/ FetchLoop(f) \/ Fetched(f)
    BY <2>3 DEF MainLocks, FirstPing, FetchUpdates, FirstPinged, FetchLoop, Fetched
  <2>4. CASE HandleUpdate(f)
    BY <2>1, <2>4 DEF HandleUpdate
  <2> QED
    BY <1>1, <2>2, <2>3, <2>4 DEF FlowerbedRuns, MainRuns
<1>7. ThreadsRest(f)
  BY <1>1, <1>3, <1>6 DEF ThreadsRest, OthersStay, gardenerThreads, wateringVars
<1> QED
  BY <1>1, <1>2, <1>4, <1>5, <1>7

LEMMA FlowerOfFlowerbed ==
  ASSUME SystemInv, NEW f \in Flowerbeds, IsFlowerbedStep(f),
         NEW flower \in Flowers, FlowerOnce(flower)
  PROVE  FlowerOnce(flower)'
<1>1. /\ FlowerbedRuns(f)
      /\ OthersRest(f) /\ ThreadsRest(f) /\ f \notin Gardeners
      /\ UNCHANGED <<handler, boardVars, gardenerThreads, waterings, late, budget>>
      /\ asked'[flower] = IF flower \in newFlowers'[f] \ newFlowers[f]
                            THEN asked[flower] + 1 ELSE asked[flower]
  BY FlowerbedStepMoves
<1>2. /\ Holding(flower)' \subseteq Holding(flower) /\ Left(flower)' \subseteq Left(flower)
      /\ \A x \in Flowerbeds \ {f} : x \in Naming(flower)' <=> x \in Naming(flower)
      /\ Naming(flower)' \subseteq Flowerbeds
  BY <1>1, PlacesElsewhere, PlacesFinite DEF Left
<1>3. /\ f \in Naming(flower)' => \/ f \in Naming(flower)
                                  \/ flower \in newFlowers'[f] \ newFlowers[f]
  BY <1>1, FlowerbedPlaces
<1>4. asked[flower] \in Int /\ waterings[flower] \in Int /\ repetitionsLeft \in Int
      /\ repetitionsLeft' = repetitionsLeft
  BY <1>1, SystemAssumption DEF SystemInv, CountsOK, budget
<1>5. CASE flower \in newFlowers'[f] \ newFlowers[f]
  <2>1. /\ Cardinality(Naming(flower)') \in Nat
        /\ Cardinality(Naming(flower)') <= Cardinality(Naming(flower)) + 1
    <3>1. Naming(flower)' \subseteq Naming(flower) \cup {f}
      BY <1>2
    <3> QED
      BY <3>1, PlacesFinite, CountGains
  <2>2. Cardinality({flower} \cap flowersToWater')
          <= Cardinality({flower} \cap flowersToWater) + 0
    BY <1>1, OnBoard DEF boardVars
  <2>3. Kept(flower)' \in Nat /\ Kept(flower)' <= Kept(flower) + 0
    <3>1. /\ Kept(flower) \in Nat /\ Kept(flower)' \in Nat
          /\ Kept(flower)' <= Kept(flower)
      BY <1>2, KeptStays
    <3> QED
      BY <3>1
  <2>4. /\ waterings'[flower] = waterings[flower] + 0
        /\ asked'[flower] = asked[flower] + 1
    BY <1>1, <1>4, <1>5
  <2>5. 0 \in Int /\ 1 \in Int /\ repetitionsLeft' \in Int
    BY <1>4
  <2>6. 1 + 0 + 0 + 0 <= 1 + (repetitionsLeft - repetitionsLeft')
    BY <1>4
  <2> QED
    BY <2>1, <2>2, <2>3, <2>4, <2>5, <2>6, FlowerBalance, Zenon
<1>6. CASE flower \notin newFlowers'[f] \ newFlowers[f]
  <2>1. Naming(flower)' \subseteq Naming(flower)
    BY <1>2, <1>3, <1>6
  <2>2. /\ waterings'[flower] = waterings[flower] /\ asked'[flower] = asked[flower]
        /\ repetitionsLeft' \in Int /\ repetitionsLeft' <= repetitionsLeft
        /\ flower \in flowersToWater' => flower \in flowersToWater
    BY <1>1, <1>4, <1>6 DEF boardVars
  <2> QED
    BY <1>2, <2>1, <2>2, KeptStays, FlowerStays
<1> QED
  BY <1>5, <1>6

LEMMA NextFlowers ==
  ASSUME SystemInv, [SystemNext]_systemVars, NEW flower \in Flowers, FlowerOnce(flower)
  PROVE  FlowerOnce(flower)'
<1>1. CASE \E c \in Ids : ServerTakes(c) \/ RequestLost(c) \/ CallTimesOut(c)
  BY <1>1, FlowerOfFirstHalf DEF FirstHalf
<1>2. CASE ServerContinues
  BY <1>2, FlowerOfSecondHalf
<1>3. CASE WorkerChecks \/ SystemTick \/ UNCHANGED systemVars
  BY <1>3, WorkerMoves, FlowerOfWorker
<1>4. CASE \E g \in Gardeners :
             \/ GardenerStep(g, PingerLocks(g)) \/ GardenerStep(g, PingerRuns(g))
             \/ GardenerStep(g, WatererLocks(g)) \/ GardenerStep(g, WatererRuns(g))
  BY <1>4, FlowerOfGardener
<1>5. CASE \E f \in Flowerbeds : IsFlowerbedStep(f)
  BY <1>5, FlowerOfFlowerbed
<1> QED
  BY <1>1, <1>2, <1>3, <1>4, <1>5 DEF SystemNext, IsFlowerbedStep

LEMMA InitFlowers ==
  ASSUME SystemInit, NEW flower \in Flowers
  PROVE  FlowerOnce(flower)
<1>1. /\ newFlowers = [f \in Flowerbeds |-> {}] /\ flowersToWater = {}
      /\ gardenerWater = [g \in Gardeners |-> "loop"] /\ late = [c \in Ids |-> NoAnswer]
      /\ waterings[flower] = 0 /\ asked[flower] = 0 /\ Repeated = 0
  BY SystemAssumption DEF SystemInit, AppInit, GardenerInit, FlowerbedInit, FlowerbedLocals,
                          Repeated
<1>2. Naming(flower) = {} /\ Holding(flower) = {} /\ {flower} \cap flowersToWater = {}
  BY <1>1 DEF Naming, Holding
<1>3. Left(flower) = {}
  BY <1>1 DEF Left, Ids, NoAnswer, FlowerAnswer
<1>4. Cardinality({}) = 0
  BY FS_EmptySet
<1> QED
  BY <1>1, <1>2, <1>3, <1>4 DEF FlowerOnce, Kept

(* Each time a flowerbed names a flower makes for one watering at most, and no two
   gardeners are given it, but for requests that are handled twice. *)
THEOREM FlowersWateredOnce == SystemSpec => []FlowersAreNotDoubled
<1> DEFINE Once == \A flower \in Flowers : FlowerOnce(flower)
<1>1. SystemInit => Once
  BY InitFlowers
<1>2. SystemInv /\ Once /\ [SystemNext]_systemVars => Once'
  BY NextFlowers
<1>3. SystemInv /\ Once => FlowersAreNotDoubled
  <2> SUFFICES ASSUME SystemInv, NEW flower \in Flowers, FlowerOnce(flower)
               PROVE  Cardinality(Naming(flower)) + Cardinality({flower} \cap flowersToWater)
                        + Cardinality(Holding(flower)) + Cardinality(Left(flower))
                        + waterings[flower] <= asked[flower] + Repeated
    BY DEF FlowersAreNotDoubled
  <2> DEFINE n == Cardinality(Naming(flower))
             b == Cardinality({flower} \cap flowersToWater)
             h == Cardinality(Holding(flower))
             l == Cardinality(Left(flower))
             w == waterings[flower]
  <2>1. n \in Nat /\ b \in Nat /\ h \in Nat /\ l \in Nat
    BY PlacesFinite, OnBoard, KeptIsNat, FS_CardinalityType
  <2>2. w \in Nat
    BY DEF SystemInv, CountsOK
  <2>3. n + b + (h + l) + w <= asked[flower] + Repeated
    BY DEF FlowerOnce, Kept
  <2> HIDE DEF n, b, h, l, w
  <2>4. n + b + h + l + w = n + b + (h + l) + w
    BY <2>1, <2>2
  <2>5. n + b + h + l + w <= asked[flower] + Repeated
    BY <2>3, <2>4
  <2> QED
    BY <2>5 DEF n, b, h, l, w
<1> HIDE DEF Once
<1> QED
  BY <1>1, <1>2, <1>3, SystemInvariant, PTL DEF SystemSpec

-----------------------------------------------------------------------------
(* Counting tokens: a flowerbed has n reports counted, and one unread, on its way,
   or left over, for each member of three sets. *)
Tagged(f, tag, S) == {<<f, tag, i>> : i \in S}

TokensOf(f, n, A, B, D) ==
  Tagged(f, "counted", 1..n) \cup Tagged(f, "unread", A) \cup Tagged(f, "sent", B)
    \cup Tagged(f, "late", D)

TokensIn(N, A, B, D, S) == UNION {TokensOf(f, N[f], A[f], B[f], D[f]) : f \in S}

AreTokens(N, A, B, D) ==
  /\ N \in [Flowerbeds -> Nat]
  /\ \A f \in Flowerbeds : IsFiniteSet(A[f]) /\ IsFiniteSet(B[f]) /\ IsFiniteSet(D[f])

DifferAt(f, N, A, B, D, N1, A1, B1, D1) ==
  \A x \in Flowerbeds \ {f} :
    N1[x] = N[x] /\ A1[x] = A[x] /\ B1[x] = B[x] /\ D1[x] = D[x]

LEMMA TokensTagged ==
  ASSUME NEW f, NEW tag, NEW A, IsFiniteSet(A)
  PROVE  /\ IsFiniteSet(Tagged(f, tag, A))
         /\ Cardinality(Tagged(f, tag, A)) = Cardinality(A)
<1> DEFINE T == Tagged(f, tag, A)
           F == [i \in A |-> <<f, tag, i>>]
<1>1. F \in [A -> T]
  BY DEF Tagged
<1>2. \A x, y \in A : F[x] = F[y] => x = y
  OBVIOUS
<1>3. \A t \in T : \E x \in A : F[x] = t
  BY DEF Tagged
<1> HIDE DEF F
<1> QED
  BY <1>1, <1>2, <1>3, CountOfImage

LEMMA CountDisjoint ==
  ASSUME NEW S, NEW T, IsFiniteSet(S), IsFiniteSet(T), S \cap T = {}
  PROVE  /\ IsFiniteSet(S \cup T)
         /\ Cardinality(S) \in Nat /\ Cardinality(T) \in Nat
         /\ Cardinality(S \cup T) = Cardinality(S) + Cardinality(T)
<1>1. Cardinality(S) \in Nat /\ Cardinality(T) \in Nat
  BY FS_CardinalityType
<1>2. Cardinality(S \cap T) = 0
  BY FS_EmptySet
<1>3. /\ IsFiniteSet(S \cup T)
      /\ Cardinality(S \cup T) = Cardinality(S) + Cardinality(T) - Cardinality(S \cap T)
  BY FS_Union
<1> QED
  BY <1>1, <1>2, <1>3

LEMMA TokensOfOne ==
  ASSUME NEW f, NEW n \in Nat, NEW A, NEW B, NEW D,
         IsFiniteSet(A), IsFiniteSet(B), IsFiniteSet(D)
  PROVE  /\ IsFiniteSet(TokensOf(f, n, A, B, D))
         /\ Cardinality(A) \in Nat /\ Cardinality(B) \in Nat /\ Cardinality(D) \in Nat
         /\ Cardinality(TokensOf(f, n, A, B, D))
              = n + Cardinality(A) + Cardinality(B) + Cardinality(D)
<1> DEFINE C == Tagged(f, "counted", 1..n)
           U == Tagged(f, "unread", A)
           V == Tagged(f, "sent", B)
           W == Tagged(f, "late", D)
<1>1. IsFiniteSet(1..n) /\ Cardinality(1..n) = n
  BY FS_Interval
<1>2. IsFiniteSet(C) /\ Cardinality(C) = n
  BY <1>1, TokensTagged
<1>3. IsFiniteSet(U) /\ Cardinality(U) = Cardinality(A)
  BY TokensTagged
<1>4. IsFiniteSet(V) /\ Cardinality(V) = Cardinality(B)
  BY TokensTagged
<1>5. IsFiniteSet(W) /\ Cardinality(W) = Cardinality(D)
  BY TokensTagged
<1>6. C \cap U = {} /\ (C \cup U) \cap V = {} /\ ((C \cup U) \cup V) \cap W = {}
  BY DEF Tagged
<1>7. TokensOf(f, n, A, B, D) = ((C \cup U) \cup V) \cup W
  BY DEF TokensOf
<1> HIDE DEF C, U, V, W
<1>8. /\ IsFiniteSet(C \cup U) /\ Cardinality(U) \in Nat
      /\ Cardinality(C \cup U) = Cardinality(C) + Cardinality(U)
  BY <1>2, <1>3, <1>6, CountDisjoint
<1>9. /\ IsFiniteSet((C \cup U) \cup V) /\ Cardinality(V) \in Nat
      /\ Cardinality((C \cup U) \cup V) = Cardinality(C \cup U) + Cardinality(V)
  BY <1>4, <1>6, <1>8, CountDisjoint
<1>10. /\ IsFiniteSet(((C \cup U) \cup V) \cup W) /\ Cardinality(W) \in Nat
       /\ Cardinality(((C \cup U) \cup V) \cup W)
            = Cardinality((C \cup U) \cup V) + Cardinality(W)
  BY <1>5, <1>6, <1>9, CountDisjoint
<1> QED
  BY <1>2, <1>3, <1>4, <1>5, <1>7, <1>8, <1>9, <1>10

LEMMA TokensFinite ==
  ASSUME NEW N \in [Flowerbeds -> Nat], NEW A, NEW B, NEW D, NEW S \in SUBSET Flowerbeds,
         \A f \in Flowerbeds : IsFiniteSet(A[f]) /\ IsFiniteSet(B[f]) /\ IsFiniteSet(D[f])
  PROVE  IsFiniteSet(TokensIn(N, A, B, D, S))
<1> DEFINE T == {TokensOf(f, N[f], A[f], B[f], D[f]) : f \in S}
           F == [f \in S |-> TokensOf(f, N[f], A[f], B[f], D[f])]
<1>1. IsFiniteSet(S)
  BY ProgramAssumption, CountShrinks
<1>2. F \in Surjection(S, T)
  BY DEF Surjection
<1>3. \A t \in T : IsFiniteSet(t)
  <2> SUFFICES ASSUME NEW f \in S PROVE IsFiniteSet(TokensOf(f, N[f], A[f], B[f], D[f]))
    OBVIOUS
  <2>1. N[f] \in Nat /\ IsFiniteSet(A[f]) /\ IsFiniteSet(B[f]) /\ IsFiniteSet(D[f])
    OBVIOUS
  <2> QED
    BY <2>1, TokensOfOne
<1> HIDE DEF F, T
<1>4. IsFiniteSet(T)
  BY <1>1, <1>2, FS_Surjection
<1>5. IsFiniteSet(UNION T)
  BY <1>3, <1>4, FS_UNION
<1> QED
  BY <1>5 DEF T, TokensIn

(* The tokens of one flowerbed stand out from the others'. *)
Splits(f, N, A, B, D) ==
  LET all    == Cardinality(TokensIn(N, A, B, D, Flowerbeds))
      others == Cardinality(TokensIn(N, A, B, D, Flowerbeds \ {f}))
  IN
  /\ others \in Nat /\ N[f] \in Nat
  /\ Cardinality(A[f]) \in Nat /\ Cardinality(B[f]) \in Nat /\ Cardinality(D[f]) \in Nat
  /\ all = others + (N[f] + Cardinality(A[f]) + Cardinality(B[f]) + Cardinality(D[f]))

LEMMA TokensSplit ==
  ASSUME NEW N, NEW A, NEW B, NEW D, NEW f \in Flowerbeds, AreTokens(N, A, B, D)
  PROVE  Splits(f, N, A, B, D)
<1> DEFINE O == TokensIn(N, A, B, D, Flowerbeds \ {f})
           M == TokensOf(f, N[f], A[f], B[f], D[f])
<1>1. N[f] \in Nat /\ IsFiniteSet(A[f]) /\ IsFiniteSet(B[f]) /\ IsFiniteSet(D[f])
  BY DEF AreTokens
<1>2. /\ IsFiniteSet(M) /\ Cardinality(A[f]) \in Nat /\ Cardinality(B[f]) \in Nat /\ Cardinality(D[f]) \in Nat
      /\ Cardinality(M) = N[f] + Cardinality(A[f]) + Cardinality(B[f]) + Cardinality(D[f])
  BY <1>1, TokensOfOne
<1>3. IsFiniteSet(O)
  <2>1. Flowerbeds \ {f} \in SUBSET Flowerbeds
    OBVIOUS
  <2> QED
    BY <2>1, TokensFinite DEF AreTokens
<1>4. TokensIn(N, A, B, D, Flowerbeds) = O \cup M
  BY DEF TokensIn
<1>5. O \cap M = {}
  <2>1. \A t \in M : t[1] = f
    BY DEF TokensOf, Tagged
  <2>2. \A t \in O : t[1] # f
    BY DEF TokensIn, TokensOf, Tagged
  <2> QED
    BY <2>1, <2>2
<1> HIDE DEF O, M
<1>6. Cardinality(O) \in Nat /\ Cardinality(O \cup M) = Cardinality(O) + Cardinality(M)
  BY <1>2, <1>3, <1>5, CountDisjoint
<1> QED
  BY <1>1, <1>2, <1>4, <1>6 DEF O, Splits

(* When only one flowerbed's tokens change, so many more or fewer are there in all. *)
LEMMA TokensChange ==
  ASSUME NEW f \in Flowerbeds, NEW N, NEW A, NEW B, NEW D,
         NEW N1, NEW A1, NEW B1, NEW D1,
         AreTokens(N, A, B, D), AreTokens(N1, A1, B1, D1),
         DifferAt(f, N, A, B, D, N1, A1, B1, D1)
  PROVE  LET all  == Cardinality(TokensIn(N, A, B, D, Flowerbeds))
             all1 == Cardinality(TokensIn(N1, A1, B1, D1, Flowerbeds))
         IN
         /\ all \in Nat /\ all1 \in Nat
         /\ all1 + (N[f] + Cardinality(A[f]) + Cardinality(B[f]) + Cardinality(D[f]))
              = all + (N1[f] + Cardinality(A1[f]) + Cardinality(B1[f]) + Cardinality(D1[f]))
<1> DEFINE others  == Cardinality(TokensIn(N, A, B, D, Flowerbeds \ {f}))
           others1 == Cardinality(TokensIn(N1, A1, B1, D1, Flowerbeds \ {f}))
           all     == Cardinality(TokensIn(N, A, B, D, Flowerbeds))
           all1    == Cardinality(TokensIn(N1, A1, B1, D1, Flowerbeds))
<1>1. /\ others \in Nat /\ N[f] \in Nat
      /\ Cardinality(A[f]) \in Nat /\ Cardinality(B[f]) \in Nat /\ Cardinality(D[f]) \in Nat
      /\ all = others + (N[f] + Cardinality(A[f]) + Cardinality(B[f]) + Cardinality(D[f]))
  <2>1. Splits(f, N, A, B, D)
    BY TokensSplit
  <2> QED
    BY <2>1 DEF Splits
<1>2. /\ others1 \in Nat /\ N1[f] \in Nat
      /\ Cardinality(A1[f]) \in Nat /\ Cardinality(B1[f]) \in Nat /\ Cardinality(D1[f]) \in Nat
      /\ all1 = others1 + (N1[f] + Cardinality(A1[f]) + Cardinality(B1[f]) + Cardinality(D1[f]))
  <2>1. Splits(f, N1, A1, B1, D1)
    BY TokensSplit
  <2> QED
    BY <2>1 DEF Splits
<1>3. TokensIn(N1, A1, B1, D1, Flowerbeds \ {f}) = TokensIn(N, A, B, D, Flowerbeds \ {f})
  BY DEF TokensIn, DifferAt
<1>4. others1 = others
  BY <1>3
<1> HIDE DEF others, others1, all, all1
<1>5. /\ all \in Nat /\ all1 \in Nat
      /\ all1 + (N[f] + Cardinality(A[f]) + Cardinality(B[f]) + Cardinality(D[f]))
           = all + (N1[f] + Cardinality(A1[f]) + Cardinality(B1[f]) + Cardinality(D1[f]))
  BY <1>1, <1>2, <1>4
<1> QED
  BY <1>5 DEF all, all1

-----------------------------------------------------------------------------
(* The reports of a flower's waterings, as tokens of the flowerbeds. *)
CountsOf(flower) == [f \in Flowerbeds |-> flower_watering_counts[f][flower]]

UnreadOf(flower) == [f \in Flowerbeds |-> Where(flower, response[f])]

ComingOf(flower) == [f \in Flowerbeds |-> Where(flower, Bringing(f))]

LateOf(flower) == [f \in Flowerbeds |-> Where(flower, ReportIn(late[f]))]

LEMMA ReportsAsTokens ==
  ASSUME NEW flower
  PROVE  /\ Reports(flower) = TokensIn(CountsOf(flower), UnreadOf(flower),
                                       ComingOf(flower), LateOf(flower), Flowerbeds)
         /\ Reports(flower)' = TokensIn(CountsOf(flower)', UnreadOf(flower)',
                                        ComingOf(flower)', LateOf(flower)', Flowerbeds)
<1>1. ASSUME NEW f \in Flowerbeds
      PROVE  TokensOf(f, CountsOf(flower)[f], UnreadOf(flower)[f],
                       ComingOf(flower)[f], LateOf(flower)[f])
               = {<<f, "counted", n>> : n \in 1..flower_watering_counts[f][flower]}
                   \cup {<<f, "unread", i>> : i \in Where(flower, response[f])}
                   \cup {<<f, "sent", i>> : i \in Where(flower, Bringing(f))}
                   \cup {<<f, "late", i>> : i \in Where(flower, ReportIn(late[f]))}
  BY DEF TokensOf, Tagged, CountsOf, UnreadOf, ComingOf, LateOf
<1>2. ASSUME NEW f \in Flowerbeds
      PROVE  TokensOf(f, CountsOf(flower)'[f], UnreadOf(flower)'[f],
                       ComingOf(flower)'[f], LateOf(flower)'[f])
               = ({<<f, "counted", n>> : n \in 1..flower_watering_counts[f][flower]}
                    \cup {<<f, "unread", i>> : i \in Where(flower, response[f])}
                    \cup {<<f, "sent", i>> : i \in Where(flower, Bringing(f))}
                    \cup {<<f, "late", i>> : i \in Where(flower, ReportIn(late[f]))})'
  BY DEF TokensOf, Tagged, CountsOf, UnreadOf, ComingOf, LateOf
<1>3. Reports(flower) = TokensIn(CountsOf(flower), UnreadOf(flower),
                                 ComingOf(flower), LateOf(flower), Flowerbeds)
  BY <1>1 DEF Reports, TokensIn
<1>4. Reports(flower)' = TokensIn(CountsOf(flower)', UnreadOf(flower)',
                                  ComingOf(flower)', LateOf(flower)', Flowerbeds)
  BY <1>2 DEF Reports, TokensIn
<1> QED
  BY <1>3, <1>4

(* Only the list of updates reports anything. *)
LEMMA ReportsIn ==
  /\ ReportIn(NoAnswer) = <<>>
  /\ \A to, text : ReportIn(Text(to, text)) = <<>>
  /\ \A to, i : ReportIn(FlowerAnswer(to, i)) = <<>>
  /\ \A to, list : ReportIn(UpdatesAnswer(to, list)) = list
BY DEF ReportIn, NoAnswer, Text, FlowerAnswer, UpdatesAnswer

(* What is left over for a flowerbed is a list of flowers. *)
LEMMA LateLists ==
  ASSUME SystemInv, NEW f \in Flowerbeds
  PROVE  ReportIn(late[f]) \in Seq(Flowers)
<1>1. late[f] \in {NoAnswer} \cup ProgramAnswers(f)
  BY DEF SystemInv, LateOK, Ids
<1>2. <<>> \in Seq(Flowers) /\ UpdateLists \subseteq Seq(Flowers)
  BY FlowerAssumption DEF UpdateLists
<1>3. CASE late[f] = NoAnswer
  BY <1>2, <1>3, ReportsIn
<1>4. CASE late[f] \in ProgramAnswers(f)
  <2>1. PICK reply \in ProgramAnswers(f) : reply = late[f]
    BY <1>4
  <2>2. f \in Gardeners \cup Flowerbeds
    OBVIOUS
  <2>3. \/ \E text : reply = Text(f, text)
        \/ f \in Gardeners /\ \E i \in Flowers \cup {-1} : reply = FlowerAnswer(f, i)
        \/ f \in Flowerbeds /\ \E list \in UpdateLists : reply = UpdatesAnswer(f, list)
    BY <2>2, ProgramAnswerForms, Zenon
  <2>4. \/ ReportIn(reply) = <<>>
        \/ \E list \in UpdateLists : ReportIn(reply) = list
    <3>1. CASE \E text : reply = Text(f, text)
      BY <3>1, ReportsIn
    <3>2. CASE \E i \in Flowers \cup {-1} : reply = FlowerAnswer(f, i)
      BY <3>2, ReportsIn
    <3>3. CASE \E list \in UpdateLists : reply = UpdatesAnswer(f, list)
      <4>1. PICK list \in UpdateLists : reply = UpdatesAnswer(f, list)
        BY <3>3
      <4> QED
        BY <4>1, ReportsIn
    <3> QED
      BY <2>3, <3>1, <3>2, <3>3
  <2>5. ReportIn(reply) \in Seq(Flowers)
    BY <1>2, <2>4
  <2> QED
    BY <2>1, <2>5
<1> QED
  BY <1>1, <1>3, <1>4

(* What is sent to a flowerbed is a list of flowers. *)
LEMMA BringingLists ==
  ASSUME SystemInv, NEW f \in Flowerbeds
  PROVE  /\ Bringing(f) \in Seq(Flowers)
         /\ \A list : Bringing(f) # <<>> /\ socket[f].outcome = Reply(UpdatesAnswer(f, list))
                        => Bringing(f) = list
<1>0. f \in Ids
  BY DEF Ids
<1>1. \A to, list : ReportIn(UpdatesAnswer(to, list)) = list
  BY DEF ReportIn, UpdatesAnswer
<1>2. \A to, text, i : /\ ReportIn(Text(to, text)) = <<>>
                       /\ ReportIn(FlowerAnswer(to, i)) = <<>>
  BY DEF ReportIn, Text, FlowerAnswer
<1>3. ASSUME NEW list, socket[f].outcome = Reply(UpdatesAnswer(f, list)), Bringing(f) # <<>>
      PROVE  Bringing(f) = list
  <2>1. socket[f].outcome.answer = UpdatesAnswer(f, list)
    BY <1>3 DEF Reply
  <2> QED
    BY <1>1, <1>3, <2>1 DEF Bringing
<1>4. Bringing(f) \in Seq(Flowers)
  <2>1. <<>> \in Seq(Flowers)
    OBVIOUS
  <2> DEFINE outcome == socket[f].outcome
  <2>2. CASE /\ Asks(f, "getUpdates") /\ socket[f].stage = "ended"
             /\ outcome.kind = "reply"
    <3>1. \/ \E text : outcome = Reply(Text(f, text))
          \/ \E i \in Flowers \cup {-1} : outcome = Reply(FlowerAnswer(f, i))
          \/ \E list \in Seq(Flowers) \ {<<>>} : outcome = Reply(UpdatesAnswer(f, list))
      <4>1. outcome # Exception /\ outcome # Nullopt
        BY <2>2 DEF Exception, Nullopt
      <4> QED
        BY <1>0, <2>2, <4>1, OutcomeForms
    <3>2. Bringing(f) = ReportIn(outcome.answer)
      BY <2>2 DEF Bringing
    <3>3. \A reply : outcome = Reply(reply) => outcome.answer = reply
      BY DEF Reply
    <3> HIDE DEF outcome
    <3>4. \/ \E text : outcome.answer = Text(f, text)
          \/ \E i : outcome.answer = FlowerAnswer(f, i)
          \/ \E list \in Seq(Flowers) : outcome.answer = UpdatesAnswer(f, list)
      BY <3>1, <3>3
    <3> DEFINE reply == outcome.answer
    <3>5. ReportIn(reply) \in Seq(Flowers)
      <4> HIDE DEF reply
      <4> QED
        BY <1>1, <1>2, <2>1, <3>4, ZenonT(60) DEF reply
    <3> QED
      BY <3>2, <3>5
  <2>3. CASE ~ (/\ Asks(f, "getUpdates") /\ socket[f].stage = "ended"
                /\ outcome.kind = "reply")
    BY <2>1, <2>3 DEF Bringing
  <2> QED
    BY <2>2, <2>3
<1> QED
  BY <1>3, <1>4

(* When only one flowerbed counts, reads or is sent anything, so many more or fewer
   reports are there. *)
OnlyTo(f) ==
  \A x \in Flowerbeds \ {f} :
    /\ flower_watering_counts'[x] = flower_watering_counts[x]
    /\ response'[x] = response[x] /\ Bringing(x)' = Bringing(x) /\ late'[x] = late[x]

LEMMA ReportsChange ==
  ASSUME SystemInv, NEW flower \in Flowers, NEW f \in Flowerbeds, OnlyTo(f),
         flower_watering_counts'[f][flower] \in Nat, response'[f] \in Seq(Flowers),
         Bringing(f)' \in Seq(Flowers), ReportIn(late'[f]) \in Seq(Flowers)
  PROVE  /\ Cardinality(Reports(flower)) \in Nat /\ Cardinality(Reports(flower)') \in Nat
         /\ flower_watering_counts[f][flower] \in Nat
         /\ Times(flower, response[f]) \in Nat /\ Times(flower, Bringing(f)) \in Nat
         /\ Times(flower, response'[f]) \in Nat /\ Times(flower, Bringing(f)') \in Nat
         /\ Times(flower, ReportIn(late[f])) \in Nat
         /\ Times(flower, ReportIn(late'[f])) \in Nat
         /\ Cardinality(Reports(flower)')
              + (flower_watering_counts[f][flower] + Times(flower, response[f])
                   + Times(flower, Bringing(f)) + Times(flower, ReportIn(late[f])))
            = Cardinality(Reports(flower))
                + (flower_watering_counts'[f][flower] + Times(flower, response'[f])
                     + Times(flower, Bringing(f)') + Times(flower, ReportIn(late'[f])))
<1> DEFINE N  == CountsOf(flower)
           A  == UnreadOf(flower)
           B  == ComingOf(flower)
           D  == LateOf(flower)
           N1 == CountsOf(flower)'
           A1 == UnreadOf(flower)'
           B1 == ComingOf(flower)'
           D1 == LateOf(flower)'
<1>1. \A x \in Flowerbeds : /\ N[x] = flower_watering_counts[x][flower] /\ N[x] \in Nat
                            /\ A[x] = Where(flower, response[x])
                            /\ B[x] = Where(flower, Bringing(x))
                            /\ D[x] = Where(flower, ReportIn(late[x]))
                            /\ response[x] \in Seq(Flowers)
  BY DEF CountsOf, UnreadOf, ComingOf, LateOf, SystemInv, FlowerbedsOK, FlowerbedTypeOK
<1>2. \A x \in Flowerbeds : /\ N1[x] = flower_watering_counts'[x][flower]
                            /\ A1[x] = Where(flower, response'[x])
                            /\ B1[x] = Where(flower, Bringing(x)')
                            /\ D1[x] = Where(flower, ReportIn(late'[x]))
  BY DEF CountsOf, UnreadOf, ComingOf, LateOf, Where, ReportIn
<1>3. N \in [Flowerbeds -> Nat]
  BY <1>1 DEF CountsOf
<1>4. /\ N1 = [x \in Flowerbeds |-> N1[x]]
      /\ \A x \in Flowerbeds \ {f} :
           N1[x] = N[x] /\ A1[x] = A[x] /\ B1[x] = B[x] /\ D1[x] = D[x]
      /\ N1[f] = flower_watering_counts'[f][flower]
      /\ A1[f] = Where(flower, response'[f]) /\ B1[f] = Where(flower, Bringing(f)')
      /\ D1[f] = Where(flower, ReportIn(late'[f]))
  <2>1. N1 = [x \in Flowerbeds |-> N1[x]]
    BY DEF CountsOf
  <2> HIDE DEF N, A, B, D, N1, A1, B1, D1
  <2> QED
    BY <1>1, <1>2, <2>1 DEF OnlyTo
<1>5. \A x \in Flowerbeds : Bringing(x) \in Seq(Flowers) /\ ReportIn(late[x]) \in Seq(Flowers)
  BY BringingLists, LateLists
<1> HIDE DEF N, A, B, D, N1, A1, B1, D1
<1>6. N1 \in [Flowerbeds -> Nat]
  <2>1. \A x \in Flowerbeds : N1[x] \in Nat
    BY <1>1, <1>4
  <2> QED
    BY <1>4, <2>1
<1>7. \A x \in Flowerbeds : IsFiniteSet(A[x]) /\ IsFiniteSet(B[x]) /\ IsFiniteSet(D[x])
  BY <1>1, <1>5, WhereOK
<1>8. \A x \in Flowerbeds : IsFiniteSet(A1[x]) /\ IsFiniteSet(B1[x]) /\ IsFiniteSet(D1[x])
  <2>1. IsFiniteSet(A1[f]) /\ IsFiniteSet(B1[f]) /\ IsFiniteSet(D1[f])
    BY <1>4, WhereOK
  <2> QED
    BY <1>4, <1>7, <2>1
<1> DEFINE all  == Cardinality(TokensIn(N, A, B, D, Flowerbeds))
           all1 == Cardinality(TokensIn(N1, A1, B1, D1, Flowerbeds))
<1>9. /\ all \in Nat /\ all1 \in Nat
      /\ all1 + (N[f] + Cardinality(A[f]) + Cardinality(B[f]) + Cardinality(D[f]))
           = all + (N1[f] + Cardinality(A1[f]) + Cardinality(B1[f]) + Cardinality(D1[f]))
  <2>1. AreTokens(N, A, B, D) /\ AreTokens(N1, A1, B1, D1)
    BY <1>3, <1>6, <1>7, <1>8 DEF AreTokens
  <2>2. DifferAt(f, N, A, B, D, N1, A1, B1, D1)
    BY <1>4 DEF DifferAt
  <2> QED
    BY <2>1, <2>2, TokensChange
<1>10. all = Cardinality(Reports(flower)) /\ all1 = Cardinality(Reports(flower)')
  BY ReportsAsTokens DEF N, A, B, D, N1, A1, B1, D1
<1>11. /\ Cardinality(A[f]) = Times(flower, response[f])
       /\ Cardinality(B[f]) = Times(flower, Bringing(f))
       /\ Cardinality(D[f]) = Times(flower, ReportIn(late[f]))
       /\ Cardinality(A1[f]) = Times(flower, response'[f])
       /\ Cardinality(B1[f]) = Times(flower, Bringing(f)')
       /\ Cardinality(D1[f]) = Times(flower, ReportIn(late'[f]))
  BY <1>1, <1>4 DEF Times
<1>12. /\ Times(flower, response[f]) \in Nat /\ Times(flower, Bringing(f)) \in Nat
       /\ Times(flower, response'[f]) \in Nat /\ Times(flower, Bringing(f)') \in Nat
       /\ Times(flower, ReportIn(late[f])) \in Nat
       /\ Times(flower, ReportIn(late'[f])) \in Nat
  BY <1>1, <1>5, WhereOK
<1> HIDE DEF all, all1
<1> QED
  BY <1>1, <1>4, <1>9, <1>10, <1>11, <1>12

-----------------------------------------------------------------------------
(* A watering makes for one report at most: the ledger of one flower. *)
ReportOnce(flower) ==
  Cardinality(Telling(flower)) + Times(flower, updates) + Cardinality(Reports(flower))
    <= waterings[flower] + Repeated

LEMMA ReportsFinite ==
  ASSUME SystemInv, NEW flower \in Flowers
  PROVE  IsFiniteSet(Reports(flower)) /\ Cardinality(Reports(flower)) \in Nat
<1> DEFINE N == CountsOf(flower)
           A == UnreadOf(flower)
           B == ComingOf(flower)
           D == LateOf(flower)
<1>1. \A x \in Flowerbeds : /\ N[x] \in Nat
                            /\ A[x] = Where(flower, response[x])
                            /\ B[x] = Where(flower, Bringing(x))
                            /\ D[x] = Where(flower, ReportIn(late[x]))
                            /\ response[x] \in Seq(Flowers)
  BY DEF CountsOf, UnreadOf, ComingOf, LateOf, SystemInv, FlowerbedsOK, FlowerbedTypeOK
<1>2. N \in [Flowerbeds -> Nat]
  BY <1>1 DEF CountsOf
<1>3. \A x \in Flowerbeds : Bringing(x) \in Seq(Flowers) /\ ReportIn(late[x]) \in Seq(Flowers)
  BY BringingLists, LateLists
<1>4. Reports(flower) = TokensIn(N, A, B, D, Flowerbeds)
  BY ReportsAsTokens
<1> HIDE DEF N, A, B, D
<1>5. \A x \in Flowerbeds : IsFiniteSet(A[x]) /\ IsFiniteSet(B[x]) /\ IsFiniteSet(D[x])
  BY <1>1, <1>3, WhereOK
<1>6. Flowerbeds \in SUBSET Flowerbeds
  OBVIOUS
<1>7. IsFiniteSet(TokensIn(N, A, B, D, Flowerbeds))
  BY <1>2, <1>5, <1>6, TokensFinite
<1> QED
  BY <1>4, <1>7, FS_CardinalityType

LEMMA ReportBalance ==
  ASSUME SystemInv, NEW flower \in Flowers, ReportOnce(flower),
         NEW dt \in Int, NEW du \in Int, NEW dr \in Int, NEW dw \in Int,
         Cardinality(Telling(flower)') \in Nat,
         Cardinality(Telling(flower)') <= Cardinality(Telling(flower)) + dt,
         Times(flower, updates') \in Nat,
         Times(flower, updates') <= Times(flower, updates) + du,
         Cardinality(Reports(flower)') \in Nat,
         Cardinality(Reports(flower)') <= Cardinality(Reports(flower)) + dr,
         waterings'[flower] = waterings[flower] + dw,
         repetitionsLeft' \in Int,
         dt + du + dr <= dw + (repetitionsLeft - repetitionsLeft')
  PROVE  ReportOnce(flower)'
<1>1. Cardinality(Telling(flower)) \in Nat /\ Cardinality(Reports(flower)) \in Nat
  BY PlacesFinite, ReportsFinite, FS_CardinalityType
<1>2. Times(flower, updates) \in Nat
  BY WhereOK DEF SystemInv, ListsFit
<1>3. waterings[flower] \in Int /\ repetitionsLeft \in Int /\ Repetitions \in Int
  BY SystemAssumption DEF SystemInv, CountsOK
<1> DEFINE t  == Cardinality(Telling(flower))
           u  == Times(flower, updates)
           r  == Cardinality(Reports(flower))
           w  == waterings[flower]
           t1 == Cardinality(Telling(flower)')
           u1 == Times(flower, updates')
           r1 == Cardinality(Reports(flower)')
           w1 == waterings'[flower]
           p1 == repetitionsLeft'
<1>4. t + u + r <= w + (Repetitions - repetitionsLeft)
  BY DEF ReportOnce, Repeated
<1>5. /\ t \in Int /\ u \in Int /\ r \in Int /\ t1 \in Int /\ u1 \in Int /\ r1 \in Int
      /\ t1 <= t + dt /\ u1 <= u + du /\ r1 <= r + dr
  BY <1>1, <1>2
<1>6. /\ w \in Int /\ w1 = w + dw /\ p1 \in Int
      /\ dt + du + dr <= dw + (repetitionsLeft - p1)
  BY <1>3
<1> HIDE DEF t, u, r, w, t1, u1, r1, w1, p1
<1>7. t1 + u1 + r1 <= w1 + (Repetitions - p1)
  <2>1. w1 \in Int
    BY <1>6
  <2>2. t + u + r + repetitionsLeft <= w + Repetitions
    BY <1>3, <1>4, <1>5, <1>6
  <2>3. t1 + u1 + r1 <= (t + u + r) + (dt + du + dr)
    BY <1>5
  <2>4. (t + u + r) + (dt + du + dr) <= w1 + (Repetitions - p1)
    BY <1>3, <1>5, <1>6, <2>2
  <2> QED
    BY <1>3, <1>5, <1>6, <2>1, <2>3, <2>4
<1>8. (Times(flower, updates))' = Times(flower, updates')
  BY DEF Times, Where
<1> QED
  BY <1>7, <1>8 DEF t1, u1, r1, w1, p1, ReportOnce, Repeated

(* Nothing is reported that was not before. *)
LEMMA ReportStays ==
  ASSUME SystemInv, NEW flower \in Flowers, ReportOnce(flower),
         Telling(flower)' \subseteq Telling(flower),
         updates' = updates \/ updates' = <<>>,
         Cardinality(Reports(flower)') \in Nat,
         Cardinality(Reports(flower)') <= Cardinality(Reports(flower)),
         waterings'[flower] = waterings[flower],
         repetitionsLeft' \in Int, repetitionsLeft' <= repetitionsLeft
  PROVE  ReportOnce(flower)'
<1>1. /\ Cardinality(Telling(flower)') \in Nat
      /\ Cardinality(Telling(flower)') <= Cardinality(Telling(flower)) + 0
  <2>1. /\ Cardinality(Telling(flower)') \in Nat /\ Cardinality(Telling(flower)) \in Nat
        /\ Cardinality(Telling(flower)') <= Cardinality(Telling(flower))
    BY PlacesFinite, CountShrinks
  <2> QED
    BY <2>1
<1>2. /\ Times(flower, updates') \in Nat
      /\ Times(flower, updates') <= Times(flower, updates) + 0
  <2>1. Times(flower, updates) \in Nat /\ Times(flower, <<>>) = 0
    BY WhereOK, TimesEmpty DEF SystemInv, ListsFit
  <2> QED
    BY <2>1
<1>3. Cardinality(Reports(flower)') <= Cardinality(Reports(flower)) + 0
  <2>1. Cardinality(Reports(flower)) \in Nat
    BY ReportsFinite
  <2> QED
    BY <2>1
<1>4. waterings'[flower] = waterings[flower] + 0 /\ repetitionsLeft \in Int
  <2>1. waterings[flower] \in Int /\ repetitionsLeft \in Int
    BY SystemAssumption DEF SystemInv, CountsOK
  <2> QED
    BY <2>1
<1>5. 0 \in Int
  OBVIOUS
<1>6. 0 + 0 + 0 <= 0 + (repetitionsLeft - repetitionsLeft')
  <2>1. \A p, p1 \in Int : p1 <= p => 0 + 0 + 0 <= 0 + (p - p1)
    OBVIOUS
  <2> QED
    BY <1>4, <2>1, Zenon
<1> QED
  BY <1>1, <1>2, <1>3, <1>4, <1>5, <1>6, ReportBalance, Zenon

(* No report moves when no flowerbed counts, reads or is sent anything new. *)
LEMMA ReportsStay ==
  ASSUME NEW flower, UNCHANGED <<response, flower_watering_counts>>,
         \A f \in Flowerbeds : Bringing(f)' = Bringing(f) /\ late'[f] = late[f]
  PROVE  Reports(flower)' = Reports(flower)
<1>1. ASSUME NEW f \in Flowerbeds
      PROVE  ({<<f, "counted", n>> : n \in 1..flower_watering_counts[f][flower]}
                \cup {<<f, "unread", i>> : i \in Where(flower, response[f])}
                \cup {<<f, "sent", i>> : i \in Where(flower, Bringing(f))}
                \cup {<<f, "late", i>> : i \in Where(flower, ReportIn(late[f]))})'
             = {<<f, "counted", n>> : n \in 1..flower_watering_counts[f][flower]}
                \cup {<<f, "unread", i>> : i \in Where(flower, response[f])}
                \cup {<<f, "sent", i>> : i \in Where(flower, Bringing(f))}
                \cup {<<f, "late", i>> : i \in Where(flower, ReportIn(late[f]))}
  BY DEF Where, ReportIn
<1> QED
  BY <1>1 DEF Reports

(* An answer reaches the flowerbed that called, or is left over, or lost; one that
   was left over reaches it, stays or is dropped. *)
LEMMA ReportsDelivered ==
  ASSUME SystemInv, NEW c \in Ids, OthersRest(c), UNCHANGED clientThreads, Delivered(c),
         socket[c].stage # "ended", NEW flower \in Flowers,
         ReportIn(answer') \in Seq(Flowers)
  PROVE  /\ Cardinality(Reports(flower)') \in Nat /\ Times(flower, ReportIn(answer')) \in Nat
         /\ Cardinality(Reports(flower)')
              <= Cardinality(Reports(flower)) + Times(flower, ReportIn(answer'))
<1> DEFINE n == Times(flower, ReportIn(answer'))
<1>1. ThreadsRest(c) /\ UNCHANGED <<response, flower_watering_counts>>
  BY DEF ThreadsRest, clientThreads, gardenerThreads, wateringVars, flowerbedThreads,
         mainVars, pushVars
<1>2. \A f \in Flowerbeds \ {c} : Bringing(f)' = Bringing(f) /\ late'[f] = late[f]
  BY <1>1, PlacesElsewhere DEF Delivered, Ids
<1>3. n \in Nat /\ Times(flower, <<>>) = 0
  BY WhereOK, TimesEmpty
<1>4. CASE c \notin Flowerbeds
  <2>1. Reports(flower)' = Reports(flower)
    BY <1>1, <1>2, <1>4, ReportsStay
  <2>2. Cardinality(Reports(flower)) \in Nat
    BY ReportsFinite
  <2> HIDE DEF n
  <2>3. Cardinality(Reports(flower)) <= Cardinality(Reports(flower)) + n
    BY <1>3, <2>2
  <2> QED
    BY <1>3, <2>1, <2>2, <2>3 DEF n
<1>5. CASE c \in Flowerbeds
  <2>1. Bringing(c) = <<>>
    BY DEF Bringing
  <2>2. ReportIn(late[c]) \in Seq(Flowers) /\ <<>> \in Seq(Flowers)
    BY <1>5, LateLists
  <2>3. ASSUME NEW reply, socket'[c].outcome = OutcomeOf(reply)
        PROVE  Bringing(c)' \in {<<>>, ReportIn(reply)}
    <3>1. \/ socket'[c].outcome.kind # "reply"
          \/ socket'[c].outcome.answer = reply
      BY <2>3 DEF OutcomeOf, Reply, Nullopt
    <3>2. Bringing(c)' = <<>> \/ /\ socket'[c].outcome.kind = "reply"
                                 /\ Bringing(c)' = ReportIn(socket'[c].outcome.answer)
      BY DEF Bringing, ReportIn
    <3> QED
      BY <3>1, <3>2
  <2>4. socket'[c].stage # "ended" \/ socket'[c].outcome = Exception => Bringing(c)' = <<>>
    BY DEF Bringing, Exception
  <2>5. \/ /\ late'[c] = late[c] /\ Bringing(c)' \in {<<>>, ReportIn(answer')}
        \/ /\ late'[c] \in {answer', NoAnswer}
           /\ Bringing(c)' \in {<<>>, ReportIn(late[c])}
    BY <2>3, <2>4 DEF Delivered
  <2>6. Bringing(c)' \in Seq(Flowers) /\ ReportIn(late'[c]) \in Seq(Flowers)
    BY <2>2, <2>5, ReportsIn
  <2>7. /\ response'[c] = response[c] /\ response'[c] \in Seq(Flowers)
        /\ flower_watering_counts'[c][flower] = flower_watering_counts[c][flower]
        /\ flower_watering_counts'[c][flower] \in Nat
    BY <1>1, <1>5 DEF SystemInv, FlowerbedsOK, FlowerbedTypeOK
  <2>8. OnlyTo(c)
    BY <1>1, <1>2 DEF OnlyTo
  <2> DEFINE all   == Cardinality(Reports(flower))
             all1  == Cardinality(Reports(flower)')
             count == flower_watering_counts[c][flower]
             read  == Times(flower, response[c])
             sent  == Times(flower, Bringing(c))
             sent1 == Times(flower, Bringing(c)')
             left  == Times(flower, ReportIn(late[c]))
             left1 == Times(flower, ReportIn(late'[c]))
  <2>9. /\ all \in Nat /\ all1 \in Nat /\ count \in Nat /\ read \in Nat
        /\ sent \in Nat /\ sent1 \in Nat /\ left \in Nat /\ left1 \in Nat
        /\ all1 + (count + read + sent + left) = all + (count + read + sent1 + left1)
    <3>1. /\ all \in Nat /\ all1 \in Nat /\ count \in Nat
          /\ read \in Nat /\ sent \in Nat
          /\ Times(flower, response'[c]) \in Nat /\ sent1 \in Nat
          /\ left \in Nat /\ left1 \in Nat
          /\ all1 + (count + read + sent + left)
               = all + (flower_watering_counts'[c][flower] + Times(flower, response'[c])
                          + sent1 + left1)
      BY <1>5, <2>6, <2>7, <2>8, ReportsChange
    <3> HIDE DEF all, all1, sent, sent1, left, left1
    <3> QED
      BY <2>7, <3>1
  <2>10. /\ sent = 0
         /\ \/ left1 = left /\ sent1 \in {0, n}
            \/ left1 \in {n, 0} /\ sent1 \in {0, left}
    <3>1. sent = 0
      BY <1>3, <2>1
    <3>2. Bringing(c)' = <<>> => sent1 = 0
      BY <1>3
    <3>3. late'[c] = NoAnswer => left1 = 0
      BY <1>3, ReportsIn
    <3>4. CASE late'[c] = late[c] /\ Bringing(c)' \in {<<>>, ReportIn(answer')}
      <4>1. left1 = left /\ (Bringing(c)' = ReportIn(answer') => sent1 = n)
        BY <3>4
      <4> QED
        BY <3>1, <3>2, <3>4, <4>1
    <3>5. CASE /\ late'[c] \in {answer', NoAnswer}
               /\ Bringing(c)' \in {<<>>, ReportIn(late[c])}
      <4>1. /\ late'[c] = answer' => left1 = n
            /\ Bringing(c)' = ReportIn(late[c]) => sent1 = left
        OBVIOUS
      <4> QED
        BY <3>1, <3>2, <3>3, <3>5, <4>1
    <3> QED
      BY <2>5, <3>4, <3>5
  <2> HIDE DEF n, all, all1, count, read, sent, sent1, left, left1
  <2>11. all1 <= all + n
    BY <1>3, <2>9, <2>10
  <2> QED
    BY <1>3, <2>9, <2>11 DEF n, all, all1
<1> QED
  BY <1>4, <1>5

LEMMA ReportOfFirstHalf ==
  ASSUME SystemInv, NEW c \in Ids, FirstHalf(c), NEW flower \in Flowers, ReportOnce(flower)
  PROVE  ReportOnce(flower)'
<1>1. /\ OthersRest(c) /\ UNCHANGED <<clientThreads, history, boardVars>>
      /\ repetitionsLeft' \in Int /\ repetitionsLeft' <= repetitionsLeft
      /\ socket[c] # Free /\ socket[c].stage # "ended" /\ socket'[c] # Free
      /\ socket'[c].request = socket[c].request
      /\ ToBeDone(c)' => ToBeDone(c)
      /\ Delivered(c) /\ (answer' = NoAnswer \/ \E text : answer' = Text(c, text))
  BY FirstHalfMoves
<1>2. ThreadsRest(c)
  BY <1>1 DEF ThreadsRest, clientThreads, gardenerThreads, wateringVars, flowerbedThreads,
              mainVars, pushVars
<1>3. c \in Telling(flower)' => c \in Telling(flower)
  BY <1>1 DEF Telling, Asks
<1>4. Telling(flower)' \subseteq Telling(flower)
  BY <1>1, <1>2, <1>3, PlacesElsewhere, PlacesFinite
<1>5. ReportIn(answer') = <<>> /\ ReportIn(answer') \in Seq(Flowers)
  <2>1. ReportIn(answer') = <<>>
    BY <1>1, ReportsIn
  <2> QED
    BY <2>1
<1>6. /\ Cardinality(Reports(flower)') \in Nat
      /\ Cardinality(Reports(flower)') <= Cardinality(Reports(flower))
  <2>1. /\ Cardinality(Reports(flower)') \in Nat
        /\ Cardinality(Reports(flower)')
             <= Cardinality(Reports(flower)) + Times(flower, ReportIn(answer'))
    BY <1>1, <1>5, ReportsDelivered
  <2>2. Times(flower, ReportIn(answer')) = 0 /\ Cardinality(Reports(flower)) \in Nat
    BY <1>5, TimesEmpty, ReportsFinite
  <2> QED
    BY <2>1, <2>2
<1> QED
  BY <1>1, <1>4, <1>6, ReportStays DEF boardVars, history

(* The message of a gardener reaches the list, or the list goes to the flowerbed
   that asked for it. *)
LEMMA ReportOfSecondHalf ==
  ASSUME SystemInv, ServerContinues, NEW flower \in Flowers, ReportOnce(flower)
  PROVE  ReportOnce(flower)'
<1> SUFFICES ASSUME NEW request, request = handler.request, NEW c, c = request.id
             PROVE  ReportOnce(flower)'
  OBVIOUS
<1>1. /\ c \in Ids /\ OthersRest(c) /\ UNCHANGED <<clientThreads, history>>
      /\ socket[c] # Free /\ socket[c].stage = "taken" /\ socket[c].request = request
      /\ socket'[c] # Free /\ socket'[c].request = request
      /\ repetitionsLeft' \in Int
      /\ handler.at = "serve" => ToBeDone(c)
  BY SecondHalfMoves
<1>2. \/ repetitionsLeft' = repetitionsLeft /\ ~ ToBeDone(c)'
      \/ repetitionsLeft' = repetitionsLeft - 1 /\ socket'[c].stage # "ended"
  BY SecondHalfMoves
<1>3. Delivered(c)
  BY SecondHalfMoves
<1>4. \/ /\ request.route = "getUpdates" /\ updates' = updates
         /\ socket'[c].stage = "taken" /\ late'[c] = late[c]
      \/ /\ request.route = "getUpdates" /\ answer' = UpdatesAnswer(c, updates)
         /\ updates' = <<>>
      \/ /\ request.route \in {"getFlower", "toWater"} /\ updates' = updates
         /\ \/ \E text : answer' = Text(c, text)
            \/ \E x : answer' = FlowerAnswer(c, x)
      \/ /\ handler.at = "serve" /\ request.route = "water" /\ answer' = Text(c, "OK")
         /\ updates' = Append(updates, request.index)
  BY SecondHalfMoves DEF boardVars
<1>5. ThreadsRest(c) /\ UNCHANGED <<response, flower_watering_counts, waterings>>
  BY <1>1 DEF ThreadsRest, clientThreads, gardenerThreads, wateringVars, flowerbedThreads,
              mainVars, pushVars, history
<1>6. repetitionsLeft \in Int /\ waterings[flower] \in Int /\ updates \in Seq(Flowers)
      /\ Times(flower, updates) \in Nat
  BY SystemAssumption, WhereOK DEF SystemInv, CountsOK, ListsFit
<1>7. repetitionsLeft' <= repetitionsLeft
  BY <1>2, <1>6
<1>8. /\ request.route = "water" => c \in Gardeners /\ request.index \in Flowers
      /\ request.route = "getUpdates" => c \in Flowerbeds /\ c \notin Gardeners
  BY <1>1, RequestsKnown, ProgramAssumption
<1>9. /\ Telling(flower)' \subseteq Telling(flower) \cup {c}
      /\ \A f \in Flowerbeds \ {c} : Bringing(f)' = Bringing(f)
  BY <1>1, <1>5, PlacesElsewhere, PlacesFinite
<1>10. Bringing(c) = <<>>
  BY <1>1 DEF Bringing
<1>11. ASSUME NEW list \in Seq(Flowers), ReportIn(answer') = list
       PROVE  /\ Cardinality(Reports(flower)') \in Nat
              /\ Cardinality(Reports(flower)')
                   <= Cardinality(Reports(flower)) + Times(flower, list)
  <2>1. socket[c].stage # "ended"
    BY <1>1
  <2> QED
    BY <1>1, <1>3, <1>11, <2>1, ReportsDelivered
<1>12. ASSUME request.route # "water" PROVE Telling(flower)' \subseteq Telling(flower)
  <2>1. c \notin Telling(flower)'
    BY <1>1, <1>12 DEF Telling, Asks
  <2> QED
    BY <1>9, <2>1
<1>13. ASSUME ReportIn(answer') = <<>>
       PROVE  /\ Cardinality(Reports(flower)') \in Nat
              /\ Cardinality(Reports(flower)') <= Cardinality(Reports(flower))
  <2>1. <<>> \in Seq(Flowers)
    OBVIOUS
  <2>2. /\ Cardinality(Reports(flower)') \in Nat
        /\ Cardinality(Reports(flower)')
             <= Cardinality(Reports(flower)) + Times(flower, <<>>)
    BY <1>11, <1>13, <2>1
  <2>3. Times(flower, <<>>) = 0 /\ Cardinality(Reports(flower)) \in Nat
    BY TimesEmpty, ReportsFinite
  <2> QED
    BY <2>2, <2>3
<1>14. CASE /\ request.route # "water" /\ updates' = updates
            /\ Cardinality(Reports(flower)') \in Nat
            /\ Cardinality(Reports(flower)') <= Cardinality(Reports(flower))
  <2>1. Telling(flower)' \subseteq Telling(flower)
    BY <1>12, <1>14
  <2>2. waterings'[flower] = waterings[flower]
    BY <1>5
  <2> QED
    BY <1>1, <1>7, <1>14, <2>1, <2>2, ReportStays
<1>15. CASE /\ request.route = "getUpdates" /\ updates' = updates
            /\ socket'[c].stage = "taken" /\ late'[c] = late[c]
  <2>1. Bringing(c)' = <<>>
    BY <1>15 DEF Bringing
  <2>2. \A f \in Flowerbeds : Bringing(f)' = Bringing(f) /\ late'[f] = late[f]
    BY <1>3, <1>9, <1>10, <1>15, <2>1 DEF Delivered, Ids
  <2>3. Reports(flower)' = Reports(flower)
    BY <1>5, <2>2, ReportsStay
  <2>4. /\ Cardinality(Reports(flower)') \in Nat
        /\ Cardinality(Reports(flower)') <= Cardinality(Reports(flower))
    BY <2>3, ReportsFinite
  <2> QED
    BY <1>14, <1>15, <2>4
<1>16. CASE /\ request.route \in {"getFlower", "toWater"} /\ updates' = updates
            /\ \/ \E text : answer' = Text(c, text)
               \/ \E x : answer' = FlowerAnswer(c, x)
  <2>1. ReportIn(answer') = <<>>
    BY <1>16, ReportsIn
  <2> QED
    BY <1>13, <1>14, <1>16, <2>1
<1>17. CASE /\ request.route = "getUpdates" /\ answer' = UpdatesAnswer(c, updates)
            /\ updates' = <<>>
  <2>1. ReportIn(answer') = updates
    BY <1>17, ReportsIn
  <2>2. /\ Cardinality(Reports(flower)') \in Nat
        /\ Cardinality(Reports(flower)')
             <= Cardinality(Reports(flower)) + Times(flower, updates)
    BY <1>6, <1>11, <2>1
  <2>3. /\ Cardinality(Telling(flower)') \in Nat
        /\ Cardinality(Telling(flower)') <= Cardinality(Telling(flower)) + 0
    <3>1. /\ Cardinality(Telling(flower)') \in Nat /\ Cardinality(Telling(flower)) \in Nat
          /\ Cardinality(Telling(flower)') <= Cardinality(Telling(flower))
      BY <1>12, <1>17, PlacesFinite, CountShrinks
    <3> QED
      BY <3>1
  <2>4. /\ Times(flower, updates') \in Nat
        /\ Times(flower, updates') <= Times(flower, updates) + (- Times(flower, updates))
    <3>1. Times(flower, updates') = 0
      BY <1>17, TimesEmpty
    <3> QED
      BY <1>6, <3>1
  <2>5. waterings'[flower] = waterings[flower] + 0
    BY <1>5, <1>6
  <2>6. 0 \in Int /\ Times(flower, updates) \in Int /\ - Times(flower, updates) \in Int
    BY <1>6
  <2>7. 0 + (- Times(flower, updates)) + Times(flower, updates)
           <= 0 + (repetitionsLeft - repetitionsLeft')
    <3>1. \A n \in Nat : \A p, p1 \in Int : p1 <= p => 0 + (- n) + n <= 0 + (p - p1)
      OBVIOUS
    <3> QED
      BY <1>1, <1>6, <1>7, <3>1, Zenon
  <2> QED
    BY <1>1, <2>2, <2>3, <2>4, <2>5, <2>6, <2>7, ReportBalance, Zenon
<1>18. CASE /\ handler.at = "serve" /\ request.route = "water" /\ answer' = Text(c, "OK")
            /\ updates' = Append(updates, request.index)
  <2>1. /\ Cardinality(Reports(flower)') \in Nat
        /\ Cardinality(Reports(flower)') <= Cardinality(Reports(flower)) + 0
    <3>1. ReportIn(answer') = <<>>
      BY <1>18, ReportsIn
    <3>2. /\ Cardinality(Reports(flower)') \in Nat /\ Cardinality(Reports(flower)) \in Nat
          /\ Cardinality(Reports(flower)') <= Cardinality(Reports(flower))
      BY <1>13, <3>1, ReportsFinite
    <3> QED
      BY <3>2
  <2>2. c \in Gardeners /\ request.index \in Flowers /\ ToBeDone(c)
    BY <1>1, <1>8, <1>18
  <2>3. c \in Telling(flower) <=> request.index = flower
    BY <1>1, <1>18, <2>2 DEF Telling, Asks
  <2>4. c \in Telling(flower)' => request.index = flower /\ ToBeDone(c)'
    BY <1>1 DEF Telling
  <2>5. Telling(flower)' \subseteq Telling(flower)
    BY <1>9, <2>3, <2>4
  <2>6. waterings'[flower] = waterings[flower] + 0
    BY <1>5, <1>6
  <2>7. 0 \in Int /\ 1 \in Int /\ -1 \in Int
    OBVIOUS
  <2>8. /\ Cardinality(Telling(flower)') \in Nat
        /\ Cardinality(Telling(flower)') <= Cardinality(Telling(flower)) + 0
    <3>1. /\ Cardinality(Telling(flower)') \in Nat /\ Cardinality(Telling(flower)) \in Nat
          /\ Cardinality(Telling(flower)') <= Cardinality(Telling(flower))
      BY <2>5, PlacesFinite, CountShrinks
    <3> QED
      BY <3>1
  <2>9. Times(flower, updates') = IF request.index = flower THEN Times(flower, updates) + 1
                                                            ELSE Times(flower, updates)
    BY <1>6, <1>18, <2>2, TimesAppend
  <2>10. CASE request.index # flower
    <3>1. /\ Times(flower, updates') \in Nat
          /\ Times(flower, updates') <= Times(flower, updates) + 0
      BY <1>6, <2>9, <2>10
    <3>2. 0 + 0 + 0 <= 0 + (repetitionsLeft - repetitionsLeft')
      <4>1. \A p, p1 \in Int : p1 <= p => 0 + 0 + 0 <= 0 + (p - p1)
        OBVIOUS
      <4> QED
        BY <1>1, <1>6, <1>7, <4>1, Zenon
    <3> QED
      BY <1>1, <2>1, <2>6, <2>7, <2>8, <3>1, <3>2, ReportBalance, Zenon
  <2>11. CASE request.index = flower
    <3>1. /\ Times(flower, updates') \in Nat
          /\ Times(flower, updates') <= Times(flower, updates) + 1
      BY <1>6, <2>9, <2>11
    <3>2. CASE repetitionsLeft' = repetitionsLeft /\ ~ ToBeDone(c)'
      <4>1. Telling(flower)' \subseteq Telling(flower) \ {c} /\ c \in Telling(flower)
        BY <2>3, <2>4, <2>5, <2>11, <3>2
      <4>2. /\ Cardinality(Telling(flower)') \in Nat
            /\ Cardinality(Telling(flower)') <= Cardinality(Telling(flower)) + -1
        <5>1. /\ Cardinality(Telling(flower)') \in Nat /\ Cardinality(Telling(flower)) \in Nat
              /\ Cardinality(Telling(flower)') + 1 <= Cardinality(Telling(flower))
          BY <4>1, PlacesFinite, CountLoses
        <5> QED
          BY <5>1
      <4>3. -1 + 1 + 0 <= 0 + (repetitionsLeft - repetitionsLeft')
        BY <1>6, <3>2
      <4> QED
        BY <1>1, <2>1, <2>6, <2>7, <3>1, <4>2, <4>3, ReportBalance, Zenon
    <3>3. CASE repetitionsLeft' = repetitionsLeft - 1
      <4>1. 0 + 1 + 0 <= 0 + (repetitionsLeft - repetitionsLeft')
        BY <1>6, <3>3
      <4> QED
        BY <1>1, <2>1, <2>6, <2>7, <2>8, <3>1, <4>1, ReportBalance, Zenon
    <3> QED
      BY <1>2, <3>2, <3>3
  <2> QED
    BY <2>10, <2>11
<1> QED
  BY <1>4, <1>15, <1>16, <1>17, <1>18

LEMMA ReportOfWorker ==
  ASSUME SystemInv,
         UNCHANGED <<socket, late, handler, boardVars, clientThreads, budget, history>>,
         NEW flower \in Flowers, ReportOnce(flower)
  PROVE  ReportOnce(flower)'
<1>1. /\ Telling(flower)' = Telling(flower) /\ Reports(flower)' = Reports(flower)
      /\ Times(flower, updates)' = Times(flower, updates)
      /\ waterings' = waterings /\ repetitionsLeft' = repetitionsLeft
  BY DEF Telling, Asks, ToBeDone, Reports, Bringing, ReportIn, Times, Where, clientThreads,
         flowerbedThreads, mainVars, budget, history, boardVars
<1> QED
  BY <1>1 DEF ReportOnce, Repeated

(* A gardener tells of a watering only when it has watered. *)
LEMMA ReportOfGardener ==
  ASSUME SystemInv, NEW g \in Gardeners,
         \/ GardenerStep(g, PingerLocks(g)) \/ GardenerStep(g, PingerRuns(g))
         \/ GardenerStep(g, WatererLocks(g)) \/ GardenerStep(g, WatererRuns(g)),
         NEW flower \in Flowers, ReportOnce(flower)
  PROVE  ReportOnce(flower)'
<1>1. /\ OthersRest(g) /\ ThreadsRest(g) /\ g \in Ids /\ g \notin Flowerbeds
      /\ UNCHANGED <<boardVars, flowerbedThreads, asked, late, budget>>
      /\ \/ /\ waterings'[flower] = waterings[flower]
            /\ g \in Telling(flower)' => g \in Telling(flower)
         \/ waterings'[flower] = waterings[flower] + 1
  BY GardenerMoves
<1>2. /\ Telling(flower)' \subseteq Telling(flower) \cup {g}
      /\ \A f \in Flowerbeds : Bringing(f)' = Bringing(f)
  BY <1>1, PlacesElsewhere, PlacesFinite
<1>3. Reports(flower)' = Reports(flower)
  BY <1>1, <1>2, ReportsStay DEF flowerbedThreads, mainVars
<1>4. Cardinality(Reports(flower)) \in Nat
  BY ReportsFinite
<1>5. /\ repetitionsLeft' = repetitionsLeft /\ repetitionsLeft \in Int
      /\ waterings[flower] \in Int /\ Times(flower, updates) \in Nat
      /\ updates' = updates
  BY <1>1, SystemAssumption, WhereOK DEF budget, boardVars, SystemInv, CountsOK, ListsFit
<1>6. CASE /\ waterings'[flower] = waterings[flower]
           /\ g \in Telling(flower)' => g \in Telling(flower)
  <2>1. Telling(flower)' \subseteq Telling(flower)
    BY <1>2, <1>6
  <2>2. /\ Cardinality(Reports(flower)') \in Nat
        /\ Cardinality(Reports(flower)') <= Cardinality(Reports(flower))
        /\ repetitionsLeft' \in Int /\ repetitionsLeft' <= repetitionsLeft
    BY <1>3, <1>4, <1>5
  <2> QED
    BY <1>5, <1>6, <2>1, <2>2, ReportStays
<1>7. CASE waterings'[flower] = waterings[flower] + 1
  <2>1. /\ Cardinality(Telling(flower)') \in Nat
        /\ Cardinality(Telling(flower)') <= Cardinality(Telling(flower)) + 1
    BY <1>2, PlacesFinite, CountGains
  <2>2. /\ Times(flower, updates') \in Nat
        /\ Times(flower, updates') <= Times(flower, updates) + 0
    BY <1>5
  <2>3. /\ Cardinality(Reports(flower)') \in Nat
        /\ Cardinality(Reports(flower)') <= Cardinality(Reports(flower)) + 0
    BY <1>3, <1>4
  <2>4. /\ repetitionsLeft' \in Int
        /\ 1 + 0 + 0 <= 1 + (repetitionsLeft - repetitionsLeft')
    BY <1>5
  <2>5. 0 \in Int /\ 1 \in Int
    OBVIOUS
  <2> QED
    BY <1>7, <2>1, <2>2, <2>3, <2>4, <2>5, ReportBalance, Zenon
<1> QED
  BY <1>1, <1>6, <1>7

(* A flowerbed reads what it was sent and counts what it has read. *)
LEMMA FlowerbedReads ==
  ASSUME SystemInv, NEW f \in Flowerbeds, FlowerbedRuns(f), handler' = handler,
         late' = late, OnlyTo(f), NEW flower \in Flowers
  PROVE  /\ Cardinality(Reports(flower)') \in Nat
         /\ Cardinality(Reports(flower)') <= Cardinality(Reports(flower))
<1>1. /\ f \in Ids /\ f \in DOMAIN response
      /\ flower_watering_counts \in [Flowerbeds -> [Flowers -> Nat]]
      /\ response[f] \in Seq(Flowers)
  BY DEF SystemInv, FlowerbedsOK, FlowerbedTypeOK, Ids
<1>2. CallMoves(f) /\ FlowerbedsOK'
  BY FlowerbedMoves DEF FlowerbedRuns
<1>3. /\ flower_watering_counts'[f][flower] \in Nat /\ response'[f] \in Seq(Flowers)
  BY <1>2 DEF FlowerbedsOK, FlowerbedTypeOK
<1>4. \/ UNCHANGED socket
      \/ socket'[f].stage = "sent"
      \/ socket'[f] = Free
  BY <1>1, <1>2, CallMovesPlaces
<1>5. Bringing(f)' = <<>> \/ (UNCHANGED socket /\ Bringing(f)' = Bringing(f))
  BY <1>4 DEF Bringing, Asks, Free
<1>6. Bringing(f) \in Seq(Flowers) /\ Bringing(f)' \in Seq(Flowers)
  <2>1. Bringing(f) \in Seq(Flowers) /\ <<>> \in Seq(Flowers)
    BY BringingLists
  <2> QED
    BY <1>5, <2>1
<1> DEFINE all   == Cardinality(Reports(flower))
           all1  == Cardinality(Reports(flower)')
           n     == flower_watering_counts[f][flower]
           n1    == flower_watering_counts'[f][flower]
           read  == Times(flower, response[f])
           read1 == Times(flower, response'[f])
           sent  == Times(flower, Bringing(f))
           sent1 == Times(flower, Bringing(f)')
           left  == Times(flower, ReportIn(late[f]))
<1>7. /\ all \in Nat /\ all1 \in Nat /\ n \in Nat /\ n1 \in Nat
      /\ read \in Nat /\ sent \in Nat /\ read1 \in Nat /\ sent1 \in Nat
      /\ all1 + (n + read + sent) = all + (n1 + read1 + sent1)
  <2>1. late'[f] = late[f] /\ ReportIn(late'[f]) \in Seq(Flowers)
    BY LateLists
  <2>2. /\ all \in Nat /\ all1 \in Nat /\ n \in Nat /\ n1 \in Nat
        /\ read \in Nat /\ sent \in Nat /\ read1 \in Nat /\ sent1 \in Nat
        /\ left \in Nat /\ Times(flower, ReportIn(late'[f])) = left
        /\ all1 + (n + read + sent + left)
             = all + (n1 + read1 + sent1 + Times(flower, ReportIn(late'[f])))
    <3>1. n1 \in Nat
      BY <1>3
    <3> QED
      BY <1>3, <1>6, <2>1, <3>1, ReportsChange
  <2> HIDE DEF all, all1, n, n1, read, read1, sent, sent1, left
  <2> QED
    BY <2>2
<1>8. Times(flower, <<>>) = 0
  BY TimesEmpty
<1>9. sent1 = 0 \/ (UNCHANGED socket /\ sent1 = sent)
  BY <1>5, <1>8
<1>10. sent1 <= sent
  <2> HIDE DEF sent, sent1
  <2> QED
    BY <1>7, <1>9
<1>11. ASSUME n1 + read1 + sent1 <= n + read + sent
       PROVE  all1 \in Nat /\ all1 <= all
  <2> HIDE DEF all, all1, n, n1, read, read1, sent, sent1
  <2> QED
    BY <1>7, <1>11
<1>12. ASSUME n1 = n, response'[f] = response[f] PROVE all1 \in Nat /\ all1 <= all
  <2>1. read1 = read
    BY <1>12
  <2>2. n1 + read1 + sent1 <= n + read + sent
    <3> HIDE DEF n, n1, read, read1, sent, sent1
    <3> QED
      BY <1>7, <1>10, <1>12, <2>1
  <2> QED
    BY <1>11, <2>2
<1>13. CASE \/ PingLocks(f) \/ PingRuns(f) \/ PushLocks(f) \/ PushRuns(f)
            \/ MainLocks(f) \/ FirstPinged(f) \/ FetchLoop(f)
  <2>1. UNCHANGED <<response, flower_watering_counts>>
    <3>1. CASE PingLocks(f) \/ PingRuns(f) \/ PushLocks(f) \/ PushRuns(f)
      BY <3>1, FlowerbedPingMoves, FlowerbedPushMoves DEF mainVars
    <3>2. CASE MainLocks(f) \/ FirstPinged(f) \/ FetchLoop(f)
      BY <3>2 DEF MainLocks, FirstPing, FetchUpdates, FirstPinged, FetchLoop
    <3> QED
      BY <1>13, <3>1, <3>2
  <2> QED
    BY <1>12, <2>1
<1>14. CASE Fetched(f)
  <2>1. /\ flowerbedMain[f] = "fetched" /\ socket[f].stage = "ended" /\ socket[f].by = "main"
        /\ Unlock(f) /\ UNCHANGED flower_watering_counts
    BY <1>14 DEF Fetched, Returned
  <2>2. n1 = n
    BY <2>1
  <2>3. socket'[f] = Free
    BY <1>1, <2>1 DEF Unlock, SystemInv, SocketsOK
  <2>4. sent1 = 0
    BY <1>8, <2>3 DEF Bringing, Asks
  <2>5. CASE UNCHANGED response
    BY <1>12, <2>2, <2>5
  <2>6. CASE /\ socket[f].outcome.kind = "reply"
             /\ "updates" \in DOMAIN socket[f].outcome.answer
             /\ response' = At(response, f, socket[f].outcome.answer.updates)
    <3>1. response'[f] = socket[f].outcome.answer.updates
      BY <1>1, <2>6 DEF At
    <3>2. socket[f] # Free /\ socket[f].request = Request("getUpdates", f)
      <4>1. socket[f] # Free
        BY <2>1 DEF Free
      <4>2. IsMade(f)
        BY <1>1, <4>1 DEF SystemInv, SocketsOK
      <4>3. FlowerbedCalls(f)
        BY <4>2, FlowerbedsMade
      <4> QED
        BY <2>1, <4>1, <4>3 DEF FlowerbedCalls
    <3>3. Bringing(f) = response'[f]
      BY <2>1, <2>6, <3>1, <3>2 DEF Bringing, Asks, Request, ReportIn
    <3>4. response[f] = <<>>
      BY <2>1 DEF SystemInv, FlowerbedsOK, FlowerbedFits
    <3>5. read1 = sent /\ read = 0
      BY <1>8, <3>3, <3>4
    <3>6. n1 + read1 + sent1 <= n + read + sent
      <4> HIDE DEF n, n1, read, read1, sent, sent1
      <4> QED
        BY <1>7, <2>2, <2>4, <3>5
    <3> QED
      BY <1>11, <3>6
  <2> QED
    BY <1>14, <2>5, <2>6 DEF Fetched
<1>15. CASE HandleUpdate(f)
  <2> DEFINE i     == Head(response[f])
             count == flower_watering_counts[f][i] + 1
  <2>1. /\ flowerbedMain[f] = "handle" /\ UNCHANGED socket
        /\ flower_watering_counts' = [flower_watering_counts EXCEPT ![f][i] = count]
        /\ \/ response' = At(response, f, <<>>)
           \/ response' = At(response, f, Tail(response[f]))
    BY <1>15 DEF HandleUpdate
  <2>2. response[f] # <<>>
    BY <2>1 DEF SystemInv, FlowerbedsOK, FlowerbedFits
  <2>3. i \in Flowers /\ Tail(response[f]) \in Seq(Flowers)
    BY <1>1, <2>2
  <2>4. n1 = IF i = flower THEN n + 1 ELSE n
    <3> HIDE DEF i
    <3> QED
      BY <1>1, <2>1, <2>3
  <2>5. read = IF i = flower THEN Times(flower, Tail(response[f])) + 1
                             ELSE Times(flower, Tail(response[f]))
    BY <1>1, <2>2, TimesTail
  <2>6. Times(flower, Tail(response[f])) \in Nat
    BY <2>3, WhereOK
  <2>7. read1 = 0 \/ read1 = Times(flower, Tail(response[f]))
    BY <1>1, <1>8, <2>1 DEF At
  <2>8. n1 + read1 + sent1 <= n + read + sent
    <3> HIDE DEF i, n, n1, read, read1, sent, sent1
    <3>1. CASE i = flower
      <4>1. n1 = n + 1 /\ read = Times(flower, Tail(response[f])) + 1
        BY <2>4, <2>5, <3>1
      <4> QED
        BY <1>7, <1>10, <2>6, <2>7, <4>1
    <3>2. CASE i # flower
      <4>1. n1 = n /\ read = Times(flower, Tail(response[f]))
        BY <2>4, <2>5, <3>2
      <4> QED
        BY <1>7, <1>10, <2>6, <2>7, <4>1
    <3> QED
      BY <3>1, <3>2
  <2> QED
    BY <1>11, <2>8
<1> QED
  BY <1>13, <1>14, <1>15 DEF FlowerbedRuns, MainRuns

LEMMA ReportOfFlowerbed ==
  ASSUME SystemInv, NEW f \in Flowerbeds, IsFlowerbedStep(f),
         NEW flower \in Flowers, ReportOnce(flower)
  PROVE  ReportOnce(flower)'
<1>1. /\ FlowerbedRuns(f) /\ OthersRest(f) /\ ThreadsRest(f) /\ f \notin Gardeners
      /\ UNCHANGED <<handler, boardVars, gardenerThreads, waterings, late, budget>>
  BY FlowerbedStepMoves
<1>2. /\ Telling(flower)' \subseteq Telling(flower)
      /\ \A x \in Flowerbeds \ {f} : Bringing(x)' = Bringing(x)
  BY <1>1, PlacesElsewhere, PlacesFinite
<1>3. OnlyTo(f)
  BY <1>1, <1>2 DEF OnlyTo, ThreadsRest
<1>4. /\ Cardinality(Reports(flower)') \in Nat
      /\ Cardinality(Reports(flower)') <= Cardinality(Reports(flower))
  BY <1>1, <1>3, FlowerbedReads
<1>5. /\ repetitionsLeft' \in Int /\ repetitionsLeft' <= repetitionsLeft
      /\ waterings'[flower] = waterings[flower] /\ updates' = updates
  <2>1. repetitionsLeft' = repetitionsLeft /\ repetitionsLeft \in Int
    BY <1>1, SystemAssumption DEF budget, SystemInv, CountsOK
  <2> QED
    BY <1>1, <2>1 DEF boardVars
<1> QED
  BY <1>2, <1>4, <1>5, ReportStays

LEMMA NextReports ==
  ASSUME SystemInv, [SystemNext]_systemVars, NEW flower \in Flowers, ReportOnce(flower)
  PROVE  ReportOnce(flower)'
<1>1. CASE \E c \in Ids : ServerTakes(c) \/ RequestLost(c) \/ CallTimesOut(c)
  BY <1>1, ReportOfFirstHalf DEF FirstHalf
<1>2. CASE ServerContinues
  BY <1>2, ReportOfSecondHalf
<1>3. CASE WorkerChecks \/ SystemTick \/ UNCHANGED systemVars
  BY <1>3, WorkerMoves, ReportOfWorker
<1>4. CASE \E g \in Gardeners :
             \/ GardenerStep(g, PingerLocks(g)) \/ GardenerStep(g, PingerRuns(g))
             \/ GardenerStep(g, WatererLocks(g)) \/ GardenerStep(g, WatererRuns(g))
  BY <1>4, ReportOfGardener
<1>5. CASE \E f \in Flowerbeds : IsFlowerbedStep(f)
  BY <1>5, ReportOfFlowerbed
<1> QED
  BY <1>1, <1>2, <1>3, <1>4, <1>5 DEF SystemNext, IsFlowerbedStep

LEMMA InitReports ==
  ASSUME SystemInit, NEW flower \in Flowers
  PROVE  ReportOnce(flower)
<1>1. /\ socket = [c \in Ids |-> Free] /\ updates = <<>>
      /\ response = [f \in Flowerbeds |-> <<>>]
      /\ flower_watering_counts = [f \in Flowerbeds |-> [x \in Flowers |-> 0]]
      /\ waterings[flower] = 0 /\ Repeated = 0 /\ late = [c \in Ids |-> NoAnswer]
  BY SystemAssumption DEF SystemInit, AppInit, FlowerbedInit, FlowerbedLocals, Repeated
<1>2. Telling(flower) = {}
  BY <1>1 DEF Telling, Asks, Ids
<1>3. Reports(flower) = {}
  <2>1. \A f \in Flowerbeds : /\ Bringing(f) = <<>> /\ response[f] = <<>>
                              /\ flower_watering_counts[f][flower] = 0
                              /\ ReportIn(late[f]) = <<>>
    BY <1>1, ReportsIn DEF Bringing, Asks, Ids
  <2>2. Where(flower, <<>>) = {} /\ 1..0 = {}
    BY DEF Where
  <2> QED
    BY <2>1, <2>2 DEF Reports
<1>4. Cardinality({}) = 0 /\ Times(flower, updates) = 0
  BY <1>1, TimesEmpty, FS_EmptySet
<1> QED
  BY <1>1, <1>2, <1>3, <1>4 DEF ReportOnce

ReportsOnce == \A flower \in Flowers : ReportOnce(flower)

LEMMA ReportsInvariant == SystemSpec => []ReportsOnce
<1>1. SystemInit => ReportsOnce
  BY InitReports DEF ReportsOnce
<1>2. SystemInv /\ ReportsOnce /\ [SystemNext]_systemVars => ReportsOnce'
  BY NextReports DEF ReportsOnce
<1> QED
  BY <1>1, <1>2, SystemInvariant, PTL DEF SystemSpec

(* Each watering is reported once at most, to one flowerbed, but for requests that
   are handled twice. *)
THEOREM WateringsReportedOnce == SystemSpec => []ReportsAreNotDoubled
<1>1. ReportsOnce => ReportsAreNotDoubled
  BY DEF ReportsOnce, ReportOnce, ReportsAreNotDoubled
<1> QED
  BY <1>1, ReportsInvariant, PTL

(* As long as no request was handled twice, a flowerbed that stops for a flower
   that was watered twice is right. *)
THEOREM DeathByWater == SystemSpec => [](repetitionsLeft = Repetitions => DiesOnlyOfWater)
<1>1. SystemInv /\ ReportsOnce => (repetitionsLeft = Repetitions => DiesOnlyOfWater)
  <2> SUFFICES ASSUME SystemInv, ReportsOnce, repetitionsLeft = Repetitions,
                      NEW f \in Flowerbeds, NEW flower \in Flowers,
                      flower_watering_counts[f][flower] > 1
               PROVE  waterings[flower] > 1
    BY DEF DiesOnlyOfWater
  <2> DEFINE n == flower_watering_counts[f][flower]
             T == Tagged(f, "counted", 1..n)
  <2>1. n \in Nat /\ waterings[flower] \in Nat
    BY DEF SystemInv, FlowerbedsOK, FlowerbedTypeOK, CountsOK
  <2>2. Repeated = 0
    BY SystemAssumption DEF Repeated
  <2>3. Cardinality(Telling(flower)) \in Nat /\ Times(flower, updates) \in Nat
    BY PlacesFinite, FS_CardinalityType, WhereOK DEF SystemInv, ListsFit
  <2>4. T \subseteq Reports(flower)
    BY DEF Tagged, Reports
  <2>5. IsFiniteSet(1..n) /\ Cardinality(1..n) = n
    <3> HIDE DEF n
    <3> QED
      BY <2>1, FS_Interval
  <2>6. Cardinality(T) = n
    BY <2>5, TokensTagged
  <2>7. Cardinality(Reports(flower)) \in Nat /\ n <= Cardinality(Reports(flower))
    <3>1. IsFiniteSet(Reports(flower))
      BY ReportsFinite
    <3> HIDE DEF T, n
    <3> QED
      BY <2>4, <2>6, <3>1, CountShrinks
  <2>8. Cardinality(Telling(flower)) + Times(flower, updates)
          + Cardinality(Reports(flower)) <= waterings[flower] + 0
    BY <2>2 DEF ReportsOnce, ReportOnce
  <2> QED
    BY <2>1, <2>3, <2>7, <2>8
<1> QED
  BY <1>1, SystemInvariant, ReportsInvariant, PTL

-----------------------------------------------------------------------------
(* The server among its clients is still the server of FlowerBedServer_proofs:
   whatever a step of the system does, the server serves, sleeps, or rests. *)
ServerActs ==
  \/ \E request \in AppRequests : HandleMessage(request)
  \/ ContinueHandler \/ CheckConnections \/ AppTick

LEMMA SystemStepOfServer ==
  ASSUME SystemInv, [SystemNext]_systemVars
  PROVE  ServerActs \/ ServerIsQuiet \/ UNCHANGED appVars
<1>1. ASSUME NEW c \in Ids, ServerTakes(c) PROVE ServerActs
  <2>1. socket[c] # Free /\ HandleMessage(socket[c].request)
    BY <1>1 DEF ServerTakes, Free
  <2>2. socket[c].request \in AppRequests
    BY <2>1, RequestsKnown
  <2> QED
    BY <2>1, <2>2 DEF ServerActs
<1>2. CASE ServerContinues \/ WorkerChecks \/ SystemTick
  BY <1>2 DEF ServerContinues, WorkerChecks, SystemTick, ServerActs
<1>3. ASSUME NEW c \in Ids, RequestLost(c) \/ CallTimesOut(c) PROVE ServerIsQuiet
  BY <1>3 DEF RequestLost, CallTimesOut
<1>4. ASSUME NEW g \in Gardeners,
             \/ GardenerStep(g, PingerLocks(g)) \/ GardenerStep(g, PingerRuns(g))
             \/ GardenerStep(g, WatererLocks(g)) \/ GardenerStep(g, WatererRuns(g))
      PROVE  ServerIsQuiet
  BY <1>4 DEF GardenerStep
<1>5. ASSUME NEW f \in Flowerbeds,
             \/ FlowerbedStep(f, MainLocks(f)) \/ FlowerbedStep(f, MainRuns(f))
             \/ FlowerbedStep(f, PingLocks(f)) \/ FlowerbedStep(f, PingRuns(f))
             \/ FlowerbedStep(f, PushLocks(f)) \/ FlowerbedStep(f, PushRuns(f))
      PROVE  ServerIsQuiet
  BY <1>5 DEF FlowerbedStep
<1> QED
  BY <1>1, <1>2, <1>3, <1>4, <1>5 DEF SystemNext, systemVars

(* Gardeners, flowerbeds and losses included, the server is ready only if as many
   gardeners as it has seats, and a flowerbed, were heard within Grace
   (checkConnections, isReady). *)
THEOREM SystemReadyMeansPresent == SystemSpec => []ReadyMeansPresent
<1>1. SystemInv => ReadyMeansPresent
  BY ConnectedWereHeard DEF SystemInv
<1> QED
  BY <1>1, SystemInvariant, PTL

(* No step of server or clients takes the seat of a gardener that was heard within
   the timeout (checkConnections). *)
THEOREM SystemKeepsSeats == SystemSpec => PresenceIsKept
<1>1. SystemInv /\ [SystemNext]_systemVars =>
        [\A c \in gardener_ids : c \notin gardener_ids' => clock > heard[c] + TIMEOUT]_appVars
  <2> SUFFICES ASSUME SystemInv, [SystemNext]_systemVars,
                      NEW c \in gardener_ids, c \notin gardener_ids'
               PROVE  clock > heard[c] + TIMEOUT
    OBVIOUS
  <2>1. CheckConnections
    BY SystemStepOfServer, SeatsOnlyAdded DEF ServerActs, ServerIsQuiet, appVars
  <2> QED
    BY <2>1, SeatTaken DEF SystemInv
<1> QED
  BY <1>1, SystemInvariant, PTL DEF SystemSpec, PresenceIsKept

(* The server gives each flower once and reports each watering once and in order
   while its clients come and go, and lose or repeat their calls: the whole system
   implements WateringBoard. *)
THEOREM SystemIsWateringBoard == SystemSpec => IsWateringBoard
<1>1. SystemInit => Board!Init
  BY AnswersRead DEF SystemInit, AppInit, Board!Init
<1>2. ASSUME SystemInv, [SystemNext]_systemVars
      PROVE  [Board!Next]_<<flowersToWater, updates, ReportIn(answer), FlowerIn(answer)>>
  <2>1. CASE CheckConnections \/ AppTick \/ ServerIsQuiet
    <3>1. UNCHANGED boardVars /\ answer' = NoAnswer
      BY <2>1 DEF CheckConnections, AppTick, ServerIsQuiet, appState
    <3> QED
      BY <3>1, AnswersRead, PauseRefines
  <2>2. CASE UNCHANGED appVars
    BY <2>2 DEF appVars, appState, boardVars
  <2> QED
    BY <1>2, <2>1, <2>2, SystemStepOfServer, MessageRefines, ContinueRefines
       DEF ServerActs, SystemInv, AppInv
<1> QED
  BY <1>1, <1>2, SystemInvariant, PTL DEF SystemSpec, IsWateringBoard, Board!Spec
=============================================================================
