------------------------------ MODULE Population ------------------------------
(* Who takes part, what the clients ask the server for, and what it may answer. *)
EXTENDS Integers, Sequences, FiniteSets

CONSTANTS
  Gardeners,    \* the client ids of the running gardeners,
  Flowerbeds,   \* ... flowerbeds
  Monitors,     \* ... and monitors
  Flowers,      \* the flowers a flowerbed names
  ListBound     \* bound: the waterings a list of updates names

ASSUME FlowerAssumption == Flowers \subseteq Nat /\ ListBound \in Nat

(* The id of a client is the one the transport gave it, and each runs one program. *)
ASSUME ProgramAssumption ==
  /\ IsFiniteSet(Gardeners) /\ IsFiniteSet(Flowerbeds)
  /\ Gardeners \cap Flowerbeds = {}

Ids == Gardeners \cup Flowerbeds \cup Monitors

Request(route, id) == [route |-> route, id |-> id]
WaterRequest(id, index) == [route |-> "water", id |-> id, index |-> index]
ToWaterRequest(id, new) == [route |-> "toWater", id |-> id, flowers |-> new]

Text(id, text) == [to |-> id, text |-> text]
FlowerAnswer(id, index) == [to |-> id, flower |-> index]
UpdatesAnswer(id, list) == [to |-> id, updates |-> list]
MonitorAnswer(id, info) == [to |-> id, info |-> info]

UpdateLists == UNION {[1..n -> Flowers] : n \in 0..ListBound}

(* Every answer the server has for a request of a client. *)
AnswersTo(request) ==
  LET c        == request.id
      notReady == Text(c, "NOT_READY")
      answers  ==
        [pingGardener  |-> {Text(c, "OK"), Text(c, "ERR")},
         pingFlowerbed |-> {Text(c, "OK"), Text(c, "HC")},
         getFlower     |-> {notReady} \cup {FlowerAnswer(c, i) : i \in Flowers \cup {-1}},
         water         |-> {notReady, Text(c, "OK")},
         toWater       |-> {notReady, Text(c, "OK")},
         getUpdates    |-> {notReady} \cup {UpdatesAnswer(c, list) : list \in UpdateLists},
         monitor       |-> {MonitorAnswer(c, {})}]
  IN answers[request.route]
=============================================================================
