--------------------------- MODULE FlowerBedServer ---------------------------
(* The application of the server: the route handlers of Server, run by the main
   thread one message at a time, its worker thread, and the
   FlowerBedStateManager they share.  Every method of the state manager holds
   its mutex from the first line to the last, so one action is one method
   together with the handler's code around it; a handler that calls several
   methods leaves room for the worker between them ("handler" says where).

   The two threads are the ones of src/8-9-10, where all routes exist.  A flower
   is an integer; an update is the flower's index, its state is always 1.  A
   message that matches no route changes nothing. *)
EXTENDS Population

CONSTANTS
  Indices,      \* what a gardener says it watered: any integer
  MaxGardeners, \* the seats for gardeners: 2 in addGardener and isReady
  TIMEOUT,      \* seconds without a ping before a client is dropped
  PERIOD,       \* seconds the worker sleeps
  MaxDelay,     \* bound: how late the worker wakes up
  MaxClock,     \* bound: the clock
  MaxUpdates    \* bound: updates waiting for the flowerbed

ASSUME IndexAssumption == Indices \subseteq Int

ASSUME SeatsAssumption == MaxGardeners \in Nat \ {0}

ASSUME PeriodAssumption ==
  /\ TIMEOUT \in Nat /\ PERIOD \in Nat \ {0} /\ MaxDelay \in Nat
  /\ MaxClock \in Nat /\ MaxUpdates \in Nat

VARIABLES
  clock,                \* the clock the timestamps are taken from
  gardener_ids,
  gardener_timestamps,
  gardener_count,
  flowerbed_connected,
  last_flowerbed_ping,
  updates,
  flowersToWater,
  connected_monitors,
  handler,              \* where the main thread is
  workerWakes,          \* when the worker's sleep ends
  answer,               \* what the last step passed to sendMessage
  heard                 \* history: when each client last pinged as a gardener

gardenerVars == <<gardener_ids, gardener_timestamps, gardener_count, heard>>
flowerbedVars == <<flowerbed_connected, last_flowerbed_ping>>
boardVars == <<updates, flowersToWater>>
appState == <<clock, gardenerVars, flowerbedVars, boardVars, connected_monitors,
              handler, workerWakes>>
appVars == <<appState, answer>>

Idle == [at |-> "idle"]

(* The main thread holds a request and has read "seen" so far. *)
Busy(place, request, seen) == [at |-> place, request |-> request, seen |-> seen]

(* What the programs ask for. *)
AppRequests ==
  {Request(route, c) : c \in Gardeners, route \in {"pingGardener", "getFlower"}}
    \cup {WaterRequest(c, i) : c \in Gardeners, i \in Indices}
    \cup {Request(route, c) : c \in Flowerbeds, route \in {"pingFlowerbed", "getUpdates"}}
    \cup {ToWaterRequest(c, new) : c \in Flowerbeds, new \in SUBSET Flowers}
    \cup {Request("monitor", c) : c \in Monitors}

NoAnswer == [to |-> "nobody"]

Stamp(stamps, c) ==
  [x \in DOMAIN stamps \cup {c} |-> IF x = c THEN clock ELSE stamps[x]]

Among(stamps, S) == [x \in S |-> stamps[x]]

AppInit ==
  /\ clock = 0
  /\ gardener_ids = {} /\ gardener_timestamps = [c \in {} |-> 0]
  /\ gardener_count = 0 /\ heard = [c \in {} |-> 0]
  /\ flowerbed_connected = FALSE /\ last_flowerbed_ping = 0
  /\ updates = <<>> /\ flowersToWater = {}
  /\ connected_monitors = [c \in {} |-> 0]
  /\ handler = Idle /\ workerWakes = 0 /\ answer = NoAnswer

-----------------------------------------------------------------------------
(* Faulty variant: every ping counts. *)
AddGardenerPerPing(c) ==
  /\ c \in gardener_ids \/ Cardinality(gardener_ids) < MaxGardeners
  /\ gardener_ids' = gardener_ids \cup {c}
  /\ gardener_timestamps' = Stamp(gardener_timestamps, c)
  /\ gardener_count' = gardener_count + 1

(* Faulty variant: a known gardener is not refreshed. *)
AddGardenerOnce(c) ==
  /\ c \in gardener_ids \/ Cardinality(gardener_ids) < MaxGardeners
  /\ gardener_ids' = gardener_ids \cup {c}
  /\ gardener_timestamps' = IF c \in gardener_ids THEN gardener_timestamps
                                                  ELSE Stamp(gardener_timestamps, c)
  /\ gardener_count' = Cardinality(gardener_ids')

(* addGardener: a known gardener is refreshed, a new one needs a free seat. *)
AddGardener(c) ==
  /\ c \in gardener_ids \/ Cardinality(gardener_ids) < MaxGardeners
  /\ gardener_ids' = gardener_ids \cup {c}
  /\ gardener_timestamps' = Stamp(gardener_timestamps, c)
  /\ gardener_count' = Cardinality(gardener_ids')

RefuseGardener(c) ==
  /\ c \notin gardener_ids /\ Cardinality(gardener_ids) >= MaxGardeners
  /\ UNCHANGED <<gardener_ids, gardener_timestamps, gardener_count>>

(* handleGardenerPing *)
HandleGardenerPing(request) ==
  /\ request.route = "pingGardener"
  /\ \/ AddGardener(request.id) /\ answer' = Text(request.id, "OK")
     \/ RefuseGardener(request.id) /\ answer' = Text(request.id, "ERR")
  /\ heard' = Stamp(heard, request.id)
  /\ handler' = Idle
  /\ UNCHANGED <<clock, flowerbedVars, boardVars, connected_monitors, workerWakes>>

(* handleFlowerbedPing: setFlowerbedConnected(true) notes the ping in any case,
   and is true only for the ping that found no flowerbed. *)
HandleFlowerbedPing(request) ==
  /\ request.route = "pingFlowerbed"
  /\ flowerbed_connected' = TRUE
  /\ last_flowerbed_ping' = clock
  /\ answer' = Text(request.id, IF flowerbed_connected THEN "HC" ELSE "OK")
  /\ handler' = Idle
  /\ UNCHANGED <<clock, gardenerVars, boardVars, connected_monitors, workerWakes>>

-----------------------------------------------------------------------------
IsReady == flowerbed_connected /\ gardener_count >= MaxGardeners

(* The first call of the four handlers that need a complete set of clients; the
   bound on the updates is here, where the main thread has no request yet. *)
CheckReady(request) ==
  /\ request.route \in {"getUpdates", "getFlower", "water", "toWater"}
  /\ request.route = "water" => Len(updates) < MaxUpdates
  /\ IF IsReady
       THEN handler' = Busy("serve", request, <<>>) /\ answer' = NoAnswer
       ELSE handler' = Idle /\ answer' = Text(request.id, "NOT_READY")
  /\ UNCHANGED <<clock, gardenerVars, flowerbedVars, boardVars,
                 connected_monitors, workerWakes>>

Serves(route) == handler.at = "serve" /\ handler.request.route = route

Respond(text) == answer' = text /\ handler' = Idle

Elsewhere ==
  UNCHANGED <<clock, gardenerVars, flowerbedVars, connected_monitors, workerWakes>>

(* handleGetUpdates copies the list in one critical section ... *)
GetUpdates ==
  /\ Serves("getUpdates")
  /\ handler' = Busy("clear", handler.request, updates)
  /\ answer' = NoAnswer
  /\ UNCHANGED boardVars /\ Elsewhere

(* Faulty variant: what was reported stays on the list. *)
ClearUpdatesNever ==
  /\ handler.at = "clear"
  /\ Respond(UpdatesAnswer(handler.request.id, handler.seen))
  /\ UNCHANGED boardVars /\ Elsewhere

(* ... and clears it in a second one, then answers with the copy. *)
ClearUpdates ==
  /\ handler.at = "clear"
  /\ updates' = <<>>
  /\ Respond(UpdatesAnswer(handler.request.id, handler.seen))
  /\ UNCHANGED flowersToWater /\ Elsewhere

(* Faulty variant: the flower stays in the set. *)
GetFlowerToWaterAgain ==
  /\ Serves("getFlower")
  /\ \E flower \in flowersToWater : Respond(FlowerAnswer(handler.request.id, flower))
  /\ UNCHANGED boardVars /\ Elsewhere

(* handleGardenerRequest: any flower of the unordered set, or -1. *)
GetFlowerToWater ==
  /\ Serves("getFlower")
  /\ \/ /\ flowersToWater = {}
        /\ Respond(FlowerAnswer(handler.request.id, -1))
        /\ UNCHANGED flowersToWater
     \/ \E flower \in flowersToWater :
          /\ flowersToWater' = flowersToWater \ {flower}
          /\ Respond(FlowerAnswer(handler.request.id, flower))
  /\ UNCHANGED updates /\ Elsewhere

(* handleGardenerWatered *)
AddUpdate ==
  /\ Serves("water")
  /\ handler.request.index >= 0
  /\ updates' = Append(updates, handler.request.index)
  /\ Respond(Text(handler.request.id, "OK"))
  /\ UNCHANGED flowersToWater /\ Elsewhere

RefuseUpdate ==
  /\ Serves("water")
  /\ handler.request.index < 0
  /\ Respond(Text(handler.request.id, "ERR"))
  /\ UNCHANGED boardVars /\ Elsewhere

(* handleFlowerbedNewFlowers *)
AddFlowersToWater ==
  /\ Serves("toWater")
  /\ flowersToWater' = flowersToWater \cup handler.request.flowers
  /\ Respond(Text(handler.request.id, "OK"))
  /\ UNCHANGED updates /\ Elsewhere

-----------------------------------------------------------------------------
(* handleMonitorRequest: updateNonitorConnection, then getMonitorData. *)
NoteMonitor(request) ==
  /\ request.route = "monitor"
  /\ LET stamped == Stamp(connected_monitors, request.id) IN
     connected_monitors' =
       Among(stamped, {c \in DOMAIN stamped : stamped[c] >= clock - TIMEOUT})
  /\ handler' = Busy("monitor", request, <<>>)
  /\ answer' = NoAnswer
  /\ UNCHANGED <<clock, gardenerVars, flowerbedVars, boardVars, workerWakes>>

MonitorData ==
  [gardeners |-> gardener_count, flowerbed |-> flowerbed_connected,
   toWater |-> flowersToWater, watered |-> updates, monitors |-> connected_monitors]

GetMonitorData ==
  /\ handler.at = "monitor"
  /\ Respond(MonitorAnswer(handler.request.id, MonitorData))
  /\ UNCHANGED boardVars /\ Elsewhere

-----------------------------------------------------------------------------
(* handleMessage: the main thread takes a message when it is done with the last. *)
HandleMessage(request) ==
  /\ handler = Idle
  /\ \/ HandleGardenerPing(request)
     \/ HandleFlowerbedPing(request)
     \/ CheckReady(request)
     \/ NoteMonitor(request)

(* The rest of the handler, after its first critical section. *)
ContinueHandler ==
  \/ GetUpdates \/ ClearUpdates
  \/ GetFlowerToWater
  \/ AddUpdate \/ RefuseUpdate
  \/ AddFlowersToWater
  \/ GetMonitorData

SilentFor(stamp) == clock - stamp > TIMEOUT

(* Faulty variant: the count of the gardeners is left as it was. *)
CheckConnectionsUncounted ==
  /\ clock >= workerWakes
  /\ gardener_ids' = {c \in gardener_ids : ~ SilentFor(gardener_timestamps[c])}
  /\ gardener_timestamps' =
       Among(gardener_timestamps,
             {c \in DOMAIN gardener_timestamps : ~ SilentFor(gardener_timestamps[c])})
  /\ flowerbed_connected' = (flowerbed_connected /\ ~ SilentFor(last_flowerbed_ping))
  /\ workerWakes' = clock + PERIOD
  /\ answer' = NoAnswer
  /\ UNCHANGED <<clock, gardener_count, heard, last_flowerbed_ping, boardVars,
                 connected_monitors, handler>>

(* checkConnections, and the sleep that follows; isReady only decides what the
   worker prints. *)
CheckConnections ==
  /\ clock >= workerWakes
  /\ gardener_ids' = {c \in gardener_ids : ~ SilentFor(gardener_timestamps[c])}
  /\ gardener_timestamps' =
       Among(gardener_timestamps,
             {c \in DOMAIN gardener_timestamps : ~ SilentFor(gardener_timestamps[c])})
  /\ gardener_count' = Cardinality(gardener_ids')
  /\ flowerbed_connected' = (flowerbed_connected /\ ~ SilentFor(last_flowerbed_ping))
  /\ workerWakes' = clock + PERIOD
  /\ answer' = NoAnswer
  /\ UNCHANGED <<clock, heard, last_flowerbed_ping, boardVars,
                 connected_monitors, handler>>

(* The worker runs at the latest MaxDelay after its sleep. *)
AppTick ==
  /\ clock < MaxClock
  /\ clock < workerWakes + MaxDelay
  /\ clock' = clock + 1
  /\ answer' = NoAnswer
  /\ UNCHANGED <<gardenerVars, flowerbedVars, boardVars, connected_monitors,
                 handler, workerWakes>>

AppNext ==
  \/ \E request \in AppRequests : HandleMessage(request)
  \/ ContinueHandler
  \/ CheckConnections
  \/ AppTick

AppSpec == AppInit /\ [][AppNext]_appVars

-----------------------------------------------------------------------------
IsStamps(f) == DOMAIN f \subseteq Ids /\ f \in [DOMAIN f -> Nat]

(* Every variable of the application keeps its type. *)
AppTypeOK ==
  /\ clock \in Nat /\ workerWakes \in Nat
  /\ gardener_ids \subseteq Ids
  /\ IsStamps(gardener_timestamps) /\ IsStamps(heard) /\ IsStamps(connected_monitors)
  /\ gardener_count \in 0..MaxGardeners
  /\ flowerbed_connected \in BOOLEAN /\ last_flowerbed_ping \in Nat
  /\ updates \in Seq(Nat)
  /\ flowersToWater \subseteq Flowers
  /\ \/ handler = Idle
     \/ /\ handler.at \in {"serve", "clear", "monitor"}
        /\ handler.request \in AppRequests
        /\ handler.seen \in Seq(Nat)

Grace == TIMEOUT + PERIOD + MaxDelay

(* The server lets clients work only with all gardeners and a flowerbed that were
   heard not longer ago than the timeout and one sleep of the worker: silent
   clients do not keep the server ready (isReady, checkConnections). *)
ReadyMeansPresent ==
  IsReady =>
    /\ Cardinality({c \in DOMAIN heard : clock <= heard[c] + Grace}) >= MaxGardeners
    /\ clock <= last_flowerbed_ping + Grace

(* A gardener that was heard within the timeout keeps its seat, whatever the
   worker and the other clients do (addGardener, checkConnections). *)
PresenceIsKept ==
  [][\A c \in gardener_ids :
       c \notin gardener_ids' => clock > heard[c] + TIMEOUT]_appVars

(* The state of WateringBoard: what an answer reports, and the flower it gives. *)
ReportIn(reply) == IF "updates" \in DOMAIN reply THEN reply.updates ELSE <<>>

FlowerIn(reply) == IF "flower" \in DOMAIN reply THEN reply.flower ELSE -1

Board == INSTANCE WateringBoard WITH
  wanted <- flowersToWater, watered <- updates,
  report <- ReportIn(answer), given <- FlowerIn(answer)

(* The board of flowers and updates behaves as if each handler were one step:
   between copying and clearing the updates none is lost and none told twice
   (handleGetUpdates, server.cpp:122). *)
IsWateringBoard == Board!Spec
=============================================================================
