------------------------------ MODULE FlowerBed ------------------------------
(* FlowerBedClient: the main thread, a thread that pings and a thread that names
   new flowers share a socket, the stop_flag and mtx.  The steps are cut as in
   Gardener.  mtx is held across a step only by updateFlowerStates, which sleeps
   with it ("rest").

   The updates that come back name flowers that were given to gardeners, with
   the state 1: the test of the index and the branch of the state 0 of
   handleServerResponse decide nothing. *)
EXTENDS Calls

VARIABLES
  flowerbedMain,        \* where start is
  flowerbedPing,        \* where pingServer is
  flowerbedUpdate,      \* where updateFlowerStates is
  flowerbedStopped,     \* stop_flag
  fetchAttempts,        \* attempts of start
  pushAttempts,         \* attempts of updateFlowerStates
  newFlowers,           \* new_flowers
  response,             \* what handleServerResponse has still to read
  flower_watering_counts

mainVars == <<flowerbedMain, fetchAttempts, response, flower_watering_counts>>
pushVars == <<flowerbedUpdate, pushAttempts, newFlowers>>
flowerbedThreads == <<mainVars, flowerbedPing, pushVars, flowerbedStopped>>

FlowerbedLocals ==
  /\ flowerbedPing = [f \in Flowerbeds |-> "off"]
  /\ flowerbedUpdate = [f \in Flowerbeds |-> "off"]
  /\ flowerbedStopped = [f \in Flowerbeds |-> FALSE]
  /\ fetchAttempts = [f \in Flowerbeds |-> 0]
  /\ pushAttempts = [f \in Flowerbeds |-> 0]
  /\ newFlowers = [f \in Flowerbeds |-> {}]
  /\ response = [f \in Flowerbeds |-> <<>>]
  /\ flower_watering_counts = [f \in Flowerbeds |-> [flower \in Flowers |-> 0]]

FlowerbedInit ==
  flowerbedMain = [f \in Flowerbeds |-> "firstPing"] /\ FlowerbedLocals

MtxIsFree(f) == flowerbedUpdate[f] # "rest"

StopFlowerbed(f) == flowerbedStopped' = At(flowerbedStopped, f, TRUE)

-----------------------------------------------------------------------------
(* firstPing; the threads are started after an "OK" only. *)
FirstPing(f) ==
  /\ flowerbedMain[f] = "firstPing"
  /\ BeginCall(f, "main", Request("pingFlowerbed", f))
  /\ flowerbedMain' = At(flowerbedMain, f, "firstPinged")
  /\ UNCHANGED <<fetchAttempts, response, flower_watering_counts,
                 flowerbedPing, pushVars, flowerbedStopped>>

FirstPinged(f) ==
  /\ flowerbedMain[f] = "firstPinged" /\ Returned(f, "main")
  /\ Unlock(f)
  /\ IF SaysText(socket[f].outcome, "OK")
       THEN /\ flowerbedMain' = At(flowerbedMain, f, "loop")
            /\ flowerbedPing' = At(flowerbedPing, f, "loop")
            /\ flowerbedUpdate' = At(flowerbedUpdate, f, "loop")
            /\ UNCHANGED flowerbedStopped
       ELSE /\ flowerbedMain' = At(flowerbedMain, f, "ended")
            /\ StopFlowerbed(f)
            /\ UNCHANGED <<flowerbedPing, flowerbedUpdate>>
  /\ UNCHANGED <<fetchAttempts, response, flower_watering_counts,
                 pushAttempts, newFlowers>>

(* The loop of start: at its end the main thread stops the others and waits. *)
FetchLoop(f) ==
  /\ flowerbedMain[f] = "loop"
  /\ IF flowerbedStopped[f] \/ fetchAttempts[f] >= RetryAttempts
       THEN flowerbedMain' = At(flowerbedMain, f, "ended") /\ StopFlowerbed(f)
       ELSE flowerbedMain' = At(flowerbedMain, f, "fetch") /\ UNCHANGED flowerbedStopped
  /\ UNCHANGED <<fetchAttempts, response, flower_watering_counts,
                 flowerbedPing, pushVars, socket>>

FetchUpdates(f) ==
  /\ flowerbedMain[f] = "fetch"
  /\ BeginCall(f, "main", Request("getUpdates", f))
  /\ flowerbedMain' = At(flowerbedMain, f, "fetched")
  /\ UNCHANGED <<fetchAttempts, response, flower_watering_counts,
                 flowerbedPing, pushVars, flowerbedStopped>>

(* Only "NOT_READY" counts as an attempt: nullopt and every exception lead back
   to the loop as they are.  In any other text without updates (a late answer)
   handleServerResponse finds nothing, and the attempts are forgotten. *)
Fetched(f) ==
  /\ flowerbedMain[f] = "fetched" /\ Returned(f, "main")
  /\ Unlock(f)
  /\ LET outcome == socket[f].outcome IN
     \/ /\ SaysText(outcome, "NOT_READY")
        /\ fetchAttempts' = At(fetchAttempts, f, fetchAttempts[f] + 1)
        /\ flowerbedMain' = At(flowerbedMain, f, "loop") /\ UNCHANGED response
     \/ /\ outcome.kind # "reply"
        /\ flowerbedMain' = At(flowerbedMain, f, "loop")
        /\ UNCHANGED <<fetchAttempts, response>>
     \/ /\ outcome.kind = "reply" /\ "updates" \notin DOMAIN outcome.answer
        /\ ~ SaysText(outcome, "NOT_READY")
        /\ fetchAttempts' = At(fetchAttempts, f, 0)
        /\ flowerbedMain' = At(flowerbedMain, f, "loop") /\ UNCHANGED response
     \/ /\ outcome.kind = "reply" /\ "updates" \in DOMAIN outcome.answer
        /\ response' = At(response, f, outcome.answer.updates)
        /\ flowerbedMain' = At(flowerbedMain, f, "handle") /\ UNCHANGED fetchAttempts
  /\ UNCHANGED <<flower_watering_counts, flowerbedPing, pushVars, flowerbedStopped>>

(* handleServerResponse, one item at a time under mtx: a flower that was watered
   twice stops the flowerbed.  After the last item it read the main thread
   forgets its attempts. *)
HandleUpdate(f) ==
  LET i     == Head(response[f])
      count == flower_watering_counts[f][i] + 1
      rest  == IF count > 1 THEN <<>> ELSE Tail(response[f])
  IN /\ flowerbedMain[f] = "handle" /\ MtxIsFree(f)
     /\ flower_watering_counts' = [flower_watering_counts EXCEPT ![f][i] = count]
     /\ response' = At(response, f, rest)
     /\ IF count > 1 THEN StopFlowerbed(f) ELSE UNCHANGED flowerbedStopped
     /\ IF rest = <<>>
          THEN /\ flowerbedMain' = At(flowerbedMain, f, "loop")
               /\ fetchAttempts' = At(fetchAttempts, f, 0)
          ELSE UNCHANGED <<flowerbedMain, fetchAttempts>>
     /\ UNCHANGED <<flowerbedPing, pushVars, socket>>

-----------------------------------------------------------------------------
(* pingServer *)
FlowerbedPingLoop(f) ==
  /\ flowerbedPing[f] = "loop"
  /\ flowerbedPing' = At(flowerbedPing, f, IF flowerbedStopped[f] THEN "ended" ELSE "ping")
  /\ UNCHANGED <<mainVars, pushVars, flowerbedStopped, socket>>

PingAsFlowerbed(f) ==
  /\ flowerbedPing[f] = "ping"
  /\ BeginCall(f, "ping", Request("pingFlowerbed", f))
  /\ flowerbedPing' = At(flowerbedPing, f, "pinged")
  /\ UNCHANGED <<mainVars, pushVars, flowerbedStopped>>

(* Faulty variant: a failed ping is forgotten. *)
FlowerbedPingedGoesOn(f) ==
  /\ flowerbedPing[f] = "pinged" /\ Returned(f, "ping")
  /\ Unlock(f)
  /\ flowerbedPing' = At(flowerbedPing, f, "loop")
  /\ UNCHANGED <<mainVars, pushVars, flowerbedStopped>>

FlowerbedPinged(f) ==
  /\ flowerbedPing[f] = "pinged" /\ Returned(f, "ping")
  /\ Unlock(f)
  /\ IF \E text \in {"OK", "HC"} : SaysText(socket[f].outcome, text)
       THEN flowerbedPing' = At(flowerbedPing, f, "loop") /\ UNCHANGED flowerbedStopped
       ELSE flowerbedPing' = At(flowerbedPing, f, "ended") /\ StopFlowerbed(f)
  /\ UNCHANGED <<mainVars, pushVars>>

-----------------------------------------------------------------------------
(* updateFlowerStates; without attempts left it ends and stops nobody. *)
LeavePushing(f) ==
  /\ flowerbedUpdate[f] = "loop"
  /\ flowerbedStopped[f] \/ pushAttempts[f] >= RetryAttempts
  /\ flowerbedUpdate' = At(flowerbedUpdate, f, "ended")
  /\ UNCHANGED <<mainVars, flowerbedPing, pushAttempts, newFlowers,
                 flowerbedStopped, socket>>

ChooseFlowers(f) ==
  /\ flowerbedUpdate[f] = "loop"
  /\ ~ flowerbedStopped[f] /\ pushAttempts[f] < RetryAttempts
  /\ \E new \in SUBSET Flowers \ {{}} : newFlowers' = At(newFlowers, f, new)
  /\ flowerbedUpdate' = At(flowerbedUpdate, f, "push")
  /\ UNCHANGED <<mainVars, flowerbedPing, pushAttempts, flowerbedStopped, socket>>

PushFlowers(f) ==
  /\ flowerbedUpdate[f] = "push"
  /\ BeginCall(f, "update", ToWaterRequest(f, newFlowers[f]))
  /\ flowerbedUpdate' = At(flowerbedUpdate, f, "pushed")
  /\ UNCHANGED <<mainVars, flowerbedPing, pushAttempts, newFlowers, flowerbedStopped>>

(* After "OK" and "NOT_READY" the thread takes mtx and sleeps with it for 30 s. *)
Pushed(f) ==
  /\ flowerbedUpdate[f] = "pushed" /\ Returned(f, "update")
  /\ Unlock(f)
  /\ LET outcome == socket[f].outcome IN
     \/ /\ SaysText(outcome, "OK")
        /\ pushAttempts' = At(pushAttempts, f, 0)
        /\ flowerbedUpdate' = At(flowerbedUpdate, f, "rest") /\ UNCHANGED flowerbedStopped
     \/ /\ SaysText(outcome, "NOT_READY")
        /\ pushAttempts' = At(pushAttempts, f, pushAttempts[f] + 1)
        /\ flowerbedUpdate' = At(flowerbedUpdate, f, "rest") /\ UNCHANGED flowerbedStopped
     \/ /\ ~ SaysText(outcome, "OK") /\ ~ SaysText(outcome, "NOT_READY")
        /\ flowerbedUpdate' = At(flowerbedUpdate, f, "ended")
        /\ StopFlowerbed(f) /\ UNCHANGED pushAttempts
  /\ newFlowers' = At(newFlowers, f, {})
  /\ UNCHANGED <<mainVars, flowerbedPing>>

EndRest(f) ==
  /\ flowerbedUpdate[f] = "rest"
  /\ flowerbedUpdate' = At(flowerbedUpdate, f, "loop")
  /\ UNCHANGED <<mainVars, flowerbedPing, pushAttempts, newFlowers,
                 flowerbedStopped, socket>>

-----------------------------------------------------------------------------
(* What a thread does once it has socket_mtx, and what it does without. *)
MainLocks(f) == FirstPing(f) \/ FetchUpdates(f)

PingLocks(f) == PingAsFlowerbed(f)

PushLocks(f) == PushFlowers(f)

MainRuns(f) ==
  FirstPinged(f) \/ FetchLoop(f) \/ Fetched(f) \/ HandleUpdate(f)

PingRuns(f) == FlowerbedPingLoop(f) \/ FlowerbedPinged(f)

PushRuns(f) ==
  LeavePushing(f) \/ ChooseFlowers(f) \/ Pushed(f) \/ EndRest(f)

(* The main thread has left start and the threads, if any, are joined. *)
FlowerbedEnded(f) ==
  /\ flowerbedMain[f] = "ended"
  /\ flowerbedPing[f] \in {"off", "ended"} /\ flowerbedUpdate[f] \in {"off", "ended"}

(* The flowerbed is the one that got "OK" and has not stopped. *)
IsOwner(f) == flowerbedPing[f] # "off" /\ ~ flowerbedStopped[f]

FlowerbedTypeOK ==
  /\ flowerbedMain \in [Flowerbeds -> {"firstPing", "firstPinged", "loop", "fetch",
                                      "fetched", "handle", "ended"}]
  /\ flowerbedPing \in [Flowerbeds -> {"off", "loop", "ping", "pinged", "ended"}]
  /\ flowerbedUpdate \in
       [Flowerbeds -> {"off", "loop", "push", "pushed", "rest", "ended"}]
  /\ flowerbedStopped \in [Flowerbeds -> BOOLEAN]
  /\ fetchAttempts \in [Flowerbeds -> 0..RetryAttempts]
  /\ pushAttempts \in [Flowerbeds -> 0..RetryAttempts]
  /\ newFlowers \in [Flowerbeds -> SUBSET Flowers]
  /\ response \in [Flowerbeds -> Seq(Flowers)]
  /\ flower_watering_counts \in [Flowerbeds -> [Flowers -> Nat]]
=============================================================================
