------------------------------- MODULE Gardener -------------------------------
(* GardenerClient: a thread that pings and a thread that waters share a socket
   and the stop_flag.  A step is what a thread does between two points where it
   can block or be overtaken: a lock, the end of a call, the test of a loop; the
   sleep that precedes such a point is part of waiting for it. *)
EXTENDS Calls

VARIABLES
  gardenerPing,         \* where pingServer is
  gardenerWater,        \* where waterFlowers is
  gardenerStopped,      \* stop_flag
  flower_index,         \* flower_index of waterFlowers
  waterAttempts         \* attempts of waterFlowers

wateringVars == <<gardenerWater, flower_index, waterAttempts>>
gardenerThreads == <<gardenerPing, wateringVars, gardenerStopped>>

GardenerLocals ==
  /\ gardenerStopped = [g \in Gardeners |-> FALSE]
  /\ flower_index = [g \in Gardeners |-> -1]
  /\ waterAttempts = [g \in Gardeners |-> 0]

GardenerInit ==
  /\ gardenerPing = [g \in Gardeners |-> "loop"]
  /\ gardenerWater = [g \in Gardeners |-> "loop"]
  /\ GardenerLocals

-----------------------------------------------------------------------------
(* pingServer *)
GardenerPingLoop(g) ==
  /\ gardenerPing[g] = "loop"
  /\ gardenerPing' = At(gardenerPing, g, IF gardenerStopped[g] THEN "ended" ELSE "ping")
  /\ UNCHANGED <<wateringVars, gardenerStopped, socket>>

PingAsGardener(g) ==
  /\ gardenerPing[g] = "ping"
  /\ BeginCall(g, "ping", Request("pingGardener", g))
  /\ gardenerPing' = At(gardenerPing, g, "pinged")
  /\ UNCHANGED <<wateringVars, gardenerStopped>>

(* Only "OK" lets the thread go on; every other end of the call stops the client. *)
GardenerPinged(g) ==
  /\ gardenerPing[g] = "pinged" /\ Returned(g, "ping")
  /\ Unlock(g)
  /\ IF SaysText(socket[g].outcome, "OK")
       THEN gardenerPing' = At(gardenerPing, g, "loop") /\ UNCHANGED gardenerStopped
       ELSE /\ gardenerPing' = At(gardenerPing, g, "ended")
            /\ gardenerStopped' = At(gardenerStopped, g, TRUE)
  /\ UNCHANGED wateringVars

-----------------------------------------------------------------------------
(* waterFlowers: the test of stop_flag, then 2 to 5 seconds of sleep. *)
WaterLoop(g) ==
  /\ gardenerWater[g] = "loop"
  /\ IF gardenerStopped[g]
       THEN gardenerWater' = At(gardenerWater, g, "ended") /\ UNCHANGED waterAttempts
       ELSE /\ gardenerWater' = At(gardenerWater, g, "ask")
            /\ waterAttempts' = At(waterAttempts, g, 0)
  /\ flower_index' = At(flower_index, g, -1)
  /\ UNCHANGED <<gardenerPing, gardenerStopped, socket>>

AskFlower(g) ==
  /\ gardenerWater[g] = "ask"
  /\ BeginCall(g, "water", Request("getFlower", g))
  /\ gardenerWater' = At(gardenerWater, g, "asked")
  /\ UNCHANGED <<gardenerPing, gardenerStopped, flower_index, waterAttempts>>

StopWatering(g) ==
  /\ gardenerWater' = At(gardenerWater, g, "ended")
  /\ gardenerStopped' = At(gardenerStopped, g, TRUE)

FlowerGiven(g, outcome) ==
  /\ outcome.kind = "reply" /\ "flower" \in DOMAIN outcome.answer
  /\ flower_index' = At(flower_index, g, outcome.answer.flower)
  /\ gardenerWater' =
       At(gardenerWater, g, IF outcome.answer.flower < 0 THEN "loop" ELSE "tell")
  /\ UNCHANGED <<waterAttempts, gardenerStopped>>

NoFlowerYet(outcome) == outcome = Nullopt \/ SaysText(outcome, "NOT_READY")

(* Faulty variant: the attempt is not counted. *)
AskAgainUncounted(g, outcome) ==
  /\ NoFlowerYet(outcome)
  /\ gardenerWater' = At(gardenerWater, g, "retry")
  /\ UNCHANGED <<flower_index, waterAttempts, gardenerStopped>>

AskAgain(g, outcome) ==
  /\ NoFlowerYet(outcome)
  /\ waterAttempts' = At(waterAttempts, g, waterAttempts[g] + 1)
  /\ gardenerWater' = At(gardenerWater, g, "retry")
  /\ UNCHANGED <<flower_index, gardenerStopped>>

(* An exception of the call, or of stoi on any other text. *)
AskFailed(g, outcome) ==
  /\ \/ outcome = Exception
     \/ outcome.kind = "reply" /\ "flower" \notin DOMAIN outcome.answer
  /\ ~ NoFlowerYet(outcome)
  /\ StopWatering(g)
  /\ UNCHANGED <<flower_index, waterAttempts>>

Asked(g) ==
  /\ gardenerWater[g] = "asked" /\ Returned(g, "water")
  /\ Unlock(g)
  /\ LET outcome == socket[g].outcome IN
     FlowerGiven(g, outcome) \/ AskAgain(g, outcome) \/ AskFailed(g, outcome)
  /\ UNCHANGED gardenerPing

(* Faulty variant: one attempt more than there may be. *)
RetryAskingOnceMore(g) ==
  /\ gardenerWater[g] = "retry"
  /\ IF waterAttempts[g] <= RetryAttempts
       THEN gardenerWater' = At(gardenerWater, g, "ask") /\ UNCHANGED gardenerStopped
       ELSE StopWatering(g)
  /\ UNCHANGED <<gardenerPing, flower_index, waterAttempts, socket>>

(* The inner loop does not look at stop_flag. *)
RetryAsking(g) ==
  /\ gardenerWater[g] = "retry"
  /\ IF waterAttempts[g] < RetryAttempts
       THEN gardenerWater' = At(gardenerWater, g, "ask") /\ UNCHANGED gardenerStopped
       ELSE StopWatering(g)
  /\ UNCHANGED <<gardenerPing, flower_index, waterAttempts, socket>>

TellWatered(g) ==
  /\ gardenerWater[g] = "tell"
  /\ BeginCall(g, "water", WaterRequest(g, flower_index[g]))
  /\ gardenerWater' = At(gardenerWater, g, "told")
  /\ UNCHANGED <<gardenerPing, gardenerStopped, flower_index, waterAttempts>>

Told(g) ==
  /\ gardenerWater[g] = "told" /\ Returned(g, "water")
  /\ Unlock(g)
  /\ IF SaysText(socket[g].outcome, "OK")
       THEN gardenerWater' = At(gardenerWater, g, "loop") /\ UNCHANGED gardenerStopped
       ELSE StopWatering(g)
  /\ UNCHANGED <<gardenerPing, flower_index, waterAttempts>>

-----------------------------------------------------------------------------
(* What a thread does once it has socket_mtx, and what it does without. *)
PingerLocks(g) == PingAsGardener(g)

WatererLocks(g) == AskFlower(g) \/ TellWatered(g)

PingerRuns(g) == GardenerPingLoop(g) \/ GardenerPinged(g)

WatererRuns(g) == WaterLoop(g) \/ Asked(g) \/ RetryAsking(g) \/ Told(g)

(* The destructor joins both threads: the process ends with the later one. *)
GardenerEnded(g) == gardenerPing[g] = "ended" /\ gardenerWater[g] = "ended"

GardenerTypeOK ==
  /\ gardenerPing \in [Gardeners -> {"loop", "ping", "pinged", "ended"}]
  /\ gardenerWater \in
       [Gardeners -> {"loop", "ask", "asked", "retry", "tell", "told", "ended"}]
  /\ gardenerStopped \in [Gardeners -> BOOLEAN]
  /\ flower_index \in [Gardeners -> Flowers \cup {-1}]
  /\ waterAttempts \in [Gardeners -> 0..RetryAttempts]
=============================================================================
