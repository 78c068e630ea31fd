------------------------ MODULE FlowerBedServer_proofs ------------------------
(* Theorems about FlowerBedServer, for any clients, seats, timeouts and bounds. *)
EXTENDS FlowerBedServer, FiniteSetTheorems, TLAPS

(* The state of the handler, as AppTypeOK has it. *)
HandlerOK ==
  \/ handler = Idle
  \/ /\ handler.at \in {"serve", "clear", "monitor"}
     /\ handler.request \in AppRequests
     /\ handler.seen \in Seq(Nat)

TimesOK ==
  /\ clock \in Nat /\ workerWakes \in Nat /\ last_flowerbed_ping \in Nat
  /\ flowerbed_connected \in BOOLEAN
  /\ IsStamps(connected_monitors)

(* The main thread alone changes the updates: what it copied it will clear. *)
BoardOK ==
  /\ updates \in Seq(Nat)
  /\ flowersToWater \subseteq Flowers
  /\ HandlerOK
  /\ handler.at = "clear" => handler.seen = updates

(* The seats: their number, and stamps that say when the gardener was heard. *)
SeatsOK ==
  /\ gardener_ids \subseteq Ids /\ IsFiniteSet(gardener_ids)
  /\ gardener_count = Cardinality(gardener_ids)
  /\ gardener_count <= MaxGardeners
  /\ IsStamps(gardener_timestamps) /\ IsStamps(heard)
  /\ DOMAIN gardener_timestamps = gardener_ids
  /\ IsFiniteSet(DOMAIN heard)
  /\ \A c \in gardener_ids : c \in DOMAIN heard /\ gardener_timestamps[c] = heard[c]

(* Whoever was present at the worker's last check had been heard TIMEOUT before
   it at the earliest, that is TIMEOUT + PERIOD before its next one. *)
WorkerOK ==
  /\ workerWakes <= clock + PERIOD
  /\ clock <= workerWakes + MaxDelay
  /\ \A c \in gardener_ids : workerWakes <= gardener_timestamps[c] + TIMEOUT + PERIOD
  /\ flowerbed_connected => workerWakes <= last_flowerbed_ping + TIMEOUT + PERIOD

AppInv == TimesOK /\ BoardOK /\ SeatsOK /\ WorkerOK

-----------------------------------------------------------------------------
(* What a request carries. *)
LEMMA RequestTypes ==
  ASSUME NEW request \in AppRequests
  PROVE  /\ request.id \in Ids
         /\ request.route = "water" =>
              request.index \in Indices /\ request.index \in Int
         /\ request.route = "toWater" => request.flowers \subseteq Flowers
<1>1. CASE \E c \in Ids, route \in {"pingGardener", "getFlower", "pingFlowerbed",
                                   "getUpdates", "monitor"} :
             request = Request(route, c)
  BY <1>1 DEF Request
<1>2. CASE \E c \in Gardeners, i \in Indices : request = WaterRequest(c, i)
  BY <1>2, IndexAssumption DEF WaterRequest, Ids
<1>3. CASE \E c \in Flowerbeds, new \in SUBSET Flowers : request = ToWaterRequest(c, new)
  BY <1>3 DEF ToWaterRequest, Ids
<1>4. \/ \E c \in Ids, route \in {"pingGardener", "getFlower", "pingFlowerbed",
                                "getUpdates", "monitor"} :
          request = Request(route, c)
      \/ \E c \in Gardeners, i \in Indices : request = WaterRequest(c, i)
      \/ \E c \in Flowerbeds, new \in SUBSET Flowers : request = ToWaterRequest(c, new)
  BY DEF AppRequests, Ids
<1> QED
  BY <1>1, <1>2, <1>3, <1>4

(* Stamping a client sets its time and leaves the others'. *)
LEMMA StampOK ==
  ASSUME NEW f, IsStamps(f), NEW c \in Ids, clock \in Nat
  PROVE  /\ IsStamps(Stamp(f, c))
         /\ DOMAIN Stamp(f, c) = DOMAIN f \cup {c}
         /\ \A x \in DOMAIN f \cup {c} :
              Stamp(f, c)[x] = IF x = c THEN clock ELSE f[x]
  BY DEF IsStamps, Stamp

(* Keeping some of the clients keeps their times. *)
LEMMA AmongOK ==
  ASSUME NEW f, IsStamps(f), NEW S \in SUBSET DOMAIN f
  PROVE  /\ IsStamps(Among(f, S))
         /\ DOMAIN Among(f, S) = S
         /\ \A x \in S : Among(f, S)[x] = f[x]
  BY DEF IsStamps, Among

(* A server that has just started satisfies the invariant. *)
LEMMA InitAppInv == AppInit => AppInv
<1> SUFFICES ASSUME AppInit PROVE AppInv
  OBVIOUS
<1>1. TimesOK /\ BoardOK
  <2>1. TimesOK
    BY DEF AppInit, TimesOK, IsStamps
  <2>2. handler = Idle /\ updates = <<>> /\ flowersToWater = {}
    BY DEF AppInit
  <2>3. BoardOK
    BY <2>2 DEF BoardOK, HandlerOK, Idle
  <2> QED
    BY <2>1, <2>3
<1>2. SeatsOK
  BY FS_EmptySet, SeatsAssumption DEF AppInit, SeatsOK, IsStamps
<1>3. WorkerOK
  BY PeriodAssumption DEF AppInit, WorkerOK
<1> QED
  BY <1>1, <1>2, <1>3 DEF AppInv

-----------------------------------------------------------------------------
(* addGardener, or its refusal, keeps the seats in order. *)
LEMMA GardenerPingKeeps ==
  ASSUME AppInv, NEW request \in AppRequests, HandleGardenerPing(request)
  PROVE  AppInv'
<1> DEFINE c == request.id
<1>1. /\ c \in Ids /\ clock \in Nat /\ clock' = clock
      /\ UNCHANGED <<flowerbedVars, boardVars, connected_monitors, workerWakes>>
      /\ handler' = Idle /\ heard' = Stamp(heard, c)
  BY RequestTypes DEF AppInv, TimesOK, HandleGardenerPing
<1>2. TimesOK'
  BY <1>1 DEF AppInv, TimesOK, flowerbedVars, IsStamps
<1>3. BoardOK'
  BY <1>1 DEF AppInv, BoardOK, boardVars, HandlerOK, Idle
<1>4. /\ IsStamps(heard') /\ DOMAIN heard' = DOMAIN heard \cup {c}
      /\ \A x \in DOMAIN heard \cup {c} :
           heard'[x] = IF x = c THEN clock ELSE heard[x]
  BY <1>1, StampOK, ZenonT(60) DEF AppInv, SeatsOK
<1>5. IsFiniteSet(DOMAIN heard')
  BY <1>4, FS_AddElement DEF AppInv, SeatsOK
<1>6. CASE AddGardener(c)
  <2>1. /\ gardener_ids' = gardener_ids \cup {c}
        /\ gardener_count' = Cardinality(gardener_ids')
        /\ gardener_timestamps' = Stamp(gardener_timestamps, c)
        /\ c \in gardener_ids \/ Cardinality(gardener_ids) < MaxGardeners
    BY <1>6 DEF AddGardener
  <2>2. /\ IsStamps(gardener_timestamps') /\ DOMAIN gardener_timestamps' = gardener_ids'
        /\ \A x \in gardener_ids' : gardener_timestamps'[x]
             = IF x = c THEN clock ELSE gardener_timestamps[x]
    BY <1>1, <2>1, StampOK, ZenonT(60) DEF AppInv, SeatsOK
  <2>3. /\ IsFiniteSet(gardener_ids')
        /\ Cardinality(gardener_ids')
             = IF c \in gardener_ids THEN Cardinality(gardener_ids)
                                     ELSE Cardinality(gardener_ids) + 1
    BY <2>1, FS_AddElement DEF AppInv, SeatsOK
  <2>4. Cardinality(gardener_ids') <= MaxGardeners
    BY <2>1, <2>3, FS_CardinalityType, SeatsAssumption DEF AppInv, SeatsOK
  <2>5. SeatsOK'
    BY <1>1, <1>4, <1>5, <2>1, <2>2, <2>3, <2>4 DEF AppInv, SeatsOK
  <2>6. WorkerOK'
    BY <1>1, <2>1, <2>2, PeriodAssumption
       DEF AppInv, WorkerOK, SeatsOK, TimesOK, IsStamps, flowerbedVars
  <2> QED
    BY <1>2, <1>3, <2>5, <2>6 DEF AppInv
<1>7. CASE RefuseGardener(c)
  <2>1. /\ c \notin gardener_ids
        /\ UNCHANGED <<gardener_ids, gardener_timestamps, gardener_count>>
    BY <1>7 DEF RefuseGardener
  <2>2. SeatsOK'
    BY <1>4, <1>5, <2>1 DEF AppInv, SeatsOK, IsStamps
  <2>3. WorkerOK'
    BY <1>1, <2>1 DEF AppInv, WorkerOK, flowerbedVars
  <2> QED
    BY <1>2, <1>3, <2>2, <2>3 DEF AppInv
<1> QED
  BY <1>6, <1>7 DEF HandleGardenerPing

(* setFlowerbedConnected notes the ping, and the worker checks it later. *)
LEMMA FlowerbedPingKeeps ==
  ASSUME AppInv, NEW request \in AppRequests, HandleFlowerbedPing(request)
  PROVE  AppInv'
<1>1. TimesOK'
  BY DEF AppInv, TimesOK, HandleFlowerbedPing, IsStamps
<1>2. BoardOK'
  BY DEF AppInv, BoardOK, HandleFlowerbedPing, boardVars, HandlerOK, Idle
<1>3. SeatsOK'
  BY DEF AppInv, SeatsOK, HandleFlowerbedPing, gardenerVars, IsStamps
<1>4. WorkerOK'
  BY PeriodAssumption DEF AppInv, TimesOK, WorkerOK, HandleFlowerbedPing, gardenerVars
<1> QED
  BY <1>1, <1>2, <1>3, <1>4 DEF AppInv

(* A step of the handler that leaves the clients alone keeps what is known of
   them. *)
LEMMA ElsewhereKeeps ==
  ASSUME AppInv, UNCHANGED <<clock, gardenerVars, flowerbedVars, workerWakes>>,
         IsStamps(connected_monitors'), BoardOK'
  PROVE  AppInv'
<1>1. TimesOK'
  BY DEF AppInv, TimesOK, flowerbedVars
<1>2. SeatsOK'
  BY DEF AppInv, SeatsOK, gardenerVars, IsStamps
<1>3. WorkerOK'
  BY DEF AppInv, WorkerOK, flowerbedVars, gardenerVars
<1> QED
  BY <1>1, <1>2, <1>3 DEF AppInv

(* The test of isReady hands the request on or answers it. *)
LEMMA CheckReadyKeeps ==
  ASSUME AppInv, NEW request \in AppRequests, CheckReady(request)
  PROVE  AppInv'
<1>1. BoardOK'
  <2>1. handler' = Idle \/ handler' = Busy("serve", request, <<>>)
    BY DEF CheckReady
  <2>2. updates' = updates /\ flowersToWater' = flowersToWater
    BY DEF CheckReady, boardVars
  <2>3. HandlerOK' /\ handler'.at # "clear"
    <3>1. CASE handler' = Idle
      BY <3>1 DEF HandlerOK, Idle
    <3>2. CASE handler' = Busy("serve", request, <<>>)
      <4>1. /\ handler'.at = "serve" /\ handler'.request = request
            /\ handler'.seen = <<>>
        BY <3>2 DEF Busy
      <4> QED
        BY <4>1 DEF HandlerOK
    <3> QED
      BY <2>1, <3>1, <3>2
  <2> QED
    BY <2>2, <2>3 DEF AppInv, BoardOK
<1> QED
  BY <1>1, ElsewhereKeeps DEF AppInv, TimesOK, CheckReady, IsStamps

(* updateNonitorConnection keeps the monitors that asked lately. *)
LEMMA NoteMonitorKeeps ==
  ASSUME AppInv, NEW request \in AppRequests, NoteMonitor(request)
  PROVE  AppInv'
<1> DEFINE stamped == Stamp(connected_monitors, request.id)
           late    == {c \in DOMAIN stamped : stamped[c] >= clock - TIMEOUT}
<1>1. IsStamps(stamped)
  BY RequestTypes, StampOK DEF AppInv, TimesOK
<1>2. connected_monitors' = Among(stamped, late)
  BY DEF NoteMonitor
<1>3. late \in SUBSET DOMAIN stamped
  OBVIOUS
<1>4. IsStamps(connected_monitors')
  <2> HIDE DEF stamped, late
  <2> QED
    BY <1>1, <1>2, <1>3, AmongOK
<1>5. BoardOK'
  BY DEF AppInv, BoardOK, NoteMonitor, boardVars, HandlerOK, Busy
<1> QED
  BY <1>4, <1>5, ElsewhereKeeps DEF NoteMonitor

(* The second half of each handler keeps the types, and leaves the updates alone
   between their copy and their end. *)
LEMMA ContinueBoard ==
  ASSUME BoardOK, ContinueHandler
  PROVE  BoardOK'
<1>1. ASSUME handler' = Idle, updates' \in Seq(Nat), flowersToWater' \subseteq Flowers
      PROVE  BoardOK'
  BY <1>1 DEF BoardOK, HandlerOK, Idle
<1>2. updates \in Seq(Nat) /\ flowersToWater \subseteq Flowers /\ HandlerOK
  BY DEF BoardOK
<1>3. CASE GetUpdates
  BY <1>2, <1>3 DEF GetUpdates, Serves, BoardOK, HandlerOK, Idle, Busy, boardVars
<1>4. CASE ClearUpdates
  BY <1>1, <1>2, <1>4 DEF ClearUpdates, Respond
<1>5. CASE GetFlowerToWater
  BY <1>1, <1>2, <1>5 DEF GetFlowerToWater, Respond
<1>6. CASE AddUpdate
  <2>1. handler.request.index \in Nat
    BY <1>2, <1>6, RequestTypes DEF AddUpdate, Serves, HandlerOK, Idle
  <2> QED
    BY <1>1, <1>2, <1>6, <2>1 DEF AddUpdate, Respond
<1>7. CASE RefuseUpdate
  BY <1>1, <1>2, <1>7 DEF RefuseUpdate, Respond, boardVars
<1>8. CASE AddFlowersToWater
  <2>1. handler.request.flowers \subseteq Flowers
    BY <1>2, <1>8, RequestTypes DEF AddFlowersToWater, Serves, HandlerOK, Idle
  <2> QED
    BY <1>1, <1>2, <1>8, <2>1 DEF AddFlowersToWater, Respond
<1>9. CASE GetMonitorData
  BY <1>1, <1>2, <1>9 DEF GetMonitorData, Respond, boardVars
<1> QED
  BY <1>3, <1>4, <1>5, <1>6, <1>7, <1>8, <1>9 DEF ContinueHandler

(* It has no part in who is connected. *)
LEMMA ContinueKeeps ==
  ASSUME AppInv, ContinueHandler
  PROVE  AppInv'
<1>1. UNCHANGED <<clock, gardenerVars, flowerbedVars, connected_monitors, workerWakes>>
  BY DEF ContinueHandler, GetUpdates, ClearUpdates, GetFlowerToWater,
         AddUpdate, RefuseUpdate, AddFlowersToWater, GetMonitorData, Elsewhere
<1>2. IsStamps(connected_monitors')
  BY <1>1 DEF AppInv, TimesOK, IsStamps
<1> QED
  BY <1>1, <1>2, ContinueBoard, ElsewhereKeeps DEF AppInv

-----------------------------------------------------------------------------
(* checkConnections drops the silent ones; the others were heard within TIMEOUT. *)
LEMMA CheckConnectionsKeeps ==
  ASSUME AppInv, CheckConnections
  PROVE  AppInv'
<1> DEFINE kept == {c \in gardener_ids : ~ SilentFor(gardener_timestamps[c])}
<1>1. /\ clock' = clock /\ heard' = heard /\ workerWakes' = clock + PERIOD
      /\ last_flowerbed_ping' = last_flowerbed_ping
      /\ gardener_ids' = kept /\ gardener_count' = Cardinality(kept)
      /\ UNCHANGED <<boardVars, connected_monitors, handler>>
  BY DEF CheckConnections
<1>2. gardener_timestamps' = Among(gardener_timestamps, kept)
  BY DEF CheckConnections, AppInv, SeatsOK
<1>3. /\ IsStamps(gardener_timestamps') /\ DOMAIN gardener_timestamps' = kept
      /\ \A c \in kept : gardener_timestamps'[c] = gardener_timestamps[c]
  <2>1. IsStamps(gardener_timestamps) /\ kept \in SUBSET DOMAIN gardener_timestamps
    BY DEF AppInv, SeatsOK
  <2> HIDE DEF kept
  <2> QED
    BY <1>2, <2>1, AmongOK
<1>4. IsFiniteSet(kept) /\ Cardinality(kept) <= Cardinality(gardener_ids)
  BY FS_Subset DEF AppInv, SeatsOK
<1>5. TimesOK'
  <2>1. flowerbed_connected' \in BOOLEAN
    BY DEF CheckConnections
  <2>2. workerWakes' \in Nat
    BY <1>1, PeriodAssumption DEF AppInv, TimesOK
  <2> QED
    BY <1>1, <2>1, <2>2 DEF AppInv, TimesOK, IsStamps
<1>6. BoardOK'
  BY <1>1 DEF AppInv, BoardOK, boardVars, HandlerOK
<1>7. SeatsOK'
  <2>1. Cardinality(kept) <= MaxGardeners
    BY <1>4, FS_CardinalityType, SeatsAssumption DEF AppInv, SeatsOK
  <2> QED
    BY <1>1, <1>3, <1>4, <2>1 DEF AppInv, SeatsOK, IsStamps
<1>8. WorkerOK'
  <2>1. \A c \in kept : gardener_timestamps[c] \in Nat
                        /\ clock <= gardener_timestamps[c] + TIMEOUT
    <3> SUFFICES ASSUME NEW c \in kept
                 PROVE  /\ gardener_timestamps[c] \in Nat
                        /\ clock <= gardener_timestamps[c] + TIMEOUT
      OBVIOUS
    <3>1. gardener_timestamps[c] \in Nat /\ clock \in Nat
      BY DEF AppInv, SeatsOK, TimesOK, IsStamps
    <3> QED
      BY <3>1, PeriodAssumption DEF SilentFor
  <2>2. flowerbed_connected' => clock <= last_flowerbed_ping + TIMEOUT
    <3>1. flowerbed_connected' => ~ SilentFor(last_flowerbed_ping)
      BY Zenon DEF CheckConnections
    <3>2. ~ SilentFor(last_flowerbed_ping) => clock <= last_flowerbed_ping + TIMEOUT
      BY PeriodAssumption DEF AppInv, TimesOK, SilentFor
    <3> QED
      BY <3>1, <3>2
  <2> HIDE DEF kept
  <2>3. clock \in Nat /\ last_flowerbed_ping \in Nat
    BY DEF AppInv, TimesOK
  <2>4. workerWakes' <= clock' + PERIOD /\ clock' <= workerWakes' + MaxDelay
    BY <1>1, <2>3, PeriodAssumption
  <2>5. \A c \in gardener_ids' : workerWakes' <= gardener_timestamps'[c] + TIMEOUT + PERIOD
    BY <1>1, <1>3, <2>1, <2>3, PeriodAssumption
  <2>6. clock <= last_flowerbed_ping + TIMEOUT
          => workerWakes' <= last_flowerbed_ping' + TIMEOUT + PERIOD
    BY <1>1, <2>3, PeriodAssumption
  <2> QED
    BY <2>2, <2>4, <2>5, <2>6 DEF WorkerOK
<1> QED
  BY <1>5, <1>6, <1>7, <1>8 DEF AppInv

(* Time passes, but not past the worker's next check. *)
LEMMA AppTickKeeps ==
  ASSUME AppInv, AppTick
  PROVE  AppInv'
<1>1. TimesOK'
  BY DEF AppInv, TimesOK, AppTick, flowerbedVars, IsStamps
<1>2. BoardOK'
  BY DEF AppInv, BoardOK, AppTick, boardVars, HandlerOK
<1>3. SeatsOK'
  BY DEF AppInv, SeatsOK, AppTick, gardenerVars, IsStamps
<1>4. WorkerOK'
  BY PeriodAssumption DEF AppInv, TimesOK, WorkerOK, AppTick, gardenerVars, flowerbedVars
<1> QED
  BY <1>1, <1>2, <1>3, <1>4 DEF AppInv

(* The invariant is inductive. *)
LEMMA NextAppInv == AppInv /\ [AppNext]_appVars => AppInv'
<1> SUFFICES ASSUME AppInv, [AppNext]_appVars PROVE AppInv'
  OBVIOUS
<1>1. ASSUME NEW request \in AppRequests, HandleMessage(request) PROVE AppInv'
  BY <1>1, GardenerPingKeeps, FlowerbedPingKeeps, CheckReadyKeeps, NoteMonitorKeeps
     DEF HandleMessage
<1>2. CASE UNCHANGED appVars
  <2>1. UNCHANGED <<updates, flowersToWater, handler>>
    BY <1>2 DEF appVars, appState, boardVars
  <2>2. BoardOK'
    BY <2>1 DEF AppInv, BoardOK, HandlerOK
  <2> QED
    BY <1>2, <2>2, ElsewhereKeeps DEF AppInv, TimesOK, appVars, appState, IsStamps
<1> QED
  BY <1>1, <1>2, ContinueKeeps, CheckConnectionsKeeps, AppTickKeeps DEF AppNext

(* What holds of seats, stamps and worker in every reachable state. *)
THEOREM AppInvariant == AppSpec => []AppInv
  BY InitAppInv, NextAppInv, PTL DEF AppSpec

(* Type correctness of the application: the gardeners never outnumber the seats,
   and a handler holds a request some client makes. *)
THEOREM AppTypeCorrect == AppSpec => []AppTypeOK
<1>1. AppInv => AppTypeOK
  <2> SUFFICES ASSUME AppInv PROVE AppTypeOK
    OBVIOUS
  <2>1. gardener_count \in 0..MaxGardeners
    BY FS_CardinalityType, SeatsAssumption DEF AppInv, SeatsOK
  <2> QED
    BY <2>1 DEF AppInv, TimesOK, BoardOK, HandlerOK, SeatsOK, AppTypeOK
<1> QED
  BY <1>1, AppInvariant, PTL

(* Whoever is connected was heard within Grace: by what WorkerOK says of the last
   check and of the time since. *)
LEMMA ConnectedWereHeard == AppInv => ReadyMeansPresent
<1> SUFFICES ASSUME AppInv, IsReady PROVE ReadyMeansPresent
  BY DEF ReadyMeansPresent
<1> DEFINE present == {c \in DOMAIN heard : clock <= heard[c] + Grace}
<1>1. gardener_ids \subseteq present
  BY PeriodAssumption DEF AppInv, TimesOK, SeatsOK, WorkerOK, IsStamps, Grace
<1>2. IsFiniteSet(present)
  BY FS_Subset DEF AppInv, SeatsOK
<1>3. /\ Cardinality(gardener_ids) <= Cardinality(present)
      /\ Cardinality(present) \in Nat /\ Cardinality(gardener_ids) \in Nat
  <2> HIDE DEF present
  <2> QED
    BY <1>1, <1>2, FS_Subset, FS_CardinalityType
<1>4. Cardinality(present) >= MaxGardeners
  BY <1>3, SeatsAssumption DEF AppInv, SeatsOK, IsReady
<1>5. clock <= last_flowerbed_ping + Grace
  BY PeriodAssumption DEF AppInv, TimesOK, WorkerOK, IsReady, Grace
<1> QED
  BY <1>4, <1>5 DEF ReadyMeansPresent

(* Silent clients do not keep the server ready for longer than the timeout, one
   sleep of the worker and the delay of its waking up: for any number of seats. *)
THEOREM ServerReadyMeansPresent == AppSpec => []ReadyMeansPresent
  BY ConnectedWereHeard, AppInvariant, PTL

(* Only the worker takes a seat, and the stamp it looks at is the time of the
   gardener's last ping. *)
LEMMA SeatTaken ==
  ASSUME AppInv, CheckConnections, NEW c \in gardener_ids, c \notin gardener_ids'
  PROVE  clock > heard[c] + TIMEOUT
<1>1. SilentFor(gardener_timestamps[c])
  BY DEF CheckConnections
<1>2. heard[c] = gardener_timestamps[c] /\ heard[c] \in Nat /\ clock \in Nat
  BY DEF AppInv, TimesOK, SeatsOK, IsStamps
<1> QED
  BY <1>1, <1>2, PeriodAssumption DEF SilentFor

LEMMA SeatsOnlyAdded ==
  ASSUME \/ \E request \in AppRequests : HandleMessage(request)
         \/ ContinueHandler \/ AppTick \/ UNCHANGED appState
  PROVE  gardener_ids \subseteq gardener_ids'
  BY DEF HandleMessage, HandleGardenerPing, AddGardener, RefuseGardener,
    HandleFlowerbedPing, CheckReady, NoteMonitor, ContinueHandler, GetUpdates,
    ClearUpdates, GetFlowerToWater, AddUpdate, RefuseUpdate, AddFlowersToWater,
    GetMonitorData, Elsewhere, AppTick, gardenerVars, appState

(* No step takes the seat of a gardener that was heard within the timeout: the
   stamp the worker looks at is the time of the gardener's last ping. *)
THEOREM SeatsAreKept == AppSpec => PresenceIsKept
<1>1. AppInv /\ [AppNext]_appVars =>
        [\A c \in gardener_ids : c \notin gardener_ids' => clock > heard[c] + TIMEOUT]_appVars
  BY SeatTaken, SeatsOnlyAdded DEF AppNext, appVars
<1> QED
  BY <1>1, AppInvariant, PTL DEF AppSpec, PresenceIsKept

-----------------------------------------------------------------------------
(* What the answers say of flowers and waterings. *)
LEMMA AnswersRead ==
  /\ ReportIn(NoAnswer) = <<>> /\ FlowerIn(NoAnswer) = -1
  /\ \A c, text : ReportIn(Text(c, text)) = <<>> /\ FlowerIn(Text(c, text)) = -1
  /\ \A c, info : ReportIn(MonitorAnswer(c, info)) = <<>>
                  /\ FlowerIn(MonitorAnswer(c, info)) = -1
  /\ \A c, i : ReportIn(FlowerAnswer(c, i)) = <<>> /\ FlowerIn(FlowerAnswer(c, i)) = i
  /\ \A c, list : ReportIn(UpdatesAnswer(c, list)) = list
                  /\ FlowerIn(UpdatesAnswer(c, list)) = -1
  BY DEF ReportIn, FlowerIn, NoAnswer, Text, MonitorAnswer, FlowerAnswer, UpdatesAnswer

(* An answer without flowers and waterings, and a board left alone, is a pause. *)
LEMMA PauseRefines ==
  ASSUME UNCHANGED boardVars, ReportIn(answer') = <<>>, FlowerIn(answer') = -1
  PROVE  Board!Next
  BY DEF boardVars, Board!Next, Board!Pause, Board!Silent

(* The first half of a handler leaves the board alone. *)
LEMMA MessageRefines ==
  ASSUME NEW request \in AppRequests, HandleMessage(request)
  PROVE  Board!Next
<1>1. UNCHANGED boardVars
  BY DEF HandleMessage, HandleGardenerPing, HandleFlowerbedPing, CheckReady, NoteMonitor
<1>2. answer' = NoAnswer \/ \E text : answer' = Text(request.id, text)
  BY DEF HandleMessage, HandleGardenerPing, HandleFlowerbedPing, CheckReady, NoteMonitor
<1> QED
  BY <1>1, <1>2, AnswersRead, PauseRefines

(* The second half gives a flower, notes a watering or reports all of them. *)
LEMMA ContinueRefines ==
  ASSUME BoardOK, ContinueHandler
  PROVE  Board!Next
<1>1. ASSUME UNCHANGED boardVars, answer' = NoAnswer \/ \E c, text : answer' = Text(c, text)
      PROVE  Board!Next
  BY <1>1, AnswersRead, PauseRefines
<1>2. ASSUME \E c, info : answer' = MonitorAnswer(c, info), UNCHANGED boardVars
      PROVE  Board!Next
  BY <1>2, AnswersRead, PauseRefines
<1>3. ASSUME HandlerOK, Serves("water") PROVE handler.request.index \in Indices
  <2>1. handler.request \in AppRequests /\ handler.request.route = "water"
    BY <1>3 DEF HandlerOK, Serves, Idle
  <2> QED
    BY <2>1, RequestTypes
<1>4. ASSUME HandlerOK, Serves("toWater") PROVE handler.request.flowers \subseteq Flowers
  BY <1>4, RequestTypes DEF HandlerOK, Serves, Idle
<1>5. CASE GetUpdates \/ RefuseUpdate
  BY <1>1, <1>5 DEF GetUpdates, RefuseUpdate, Respond
<1>6. CASE GetMonitorData
  BY <1>2, <1>6 DEF GetMonitorData, Respond
<1>7. CASE ClearUpdates
  <2>1. updates' = <<>> /\ flowersToWater' = flowersToWater
        /\ ReportIn(answer') = updates /\ FlowerIn(answer') = -1
    BY <1>7, AnswersRead DEF ClearUpdates, Respond, BoardOK
  <2> QED
    BY <2>1 DEF Board!Next, Board!Report
<1>8. CASE GetFlowerToWater
  <2>1. CASE answer' = FlowerAnswer(handler.request.id, -1) /\ UNCHANGED boardVars
    BY <2>1, AnswersRead, PauseRefines
  <2>2. ASSUME NEW flower \in flowersToWater, flowersToWater' = flowersToWater \ {flower},
               answer' = FlowerAnswer(handler.request.id, flower), updates' = updates
        PROVE  Board!Next
    <3>1. FlowerIn(answer') = flower /\ ReportIn(answer') = <<>>
      BY <2>2, AnswersRead
    <3> QED
      BY <2>2, <3>1 DEF Board!Next, Board!Give
  <2> QED
    BY <1>8, <2>1, <2>2 DEF GetFlowerToWater, Respond, boardVars
<1>9. CASE AddUpdate
  <2>1. /\ ReportIn(answer') = <<>> /\ FlowerIn(answer') = -1
        /\ updates' = Append(updates, handler.request.index)
        /\ flowersToWater' = flowersToWater
        /\ handler.request.index >= 0
    BY <1>9, AnswersRead DEF AddUpdate, Respond
  <2>2. handler.request.index \in Indices
    BY <1>3, <1>9 DEF AddUpdate, BoardOK
  <2> QED
    BY <2>1, <2>2 DEF Board!Next, Board!Water, Board!Silent
<1>10. CASE AddFlowersToWater
  <2>1. /\ ReportIn(answer') = <<>> /\ FlowerIn(answer') = -1
        /\ flowersToWater' = flowersToWater \cup handler.request.flowers
        /\ updates' = updates
    BY <1>10, AnswersRead DEF AddFlowersToWater, Respond
  <2>2. handler.request.flowers \in SUBSET Flowers
    BY <1>4, <1>10 DEF AddFlowersToWater, BoardOK
  <2> QED
    BY <2>1, <2>2 DEF Board!Next, Board!Want, Board!Silent
<1> QED
  BY <1>5, <1>6, <1>7, <1>8, <1>9, <1>10 DEF ContinueHandler

(* The application implements WateringBoard although its handlers are cut in two
   and the worker runs between the halves: a flower is given to one gardener, and
   each watering is reported once and in order. *)
THEOREM ServerIsWateringBoard == AppSpec => IsWateringBoard
<1>1. AppInit => Board!Init
  BY AnswersRead DEF AppInit, Board!Init
<1>2. ASSUME AppInv, [AppNext]_appVars
      PROVE  [Board!Next]_<<flowersToWater, updates, ReportIn(answer), FlowerIn(answer)>>
  <2>1. CASE CheckConnections \/ AppTick
    <3>1. UNCHANGED boardVars /\ answer' = NoAnswer
      BY <2>1 DEF CheckConnections, AppTick
    <3> QED
      BY <3>1, AnswersRead, PauseRefines
  <2>2. CASE UNCHANGED appVars
    BY <2>2 DEF appVars, appState, boardVars
  <2> QED
    BY <1>2, <2>1, <2>2, MessageRefines, ContinueRefines DEF AppNext, AppInv
<1> QED
  BY <1>1, <1>2, AppInvariant, PTL DEF AppSpec, IsWateringBoard, Board!Spec
=============================================================================
