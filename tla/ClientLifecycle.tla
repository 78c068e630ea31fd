--------------------------- MODULE ClientLifecycle ---------------------------
(* One client process from its first call to its end, against any server: a call
   is answered with any answer the server has for it or for an earlier call of the
   program, or fails, and from some moment on the server may be down and every
   call fails.  Clients meet only in the server, so it is enough to run one of them
   at a time. *)
EXTENDS Gardener, FlowerBed, Monitor

VARIABLE down           \* the server process has ended

threads == <<gardenerThreads, flowerbedThreads, monitorMain>>
lifeVars == <<socket, threads, down>>

(* Of all clients only c has been started. *)
OnlyRuns(c) ==
  /\ gardenerPing \in [Gardeners -> {"loop", "ended"}]
  /\ gardenerWater = gardenerPing
  /\ \A g \in Gardeners : gardenerPing[g] = "loop" <=> g = c
  /\ flowerbedMain \in [Flowerbeds -> {"firstPing", "ended"}]
  /\ \A f \in Flowerbeds : flowerbedMain[f] = "firstPing" <=> f = c
  /\ monitorMain \in [Monitors -> {"ask", "ended"}]
  /\ \A m \in Monitors : monitorMain[m] = "ask" <=> m = c

LifeInitOf(c) ==
  /\ OnlyRuns(c)
  /\ GardenerLocals /\ FlowerbedLocals
  /\ socket = [x \in Ids |-> Free]
  /\ down = FALSE

LifeInit == \E c \in Ids : LifeInitOf(c)

-----------------------------------------------------------------------------
EndsWith(c, outcome) ==
  /\ socket' = [socket EXCEPT ![c] = Ended(@, outcome)]
  /\ UNCHANGED <<threads, down>>

CallAnswered(c) ==
  /\ ~ down /\ InFlight(c)
  /\ \E reply \in ProgramAnswers(c) : EndsWith(c, OutcomeOf(reply))

CallFails(c) == InFlight(c) /\ EndsWith(c, Exception)

ServerEnds == ~ down /\ down' = TRUE /\ UNCHANGED <<socket, threads>>

InGardener(step) == step /\ UNCHANGED <<flowerbedThreads, monitorMain, down>>

InFlowerbed(step) == step /\ UNCHANGED <<gardenerThreads, monitorMain, down>>

InMonitor(step) == step /\ UNCHANGED <<gardenerThreads, flowerbedThreads, down>>

LifeNext ==
  \/ \E c \in Ids : CallAnswered(c) \/ CallFails(c)
  \/ ServerEnds
  \/ \E g \in Gardeners :
       \/ InGardener(PingerLocks(g)) \/ InGardener(PingerRuns(g))
       \/ InGardener(WatererLocks(g)) \/ InGardener(WatererRuns(g))
  \/ \E f \in Flowerbeds :
       \/ InFlowerbed(MainLocks(f)) \/ InFlowerbed(MainRuns(f))
       \/ InFlowerbed(PingLocks(f)) \/ InFlowerbed(PingRuns(f))
       \/ InFlowerbed(PushLocks(f)) \/ InFlowerbed(PushRuns(f))
  \/ \E m \in Monitors : InMonitor(AskMonitor(m)) \/ InMonitor(MonitorShown(m))

LifeSpec == LifeInit /\ [][LifeNext]_lifeVars

-----------------------------------------------------------------------------
(* Every thread goes on, every call ends.  Of a mutex std::mutex promises no more
   than that a waiting thread gets it if it stays free: it need not get one that is
   free again and again.  That is weak fairness of each thread, with socket_mtx and
   with mtx. *)
ThreadFairness ==
  /\ \A c \in Ids : WF_lifeVars(CallAnswered(c) \/ CallFails(c))
  /\ \A g \in Gardeners :
       /\ WF_lifeVars(InGardener(PingerRuns(g))) /\ WF_lifeVars(InGardener(PingerLocks(g)))
       /\ WF_lifeVars(InGardener(WatererRuns(g))) /\ WF_lifeVars(InGardener(WatererLocks(g)))
  /\ \A f \in Flowerbeds :
       /\ WF_lifeVars(InFlowerbed(MainRuns(f))) /\ WF_lifeVars(InFlowerbed(MainLocks(f)))
       /\ WF_lifeVars(InFlowerbed(PingRuns(f))) /\ WF_lifeVars(InFlowerbed(PingLocks(f)))
       /\ WF_lifeVars(InFlowerbed(PushRuns(f))) /\ WF_lifeVars(InFlowerbed(PushLocks(f)))
  /\ \A m \in Monitors : WF_lifeVars(InMonitor(AskMonitor(m) \/ MonitorShown(m)))

FairLifeSpec == LifeSpec /\ ThreadFairness

-----------------------------------------------------------------------------
(* Whoever sets stop_flag, and whatever the other threads are waiting for, all
   threads of the process come to their end: no retry loop outlives it
   (gardener.cpp:96, flowerbed.cpp:43). *)
StopEndsThreads ==
  /\ \A g \in Gardeners : gardenerStopped[g] ~> GardenerEnded(g)
  /\ \A f \in Flowerbeds : flowerbedStopped[f] ~> FlowerbedEnded(f)

(* When the server is down the process of a gardener ends, and that of a flowerbed
   ends too unless its main thread, which counts no failed call, takes socket_mtx
   again for ever: no other thread, no sleep with mtx and no earlier answer keeps
   a process (the catch blocks of gardener.cpp:74 and 179, flowerbed.cpp:68, 168
   and 244). *)
OnlyFetchingOutlives ==
  /\ \A g \in Gardeners : down ~> GardenerEnded(g)
  /\ \A f \in Flowerbeds :
       ([]<>(flowerbedMain[f] = "fetched")) \/ (down ~> FlowerbedEnded(f))

(* When the server is down, the process of every gardener and every flowerbed
   ends: a flowerbed whose server does not answer ends (README.md:305), and so
   does one that has used its attempts (README.md:342). *)
ClientsEnd ==
  down ~> /\ \A g \in Gardeners : GardenerEnded(g)
          /\ \A f \in Flowerbeds : FlowerbedEnded(f)
=============================================================================
