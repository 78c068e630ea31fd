------------------------------ MODULE MCClients ------------------------------
(* The client's side in two parts that share no state.  A behaviour is either about
   UDPClients that call over the network, with the scenarios of MCUDPTransport; or
   about a process of ClientLifecycle, a gardener, a flowerbed with one flower or a
   monitor, which takes from the first part only that every call ends.  The other
   part stands still. *)
EXTENDS MCUDPTransport, ClientLifecycle

CONSTANTS g1, f1, m1, Nobody

VARIABLE part       \* what the behaviour is about

OneFlower == {0}

clientsVars == <<vars, lifeVars, part>>

ClientsInit ==
  /\ part \in {"calls", "process"}
  /\ TransportInit
  /\ IF part = "calls" THEN LifeInitOf(Nobody)
     ELSE LifeInit /\ scenario = CHOOSE s \in Scenarios : TRUE

(* The process has ended and its server is down. *)
ProcessIsOver == ~ ENABLED LifeNext /\ UNCHANGED clientsVars

ClientsNext ==
  \/ part = "calls" /\ TransportNext /\ UNCHANGED <<lifeVars, part>>
  \/ part = "process" /\ LifeNext /\ UNCHANGED <<vars, part>>
  \/ part = "process" /\ ProcessIsOver

ClientsSpec ==
  ClientsInit /\ [][ClientsNext]_clientsVars /\ TransportFairness /\ ThreadFairness
=============================================================================
