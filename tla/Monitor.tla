------------------------------- MODULE Monitor -------------------------------
(* MonitorClient: one thread that asks for the server's data again and again,
   whatever the answer. *)
EXTENDS Calls

VARIABLE monitorMain    \* where start is

MonitorInit == monitorMain = [m \in Monitors |-> "ask"]

AskMonitor(m) ==
  /\ monitorMain[m] = "ask"
  /\ BeginCall(m, "main", Request("monitor", m))
  /\ monitorMain' = At(monitorMain, m, "asked")

(* An answer, nothing and an exception are all printed, and the loop goes on. *)
MonitorShown(m) ==
  /\ monitorMain[m] = "asked" /\ Returned(m, "main")
  /\ Unlock(m)
  /\ monitorMain' = At(monitorMain, m, "ask")
=============================================================================
