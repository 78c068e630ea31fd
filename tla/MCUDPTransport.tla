---------------------------- MODULE MCUDPTransport ----------------------------
(* Small instances of UDPTransport: the scenarios of the runs. *)
EXTENDS UDPTransport

CONSTANTS a1, a2

NoFaults == [kind \in FaultKinds |-> 0]

Lossy(n) == [NoFaults EXCEPT !["loss"] = n]

Case(request, answer, budget) ==
  [request |-> request, answer |-> answer, budget |-> budget]

(* Without faults, or with two datagrams lost. *)
PatientScenarios == {Case(2, 2, NoFaults), Case(1, 1, Lossy(2))}

(* Two faults, of one kind or of two. *)
AdverseScenarios ==
  {Case(2, 2, [[NoFaults EXCEPT ![first] = 1] EXCEPT ![second] = @ + 1]) :
     first, second \in FaultKinds}

ChimeraScenarios == {Case(2, 2, Lossy(1))}

DamageScenarios == {Case(1, 1, [NoFaults EXCEPT !["damage"] = 1])}

ExpiryScenarios == {Case(1, 1, [NoFaults EXCEPT !["pause"] = 2])}
=============================================================================
