---------------------------- MODULE RequestResponse ----------------------------
(* What a caller of UDPClient::sendMessage may rely on: its message is handed to
   the application only while the call lasts, at least once if the call returns
   a text, and at most "most" times. *)
EXTENDS Naturals

CONSTANTS Clients, MaxCalls

VARIABLES
  status,       \* "free", "called", or "answered": the last call returned a text
  number,       \* number of the last call
  executions,   \* how often each message was handed to the application
  most          \* how often a message may be: for good 1 if no datagram is lost

Init ==
  /\ status = [a \in Clients |-> "free"]
  /\ number = [a \in Clients |-> 0]
  /\ executions = [a \in Clients |-> [k \in 1..MaxCalls |-> 0]]
  /\ most \in Nat \ {0}

Call(a) ==
  /\ status[a] # "called" /\ number[a] < MaxCalls
  /\ number' = [number EXCEPT ![a] = @ + 1]
  /\ status' = [status EXCEPT ![a] = "called"]
  /\ UNCHANGED executions

Execute(a) ==
  /\ status[a] = "called"
  /\ executions[a][number[a]] < most
  /\ executions' = [executions EXCEPT ![a][number[a]] = @ + 1]
  /\ UNCHANGED <<status, number>>

Return(a) ==
  /\ status[a] = "called"
  /\ executions[a][number[a]] > 0
  /\ status' = [status EXCEPT ![a] = "answered"]
  /\ UNCHANGED <<number, executions>>

(* nullopt or an exception: the message may have been executed or not. *)
Fail(a) ==
  /\ status[a] = "called"
  /\ status' = [status EXCEPT ![a] = "free"]
  /\ UNCHANGED <<number, executions>>

Next ==
  /\ \E a \in Clients : Call(a) \/ Execute(a) \/ Return(a) \/ Fail(a)
  /\ UNCHANGED most

Spec == Init /\ [][Next]_<<status, number, executions, most>>
=============================================================================
