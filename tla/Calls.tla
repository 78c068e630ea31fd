-------------------------------- MODULE Calls --------------------------------
(* UDPClient::sendMessage as the threads of a client use it: one UDPClient per
   process, and socket_mtx held around every call, so that a process has at most
   one call in flight.  A call is begun by a thread, reaches the server or not,
   and ends with a text, with nothing (nullopt) or with an exception; what the
   threads do then is in the modules of the clients. *)
EXTENDS Population

CONSTANT RetryAttempts      \* retryAttempts and retry_attempts

ASSUME RetryAssumption == RetryAttempts \in Nat \ {0}

VARIABLE socket     \* for each client: the call that holds socket_mtx

Free == [stage |-> "free"]

(* sent: on its way; taken: the server has it; lost: nothing will come back;
   ended: sendMessage has returned. *)
Sent(thread, request) == [stage |-> "sent", by |-> thread, request |-> request]

Ended(call, outcome) ==
  [stage |-> "ended", by |-> call.by, request |-> call.request, outcome |-> outcome]

Reply(answer) == [kind |-> "reply", answer |-> answer]
Nullopt == [kind |-> "nullopt"]
Exception == [kind |-> "exception"]

(* What sendMessage makes of the server's answer. *)
OutcomeOf(reply) ==
  IF "updates" \in DOMAIN reply /\ reply.updates = <<>> THEN Nullopt ELSE Reply(reply)

(* What a call of a client may end with: nothing in an answer says what it answers,
   so that a late one to any earlier request of the program will do. *)
Routes(c) ==
  IF c \in Gardeners THEN {"pingGardener", "getFlower", "water"}
  ELSE IF c \in Flowerbeds THEN {"pingFlowerbed", "getUpdates", "toWater"}
  ELSE {"monitor"}

ProgramAnswers(c) == UNION {AnswersTo(Request(route, c)) : route \in Routes(c)}

InFlight(c) == socket[c].stage \in {"sent", "taken", "lost"}

(* lock_guard, then sendMessage: the thread blocks here while another one calls. *)
BeginCall(c, thread, request) ==
  /\ socket[c] = Free
  /\ socket' = [socket EXCEPT ![c] = Sent(thread, request)]

(* sendMessage returns or throws, and the lock_guard goes out of scope. *)
Returned(c, thread) == socket[c].stage = "ended" /\ socket[c].by = thread

Unlock(c) == socket' = [socket EXCEPT ![c] = Free]

SaysText(outcome, text) ==
  /\ outcome.kind = "reply"
  /\ "text" \in DOMAIN outcome.answer
  /\ outcome.answer.text = text

(* Assigning at one client. *)
At(f, c, value) == [f EXCEPT ![c] = value]
=============================================================================
