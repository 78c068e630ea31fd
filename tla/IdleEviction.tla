----------------------------- MODULE IdleEviction -----------------------------
(* What ConnectionManager promises about its clients, without the heap: a turn
   of the server's loop marks at most one client as seen, then forgets exactly
   the clients not seen for more than Timeout seconds. *)
EXTENDS Naturals

CONSTANTS Ids, Timeout, MaxLag

VARIABLES now, lastSeen

Fresh(seen, t) == [c \in {c \in DOMAIN seen : t <= seen[c] + Timeout} |-> seen[c]]

Seen(c, t) == [x \in DOMAIN lastSeen \cup {c} |-> IF x = c THEN t ELSE lastSeen[x]]

Init == now = 0 /\ lastSeen = [c \in {} |-> 0]

(* now' is the reading the purge compares with. *)
Touch(c) ==
  /\ now' \in now..(now + MaxLag)
  /\ \E t \in now..now' : lastSeen' = Fresh(Seen(c, t), now')

Purge ==
  /\ now' \in now..(now + MaxLag)
  /\ lastSeen' = Fresh(lastSeen, now')

Tick == now' = now + 1 /\ UNCHANGED lastSeen

Forget == lastSeen' = [c \in {} |-> 0] /\ UNCHANGED now

Next == (\E c \in Ids : Touch(c)) \/ Purge \/ Tick \/ Forget

Spec == Init /\ [][Next]_<<now, lastSeen>>
=============================================================================
