---------------------------- MODULE WateringBoard ----------------------------
(* What the server promises about flowers: a flower somebody asked to have
   watered is given to at most one gardener until somebody asks for it again, and
   each watering is reported exactly once, in the order of the waterings. *)
EXTENDS Integers, Sequences

CONSTANTS Flowers, Indices

VARIABLES
  wanted,   \* the flowers to be watered
  watered,  \* the waterings not yet reported
  report,   \* the waterings the last step reported
  given     \* the flower the last step gave to a gardener, or -1

Silent == report' = <<>> /\ given' = -1

Init == wanted = {} /\ watered = <<>> /\ report = <<>> /\ given = -1

Want ==
  /\ \E new \in SUBSET Flowers : wanted' = wanted \cup new
  /\ UNCHANGED watered /\ Silent

Give ==
  /\ given' \in wanted
  /\ wanted' = wanted \ {given'}
  /\ report' = <<>> /\ UNCHANGED watered

Water ==
  /\ \E index \in Indices : index >= 0 /\ watered' = Append(watered, index)
  /\ UNCHANGED wanted /\ Silent

Report ==
  /\ report' = watered /\ watered' = <<>>
  /\ given' = -1 /\ UNCHANGED wanted

Pause == UNCHANGED <<wanted, watered>> /\ Silent

Next == Want \/ Give \/ Water \/ Report \/ Pause

Spec == Init /\ [][Next]_<<wanted, watered, report, given>>
=============================================================================
