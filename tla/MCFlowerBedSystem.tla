-------------------------- MODULE MCFlowerBedSystem --------------------------
(* Small instances of FlowerBedSystem: flowerbeds with one flower, number 0. *)
EXTENDS FlowerBedSystem, TLC

CONSTANTS g1, g2, f1, f2

OneFlower == {0}

EqualGardeners == Permutations(Gardeners)

(* The cases of one run, whose product is too large: either the clock goes on and
   the worker drops clients; or a request may be handled again, and after it, or
   without it, a call be lost. *)
IsCase ==
  /\ clock' = 0 \/ budget' = <<Losses, Repetitions>>
  /\ repetitionsLeft' # repetitionsLeft => lossesLeft = Losses
=============================================================================
