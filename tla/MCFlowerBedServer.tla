-------------------------- MODULE MCFlowerBedServer --------------------------
(* A small instance of FlowerBedServer: three gardeners for two seats, a
   flowerbed with one flower and a monitor; a gardener may also report an index
   that the server refuses. *)
EXTENDS FlowerBedServer, TLC

CONSTANTS g1, g2, g3, f1, m1

OneFlower == {0}
SomeIndices == {-1, 0, 1}

AnyGardeners == Permutations(Gardeners)
=============================================================================
