-------------------------- MODULE MCClientLifecycle --------------------------
(* A small instance of ClientLifecycle: a flowerbed with one flower. *)
EXTENDS ClientLifecycle

CONSTANTS f1

OneFlower == {0}
=============================================================================
