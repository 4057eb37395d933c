--------------------------- MODULE MCMotionQueue ---------------------------
(* A motion queue of two slots and one axis.                               *)
EXTENDS MotionQueue, TLC

MCStepCounts == {-1, 0, 2}
=============================================================================
