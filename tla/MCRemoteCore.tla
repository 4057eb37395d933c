---------------------------- MODULE MCRemoteCore ----------------------------
(* Boards with a pin that asks for a lease and a UART, and with two axes   *)
(* of which one asks for a lease.                                          *)
EXTENDS RemoteCore, TLC

CONSTANTS s1, s2, pin, port, x, y

One == [a \in Axes |-> 1]
Two == [a \in Axes |-> 2]
MCStepCounts == {[a \in Axes |-> IF a = x THEN 2 ELSE -1], [a \in Axes |-> IF a = x THEN -1 ELSE 0]}
Symmetry == Permutations(Sessions)
=============================================================================
