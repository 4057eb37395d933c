-------------------------- MODULE MCDaemonShutdown --------------------------
(* Two connections are enough: one can be answered, the other be asleep.   *)
EXTENDS DaemonShutdown, TLC

CONSTANTS c1, c2
=============================================================================
