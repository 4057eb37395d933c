---------------------------- MODULE MCUartStream ----------------------------
(* UartStream for TLC: every value is given in the configurations.         *)
EXTENDS UartStream
=============================================================================
