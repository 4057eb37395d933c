--------------------------- MODULE MCNodeDiscovery ---------------------------
(* A mock node, which sends heartbeats at once, and a board, which waits    *)
(* for its address.                                                        *)
EXTENDS NodeDiscovery, TLC

CONSTANTS mock, board
=============================================================================
