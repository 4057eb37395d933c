-------------------------- MODULE MCToolbusDaemon --------------------------
(* Small instances of the daemon.  Three clients use one node: one creates  *)
(* an object, one uses an object, one issues a safety command.             *)
EXTENDS ToolbusDaemon, TLC, FiniteSets

CONSTANTS c1, c2, c3, n1, Create, Use, Abort, Obj

MCCommands == {Create, Use, Abort}
MCObjects == {NoObject, Obj}
MCCreateCommands == {Create}
MCSafetyCommands == {Abort}
Caller == [c \in {c1, c2, c3} |-> CASE c = c1 -> [node |-> n1, command |-> Create, object |-> NoObject]
                                   [] c = c2 -> [node |-> n1, command |-> Use, object |-> Obj]
                                   [] c = c3 -> [node |-> n1, command |-> Abort, object |-> NoObject]]
MCCallNode == [c \in Clients |-> Caller[c].node]
MCCallCommand == [c \in Clients |-> Caller[c].command]
MCCallObject == [c \in Clients |-> Caller[c].object]
=============================================================================
