-------------------------- MODULE MCRequestExchange --------------------------
(* Two request identifiers and three submissions: the third must reuse an  *)
(* identifier that may still be answered.  A frame takes one tick; a class *)
(* may send one packet in a burst, the bus two.                            *)
EXTENDS AdmittedExchange

CONSTANTS Create, Abort, Obj, Interactive
MCCommands == {Create, Abort}
MCCreateCommands == {Create}
MCObjects == {NoObject, Obj}

MCClasses == {Interactive, Safety, System}
MCClassOf == [c \in MCCommands |-> IF c = Abort THEN Safety ELSE Interactive]
MCLimit == [b \in MCClasses \cup {Bus} |-> IF b = Bus THEN 1000 ELSE 500]
MCFrames == [c \in MCCommands |-> <<8>>]
MCControlFrames == <<8>>

(* The costs traffic_control_tests.cpp expects.                            *)
ASSUME CostsAsTested ==
    /\ ClassicalBits(0) = 55 /\ ClassicalBits(8) = 135
    /\ FdLength(9) = 12 /\ FdNominalBits = 43 /\ FdDataBits(9) > 12 * 8
    /\ \A n \in 0..63 : FdDataBits(n) <= FdDataBits(n + 1)
=============================================================================
