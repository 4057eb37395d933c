--------------------------- MODULE MCFirmwareCore ---------------------------
(* FirmwareCore on small boards: four pins, of which pin 1 belongs to the  *)
(* UART of the processor, one axis, one limit switch.                      *)
EXTENDS FirmwareCore

Plain == [pins |-> 1..4, fixed |-> {1}, axes |-> <<>>, limits |-> <<>>, softUart |-> <<>>,
          restHigh |-> {}, outputLow |-> <<>>, outputHigh |-> <<2>>, inputs |-> <<>>,
          softMost |-> ChunkSize, katapult |-> FALSE]

(* A board with an axis and a driver chip on the software UART.            *)
Slots == [Plain EXCEPT !.axes = <<2>>, !.softUart = <<3>>, !.restHigh = {2}, !.katapult = TRUE]

(* One without, whose software UART does not take a chunk in one write.    *)
ShortWrites == [Plain EXCEPT !.softUart = <<3>>, !.softMost = ChunkSize - 1]

(* Boards whose configuration is refused.                                  *)
SharedSlot == [Slots EXCEPT !.limits = <<3>>]
NamedTwice == [Plain EXCEPT !.outputLow = <<2>>, !.outputHigh = <<4, 2>>]

MCBoards == {Plain, Slots, ShortWrites, SharedSlot, NamedTwice}

MCCommands ==
    {GpioCreateOp(2, TRUE, TRUE), GpioCreateOp(4, FALSE, FALSE), UartCreateOp(0),
     BootloaderOp("can"), QueryOp(TRUE), QueryOp(FALSE)}

=============================================================================
