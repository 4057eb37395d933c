----------------------------- MODULE BoardPins -----------------------------
(***************************************************************************)
(* Who may use a pin of a board, and what the firmware makes of a          *)
(* configuration at power-on (boards/stm32f072rbt6/main.c,                 *)
(* firmware/src/startup_gpio.c).                                           *)
(*                                                                         *)
(* A board is a record: the pins the package lacks or the board keeps for  *)
(* SWD, USB, CAN, its hardware UART and the transceiver; the pins of its   *)
(* motion axes, of their limit switches and of its software UART, slot by  *)
(* slot, and which of the axes' pins are high at rest; the lists of pins   *)
(* to set at power-on; how many bytes the software UART takes in one       *)
(* write; and whether there is a bootloader to return to.                  *)
(***************************************************************************)
EXTENDS Functions, SequencesExt

(* gpio_pin_present().                                                     *)
PinPresent(board, pin) == pin \in board.pins \ board.fixed

(* motion_pin_reserved() and soft_uart_pin_reserved().                     *)
MotionPins(board) == ToSet(board.axes \o board.limits)
MotionReserved(board, pin) == pin \in MotionPins(board)
SoftUartReserved(board, pin) == pin \in ToSet(board.softUart)

(* gpio_pin_allowed(): what GPIO_CREATE may have.                          *)
PinAllowedWhenPresent(board, pin) == PinPresent(board, pin)  \* mutant: slots are not protected
PinAllowed(board, pin) ==
    /\ PinPresent(board, pin)
    /\ ~MotionReserved(board, pin)
    /\ ~SoftUartReserved(board, pin)

(* motion_slot_configuration_valid(): the slots claim their pins one after *)
(* the other; a pin that is absent, reserved or claimed already is a fatal *)
(* error.                                                                  *)
SlotPins(board) == board.axes \o board.softUart \o board.limits
SlotsValid(board) ==
    /\ \A i \in DOMAIN SlotPins(board) : PinPresent(board, SlotPins(board)[i])
    /\ IsInjective(SlotPins(board))

(* rbsp_startup_gpio_apply(): list after list, pin after pin; what comes   *)
(* before the first pin that is absent or was named already is applied.    *)
StartupPins(board) == board.outputLow \o board.outputHigh \o board.inputs
RefusedPins(board) ==
    {i \in DOMAIN StartupPins(board) :
        \/ ~PinPresent(board, StartupPins(board)[i])
        \/ \E j \in 1..(i - 1) : StartupPins(board)[j] = StartupPins(board)[i]}
Applied(board) == {i \in DOMAIN StartupPins(board) : \A r \in RefusedPins(board) : i < r}

(* Pins driven high once the lists are applied: those the second list      *)
(* names first.                                                            *)
HighNames(board) ==
    {i \in DOMAIN StartupPins(board) :
        i > Len(board.outputLow) /\ i <= Len(board.outputLow \o board.outputHigh)}
StartupHigh(board) ==
    {StartupPins(board)[i] : i \in Applied(board) \cap HighNames(board)}

(* main(): a configuration that cannot be applied stops the board before   *)
(* it talks to anybody; slots are checked before any pin is touched.  When *)
(* all is well motion_outputs_configure() then takes the pins of the axes  *)
(* and makes inputs of the limits.                                         *)
Starts(board) == SlotsValid(board) /\ RefusedPins(board) = {}
HighAtStart(board) ==
    CASE ~SlotsValid(board) -> {}
      [] SlotsValid(board) /\ ~Starts(board) -> StartupHigh(board)
      [] Starts(board) -> (StartupHigh(board) \ MotionPins(board)) \cup board.restHigh
=============================================================================
