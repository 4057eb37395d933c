--------------------------- MODULE RequestConfig ----------------------------
(* What the request manager is configured with (RequestManagerConfig of    *)
(* toolbusd/request_manager.hpp) and what its requests may carry.          *)
EXTENDS Integers

CONSTANTS
    Sessions,         \* session identifiers (one per life of the daemon)
    MaxRequestId,     \* the largest request identifier, 2^32 - 1 in the code
    Timeout,          \* RequestManagerConfig::timeout, in ticks
    MaxRetries,       \* RequestManagerConfig::maximum_retries
    DuplicateWindow,  \* RequestManagerConfig::duplicate_window, in ticks
    Commands,         \* the commands a request can carry
    CreateCommands,   \* GPIO_CREATE and UART_CREATE
    Objects,          \* object identifiers
    NoObject          \* object identifier 0: the request names no object

ASSUME ConfigAssumption ==
    /\ MaxRequestId \in Nat \ {0}
    /\ Timeout \in Nat \ {0}
    /\ MaxRetries \in Nat
    /\ DuplicateWindow \in Nat \ {0}
    /\ CreateCommands \subseteq Commands
    /\ NoObject \in Objects
=============================================================================
