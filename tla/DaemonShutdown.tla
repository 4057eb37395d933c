--------------------------- MODULE DaemonShutdown ---------------------------
(***************************************************************************)
(* How toolbusd stops: ToolbusDaemon::stop() against the client threads    *)
(* that wait in handle_client and the CAN thread that wakes them           *)
(* (toolbusd/src/main.cpp).                                                *)
(*                                                                         *)
(* A condition variable is modelled by what it guarantees.  A waiting      *)
(* thread tests its predicate while it holds state_mutex_, and releases    *)
(* the mutex in the same step in which it goes to sleep; a notification    *)
(* reaches the threads that are asleep at that moment and no other.  The   *)
(* CAN thread notifies with the mutex held, so never between a test and    *)
(* the sleep that follows; stop() stores running_ and notifies without it. *)
(*                                                                         *)
(* Each client is one connection with one call, already submitted; how a   *)
(* call is answered is the matter of ToolbusDaemon.                        *)
(***************************************************************************)
EXTENDS Integers

CONSTANT Clients

VARIABLES
    running,       \* running_
    mutex,         \* the client that holds state_mutex_ between test and sleep
    main,          \* where the main thread is: serving or in stop()
    worker,        \* where the CAN thread is: in its loop or returned
    client,        \* where each client thread is
    ready,         \* clients whose response or time-out is filed
    outcome        \* what each client was told

vars == <<running, mutex, main, worker, client, ready, outcome>>

Nobody == "nobody"
Asleep == {c \in Clients : client[c] = "asleep"}
ActiveClients == {c \in Clients : client[c] # "finished"}

Init ==
    /\ running = TRUE
    /\ mutex = Nobody
    /\ main = "serving"
    /\ worker = "loop"
    /\ client = [c \in Clients |-> "lock"]
    /\ ready = {}
    /\ outcome = [c \in Clients |-> "none"]

(* state_changed_.notify_all(): whoever sleeps wants the mutex again.      *)
NotifyAll == client' = [c \in Clients |-> IF c \in Asleep THEN "lock" ELSE client[c]]

-----------------------------------------------------------------------------
(* The predicate of the wait holds, so the client answers and ends: with   *)
(* what was filed, or TimedOut when the daemon stops.                      *)
Leave(c) ==
    /\ client[c] = "lock"
    /\ mutex = Nobody
    /\ c \in ready \/ ~running
    /\ client' = [client EXCEPT ![c] = "finished"]
    /\ outcome' = [outcome EXCEPT ![c] = IF c \in ready THEN "answered" ELSE "timed_out"]
    /\ UNCHANGED <<running, mutex, main, worker, ready>>

(* The predicate does not hold: the client is about to sleep ...           *)
Test(c) ==
    /\ client[c] = "lock"
    /\ mutex = Nobody
    /\ c \notin ready /\ running
    /\ mutex' = c
    /\ client' = [client EXCEPT ![c] = "tested"]
    /\ UNCHANGED <<running, main, worker, ready, outcome>>

(* ... and sleeps, giving the mutex back.                                  *)
Sleep(c) ==
    /\ client[c] = "tested"
    /\ mutex' = Nobody
    /\ client' = [client EXCEPT ![c] = "asleep"]
    /\ UNCHANGED <<running, main, worker, ready, outcome>>

(* A condition variable may also wake for no reason.                       *)
SpuriousWake(c) ==
    /\ client[c] = "asleep"
    /\ client' = [client EXCEPT ![c] = "lock"]
    /\ UNCHANGED <<running, mutex, main, worker, ready, outcome>>

-----------------------------------------------------------------------------
(* handle_can_message or process_request_timers files the end of a call    *)
(* and notifies, all under state_mutex_; while (running_) was tested       *)
(* before, so an iteration may still end after stop() began.               *)
Answer(c) ==
    /\ worker = "loop"
    /\ mutex = Nobody
    /\ c \notin ready
    /\ ready' = ready \cup {c}
    /\ NotifyAll
    /\ UNCHANGED <<running, mutex, main, worker, outcome>>

(* while (running_): the test that ends can_loop after the iteration under *)
(* way.                                                                    *)
WorkerEnds ==
    /\ worker = "loop"
    /\ ~running
    /\ worker' = "returned"
    /\ UNCHANGED <<running, mutex, main, client, ready, outcome>>

-----------------------------------------------------------------------------
(* stop(): running_.exchange(false), without state_mutex_ ...              *)
StopFlag ==
    /\ main = "serving"
    /\ running' = FALSE
    /\ main' = "flagged"
    /\ UNCHANGED <<mutex, worker, client, ready, outcome>>

(* ... state_changed_.notify_all(), without state_mutex_ ...               *)
StopNotify ==
    /\ main = "flagged"
    /\ NotifyAll
    /\ main' = "joining"
    /\ UNCHANGED <<running, mutex, worker, ready, outcome>>

(* ... worker_.join() ...                                                  *)
StopJoin ==
    /\ main = "joining"
    /\ worker = "returned"
    /\ main' = "waiting"
    /\ UNCHANGED <<running, mutex, worker, client, ready, outcome>>

(* ... and the wait for active_clients_ == 0.                              *)
StopDone ==
    /\ main = "waiting"
    /\ ActiveClients = {}
    /\ main' = "stopped"
    /\ UNCHANGED <<running, mutex, worker, client, ready, outcome>>

ClientStep(c) == Leave(c) \/ Test(c) \/ Sleep(c)

Next ==
    \/ \E c \in Clients : ClientStep(c) \/ SpuriousWake(c) \/ Answer(c)
    \/ WorkerEnds
    \/ StopFlag \/ StopNotify \/ StopJoin \/ StopDone

Spec == Init /\ [][Next]_vars

(* Every thread runs.  That a call is answered while the daemon runs is    *)
(* not assumed: its request may take several seconds to time out, and      *)
(* stop() does not wait for that.                                          *)
Fairness ==
    /\ \A c \in Clients : WF_vars(ClientStep(c))
    /\ WF_vars(WorkerEnds)
    /\ WF_vars(StopNotify) /\ WF_vars(StopJoin) /\ WF_vars(StopDone)

FairSpec == Spec /\ Fairness

-----------------------------------------------------------------------------
(* docs/architecture.md:249-250: stopping the daemon waits for the clients *)
(* that are being served, and is not blocked for ever.                     *)
StopEnds == main = "flagged" ~> main = "stopped"
=============================================================================
