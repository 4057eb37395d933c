----------------------------- MODULE RemoteCall -----------------------------
(***************************************************************************)
(* What toolbusd promises to a client, without threads, tables or frames.  *)
(*                                                                         *)
(* A call is opened or refused, and an open call ends with one outcome.    *)
(* The side effect it asks for happens at most MaxEffects times, at any    *)
(* moment after the call was opened: a request in flight may be executed   *)
(* after its client was told that it timed out, failed or was rejected.    *)
(* Only one answer says anything: Ok means that the effect did happen, and *)
(* before the answer.                                                      *)
(***************************************************************************)
EXTENDS Integers

CONSTANTS Clients, MaxEffects

VARIABLES call, outcome, effects

vars == <<call, outcome, effects>>

Failures == {"error", "rejected", "timed_out", "lost"}

Init ==
    /\ call = [c \in Clients |-> "idle"]
    /\ outcome = [c \in Clients |-> "none"]
    /\ effects = [c \in Clients |-> 0]

End(c, answer) ==
    /\ call' = [call EXCEPT ![c] = "done"]
    /\ outcome' = [outcome EXCEPT ![c] = answer]
    /\ UNCHANGED effects

Open(c) ==
    /\ call[c] = "idle"
    /\ call' = [call EXCEPT ![c] = "open"]
    /\ UNCHANGED <<outcome, effects>>

Refuse(c) == call[c] = "idle" /\ End(c, "error")

Effect(c) ==
    /\ call[c] # "idle"
    /\ effects[c] < MaxEffects
    /\ effects' = [effects EXCEPT ![c] = @ + 1]
    /\ UNCHANGED <<call, outcome>>

Succeed(c) == call[c] = "open" /\ effects[c] > 0 /\ End(c, "ok")

Fail(c, answer) == call[c] = "open" /\ End(c, answer)

(* The daemon dies: every open call is lost at once.                       *)
LoseAll ==
    /\ call' = [c \in Clients |-> IF call[c] = "open" THEN "done" ELSE call[c]]
    /\ outcome' = [c \in Clients |-> IF call[c] = "open" THEN "lost" ELSE outcome[c]]
    /\ UNCHANGED effects

Next ==
    \/ \E c \in Clients : Open(c) \/ Refuse(c) \/ Effect(c) \/ Succeed(c)
    \/ \E c \in Clients, answer \in Failures \ {"lost"} : Fail(c, answer)
    \/ LoseAll

Spec == Init /\ [][Next]_vars
=============================================================================
