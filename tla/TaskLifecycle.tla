---------------------------- MODULE TaskLifecycle ----------------------------
(***************************************************************************)
(* What the rest of the bot is promised about the life of a task: it       *)
(* starts Queued, moves only along the transitions of the Task class, and  *)
(* Completed, Failed and Cancelled are final ("Terminal" in                *)
(* include/cmlb/domain/task.hpp).                                          *)
(*                                                                         *)
(* The transfer specification is shown to implement it twice, for the      *)
(* aggregate a use-case coroutine holds in memory and for the row that     *)
(* aggregate is saved to.                                                  *)
(***************************************************************************)
EXTENDS TaskState

CONSTANT Tasks

VARIABLE state      \* state[t]: the lifecycle state of task t

Init == state = [t \in Tasks |-> "Queued"]

Advance(t) ==
    \E s \in Successors(state[t]) : state' = [state EXCEPT ![t] = s]

Next == \E t \in Tasks : Advance(t)

Spec == Init /\ [][Next]_state
=============================================================================
