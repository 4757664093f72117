------------------------- MODULE ProjectLifecycleMC -------------------------
(***************************************************************************)
(* An instance of ProjectLifecycle for TLC: three stages of the code's     *)
(* list, two tasks in the first of them, and a gate at deployment that     *)
(* asks more than its task does.  The scores lie on both sides of each     *)
(* bound: 95 (the policy's), 96 (a task's) and 100 (deployment's gate).    *)
(***************************************************************************)
EXTENDS ProjectLifecycle

CONSTANT p1

LastStages == <<"security", "deployment", "closed">>

SomeTasks == [s \in {"security", "deployment"} |->
                 IF s = "security" THEN 2 ELSE 1]
TaskGates == [s \in DOMAIN SomeTasks |-> 96]
StageGates == [s \in DOMAIN SomeTasks |-> IF s = "deployment" THEN 100 ELSE 90]

=============================================================================
