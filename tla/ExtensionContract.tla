-------------------------- MODULE ExtensionContract --------------------------
(***************************************************************************)
(* What the extension runtime promises of an extension: its state follows  *)
(* the published table of transitions (LIFECYCLE_TRANSITIONS of            *)
(* packages/common), one edge at a time, and an unloaded extension stays   *)
(* unloaded, however the calls that move it overlap.                       *)
(***************************************************************************)
CONSTANT Exts

VARIABLE state

LifecycleState ==
    {"absent", "discovered", "loaded", "validated", "initialized", "registered",
     "active", "monitored", "unloaded"}

\* "absent" is an id the runtime has not discovered.
LifecycleTransitions ==
    [s \in LifecycleState |->
       CASE s = "absent" -> {"discovered"}
         [] s = "discovered" -> {"loaded", "unloaded"}
         [] s = "loaded" -> {"validated", "unloaded"}
         [] s = "validated" -> {"initialized", "unloaded"}
         [] s = "initialized" -> {"registered", "unloaded"}
         [] s = "registered" -> {"active", "unloaded"}
         [] s = "active" -> {"monitored", "unloaded"}
         [] s = "monitored" -> {"active", "unloaded"}
         [] s = "unloaded" -> {}]

ContractInit == state = [e \in Exts |-> "absent"]

Move(e) ==
    \E s \in LifecycleTransitions[state[e]] : state' = [state EXCEPT ![e] = s]

\* install() discovers and loads within one synchronous stretch.
Arrive(e) == state[e] = "absent" /\ state' = [state EXCEPT ![e] = "loaded"]

ContractNext == \E e \in Exts : Move(e) \/ Arrive(e)

Contract == ContractInit /\ [][ContractNext]_state

=============================================================================
