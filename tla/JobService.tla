----------------------------- MODULE JobService -----------------------------
(***************************************************************************)
(* What the platform promises to whoever submits jobs, without drains,     *)
(* locks or priorities: a job is attempted only after its dependencies     *)
(* succeeded and while its budget of attempts lasts, is in progress at     *)
(* most once, and comes to rest succeeded, dead or failed for good.  Being *)
(* cancelled is final too unless a run was in progress: then that run, and *)
(* nothing else, may still settle the job or put it back in line.          *)
(***************************************************************************)
EXTENDS Naturals

CONSTANTS Jobs, DependsOn, MaxAttempts

VARIABLES
    status,   \* what the service reports of a job
    tries,    \* attempts spent on it
    inflight  \* jobs with a run in progress

vars == <<status, tries, inflight>>

Init ==
    /\ status = [j \in Jobs |-> "absent"]
    /\ tries = [j \in Jobs |-> 0]
    /\ inflight = {}

Ready(j) ==
    /\ status[j] = "queued"
    /\ \A k \in DependsOn[j] : status[k] = "succeeded"

\* Where a job goes after an attempt that did not succeed, its n-th.
NextInLine(j, n) == IF n >= MaxAttempts[j] THEN "dead" ELSE "queued"

Submit(j) ==
    /\ status[j] = "absent"
    /\ status' = [status EXCEPT ![j] = "queued"]
    /\ UNCHANGED <<tries, inflight>>

Withdraw(j) ==
    /\ status[j] \notin {"absent", "succeeded", "dead"}
    /\ status' = [status EXCEPT ![j] = "cancelled"]
    /\ UNCHANGED <<tries, inflight>>

Start(j) ==
    /\ Ready(j)
    /\ status' = [status EXCEPT ![j] = "running"]
    /\ tries' = [tries EXCEPT ![j] = @ + 1]
    /\ inflight' = inflight \cup {j}

\* An attempt that never reached the job's handler.
Miss(j) ==
    /\ Ready(j)
    /\ tries' = [tries EXCEPT ![j] = @ + 1]
    /\ \E s \in {NextInLine(j, tries'[j]), "failed"} :
          /\ s = "failed" => tries'[j] < MaxAttempts[j]
          /\ status' = [status EXCEPT ![j] = s]
    /\ UNCHANGED inflight

Settle(j) ==
    /\ j \in inflight
    /\ inflight' = inflight \ {j}
    /\ \E s \in {"succeeded", NextInLine(j, tries[j])} :
          status' = [status EXCEPT ![j] = s]
    /\ UNCHANGED tries

Next ==
    \E j \in Jobs :
        Submit(j) \/ Withdraw(j) \/ Start(j) \/ Miss(j) \/ Settle(j)

Spec == Init /\ [][Next]_vars

=============================================================================
