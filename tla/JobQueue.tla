------------------------------ MODULE JobQueue ------------------------------
(***************************************************************************)
(* The priority job queue of the Intelligent Execution Platform            *)
(* (runtime/src/iep/queue.js).  The queue is one Map of rows in memory; it *)
(* has no process of its own: the executor, the orchestrator's drains and  *)
(* the platform's clients call its methods, each of which is synchronous   *)
(* and hence one step.  A method is an operator on a row here, because the *)
(* executor often calls two of them (dequeue and fail, complete and fail)  *)
(* within one synchronous stretch.                                         *)
(***************************************************************************)
EXTENDS Naturals

CONSTANTS
    Jobs,         \* job ids
    Priority,     \* priority of a job: the larger runs first
    DependsOn,    \* the jobs a job waits for; an id never enqueued is legal
    MaxAttempts   \* attempts after which a failure dead-letters the job

ASSUME QueueAssumption ==
    /\ Priority \in [Jobs -> Nat]
    /\ DependsOn \in [Jobs -> SUBSET Jobs]
    /\ MaxAttempts \in [Jobs -> Nat]

VARIABLES
    jobs,    \* the rows; payload, result, error and start times are abstracted
    clock    \* serial number of the next enqueue: Date.now() plus the order of
             \* insertion, which a stable sort keeps on equal timestamps

JobState ==
    {"absent", "queued", "running", "succeeded", "failed", "cancelled", "dead"}

Row == [state : JobState, attempts : Nat, enqueuedAt : Nat]

NoRow == [state |-> "absent", attempts |-> 0, enqueuedAt |-> 0]

QueueTypeOK ==
    /\ jobs \in [Jobs -> Row]
    /\ clock \in Nat

QueueInit ==
    /\ jobs = [j \in Jobs |-> NoRow]
    /\ clock = 0

-----------------------------------------------------------------------------
(* What dequeue() looks at.                                                *)

\* Mutant: a dependency that has merely finished counts as met.
DepsFinished(j) ==
    \A k \in DependsOn[j] : jobs[k].state \in {"succeeded", "failed", "dead"}

DepsMet(j) == \A k \in DependsOn[j] : jobs[k].state = "succeeded"

\* Mutant: dequeue() skips finished jobs instead of all that are not queued.
RunnableUnlessDone(j) == jobs[j].state \in {"queued", "cancelled"} /\ DepsMet(j)

Runnable(j) == jobs[j].state = "queued" /\ DepsMet(j)

\* The comparator that keeps #order sorted; every writer of the key re-sorts.
Before(j, k) ==
    \/ Priority[j] > Priority[k]
    \/ Priority[j] = Priority[k] /\ jobs[j].enqueuedAt < jobs[k].enqueuedAt

\* Mutant: dequeue() looks at the most urgent queued job only, runnable or not.
IsNextInLine(j) ==
    /\ Runnable(j)
    /\ \A k \in Jobs \ {j} : jobs[k].state = "queued" => Before(j, k)

IsNext(j) ==
    /\ Runnable(j)
    /\ \A k \in Jobs \ {j} : Runnable(k) => Before(j, k)

-----------------------------------------------------------------------------
(* The row each method leaves behind.                                      *)

\* enqueue(): a row under an id already in use is replaced, whatever its state.
Enqueued == [state |-> "queued", attempts |-> 0, enqueuedAt |-> clock]

\* Mutant: dequeue() does not count the attempt.
StartedUncounted(row) ==
    [state |-> "running", attempts |-> row.attempts,
     enqueuedAt |-> row.enqueuedAt]

Started(row) ==
    [state |-> "running", attempts |-> row.attempts + 1,
     enqueuedAt |-> row.enqueuedAt]

MovedTo(state, row) ==
    [state |-> state, attempts |-> row.attempts, enqueuedAt |-> row.enqueuedAt]

\* complete() and fail() do not look at the state they overwrite.
Completed(row) == MovedTo("succeeded", row)

\* Mutant: one attempt too many.
AfterFailureLate(j, row, otherwise) ==
    IF row.attempts > MaxAttempts[j] THEN "dead" ELSE otherwise

\* fail() with retry: true is Failed(j, row, "queued"), with retry: false
\* Failed(j, row, "failed"); a spent budget wins over both.
AfterFailure(j, row, otherwise) ==
    IF row.attempts >= MaxAttempts[j] THEN "dead" ELSE otherwise

Failed(j, row, otherwise) == MovedTo(AfterFailure(j, row, otherwise), row)

\* Mutant: cancel() without its early return.
CancelledAlways(row) == MovedTo("cancelled", row)

Cancelled(row) ==
    IF row.state \in {"succeeded", "dead"} THEN row ELSE MovedTo("cancelled", row)

=============================================================================
