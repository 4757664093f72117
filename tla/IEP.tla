--------------------------------- MODULE IEP ---------------------------------
(***************************************************************************)
(* The execution core of the Intelligent Execution Platform: orchestrator  *)
(* drains (runtime/src/iep/orchestrator.js) that take jobs from the queue  *)
(* and hand each to the executor (runtime/src/iep/executor.js), which runs *)
(* its handler under a lock with a time to live.                           *)
(*                                                                         *)
(* A drain is one pending call of runUntilIdle(); a platform object can    *)
(* have several at once (concurrent SDK calls, concurrent product builds). *)
(* JavaScript is single threaded, so control changes hands only where a    *)
(* drain awaits: at the handler, and after each run() before the next      *)
(* iteration.  Everything between two awaits is one action.                *)
(***************************************************************************)
EXTENDS JobQueue, FiniteSets

CONSTANTS
    Drains,       \* pending calls of runUntilIdle()
    Resources,    \* lock names, "job:<project>:<type>"
    ResourceOf,   \* the lock name of a job
    NoToken,      \* see LockService
    NoJob,        \* a drain that has no job in its handler
    TTL,          \* the executor's lock ttl (60 s) in units of time
    MaxSteps,     \* the maxSteps option of runUntilIdle()
    Unhandled,    \* jobs whose type has no registered handler
    Unclonable,   \* jobs whose payload the recorder cannot clone: start() throws
    Named,        \* jobs with an id of the caller's choosing, enqueued again
    MaxEnqueues,  \* bound on calls of enqueue()
    BusThrows     \* whether a subscriber of the event bus may throw

ASSUME IEPAssumption ==
    /\ ResourceOf \in [Jobs -> Resources]
    /\ NoToken \notin Drains
    /\ NoJob \notin Jobs
    /\ TTL \in Nat \ {0}
    /\ MaxSteps \in Nat
    /\ Unhandled \subseteq Jobs
    /\ Unclonable \subseteq Jobs
    /\ Named \subseteq Jobs
    /\ MaxEnqueues \in Nat
    /\ BusThrows \in BOOLEAN

\* No process has infinitely many calls pending.
ASSUME DrainsAssumption == IsFiniteSet(Drains)

VARIABLES
    locks,  \* rows of the lock service; a drain holds at most one live token,
            \* so the drain itself stands for it
    pc,     \* "idle": no call pending; "loop": between two iterations;
            \* "handler": awaiting the handler of cur
    cur,    \* the job in the handler
    age,    \* time since that run took its lock, counted up to TTL
    steps,  \* iterations completed by the pending call
    stats   \* running totals: executions the recorder started and those it last
            \* marked succeeded or failed; points of either outcome in the metrics

vars == <<jobs, clock, locks, pc, cur, age, steps, stats>>
drainVars == <<pc, cur, age, steps>>

Lock == INSTANCE LockService WITH Tokens <- Drains

Totals == {"started", "succeeded", "failed", "okPoints", "failPoints"}

TypeOK ==
    /\ QueueTypeOK
    /\ Lock!LockTypeOK
    /\ pc \in [Drains -> {"idle", "loop", "handler"}]
    /\ cur \in [Drains -> Jobs \cup {NoJob}]
    /\ age \in [Drains -> 0 .. TTL]
    /\ steps \in [Drains -> 0 .. MaxSteps]
    /\ stats \in [Totals -> Nat]

Init ==
    /\ QueueInit
    /\ Lock!LockInit
    /\ pc = [d \in Drains |-> "idle"]
    /\ cur = [d \in Drains |-> NoJob]
    /\ age = [d \in Drains |-> 0]
    /\ steps = [d \in Drains |-> 0]
    /\ stats = [n \in Totals |-> 0]

Handling(d) == pc[d] = "handler"
Active(d) == pc[d] # "idle"

Count(names) ==
    stats' = [n \in Totals |-> IF n \in names THEN stats[n] + 1 ELSE stats[n]]

-----------------------------------------------------------------------------
(* Clients.                                                                *)

\* scheduler.schedule(), scheduleAgent() and runDag() all end in enqueue().
Schedule(j) ==
    /\ clock < MaxEnqueues
    /\ jobs[j].state = "absent" \/ j \in Named
    /\ jobs' = [jobs EXCEPT ![j] = Enqueued]
    /\ clock' = clock + 1
    /\ UNCHANGED <<locks, drainVars, stats>>

Cancel(j) ==
    /\ jobs[j].state # "absent"
    /\ jobs' = [jobs EXCEPT ![j] = Cancelled(@)]
    /\ UNCHANGED <<clock, locks, drainVars, stats>>

Begin(d) ==
    /\ pc[d] = "idle"
    /\ pc' = [pc EXCEPT ![d] = "loop"]
    /\ steps' = [steps EXCEPT ![d] = 0]
    /\ UNCHANGED <<jobs, clock, locks, cur, age, stats>>

-----------------------------------------------------------------------------
(* One iteration of a drain, from dequeue() to the await of the handler.   *)

\* Mutant: the loop is not bounded by maxSteps.
TakeUncapped(d, j) == pc[d] = "loop" /\ IsNext(j)

Take(d, j) ==
    /\ pc[d] = "loop"
    /\ steps[d] < MaxSteps
    /\ IsNext(j)

\* run() throws: the rejection ends runUntilIdle() as well.
Abort(d) ==
    /\ pc' = [pc EXCEPT ![d] = "idle"]
    /\ cur' = [cur EXCEPT ![d] = NoJob]
    /\ age' = [age EXCEPT ![d] = 0]
    /\ UNCHANGED steps

\* run() returns: its result is pushed and the loop goes on.
Continue(d) ==
    /\ pc' = [pc EXCEPT ![d] = "loop"]
    /\ cur' = [cur EXCEPT ![d] = NoJob]
    /\ age' = [age EXCEPT ![d] = 0]
    /\ steps' = [steps EXCEPT ![d] = @ + 1]

NoHandler(d, j) ==
    /\ Take(d, j)
    /\ j \in Unhandled
    /\ jobs' = [jobs EXCEPT ![j] = Failed(j, Started(@), "failed")]
    /\ Abort(d)
    /\ UNCHANGED <<clock, locks, stats>>

\* Mutant: a job whose lock is held is not given back to the queue.
LockedOutForgotten(d, j) ==
    /\ Take(d, j)
    /\ j \notin Unhandled
    /\ Lock!Refuse(ResourceOf[j])
    /\ jobs' = [jobs EXCEPT ![j] = Started(@)]
    /\ Continue(d)
    /\ UNCHANGED <<clock, stats>>

LockedOut(d, j) ==
    /\ Take(d, j)
    /\ j \notin Unhandled
    /\ Lock!Refuse(ResourceOf[j])
    /\ jobs' = [jobs EXCEPT ![j] = Failed(j, Started(@), "queued")]
    /\ Continue(d)
    /\ UNCHANGED <<clock, stats>>

\* recorder.start() is called with the lock taken but outside the try block
\* whose finally clause releases it.
StartThrows(d, j) ==
    /\ Take(d, j)
    /\ j \in Unclonable \ Unhandled
    /\ Lock!Acquire(ResourceOf[j], d)
    /\ jobs' = [jobs EXCEPT ![j] = Started(@)]
    /\ Abort(d)
    /\ UNCHANGED <<clock, stats>>

Enter(d, j) ==
    /\ Take(d, j)
    /\ j \notin Unhandled \cup Unclonable
    /\ Lock!Acquire(ResourceOf[j], d)
    /\ jobs' = [jobs EXCEPT ![j] = Started(@)]
    /\ pc' = [pc EXCEPT ![d] = "handler"]
    /\ cur' = [cur EXCEPT ![d] = j]
    /\ age' = [age EXCEPT ![d] = 0]
    /\ Count({"started"})
    /\ UNCHANGED <<clock, steps>>

-----------------------------------------------------------------------------
(* The rest of run(), after the handler's promise settles.                 *)

\* The two ways out of the catch block: its emit of task.failed may throw too.
LeaveCatch(d) == Continue(d) \/ (BusThrows /\ Abort(d))

\* Mutant: the lock is released on success only.
CatchKeepsLock(d, row) ==
    /\ jobs' = [jobs EXCEPT ![cur[d]] = Failed(cur[d], row, "queued")]
    /\ LeaveCatch(d)
    /\ UNCHANGED <<clock, locks>>

\* The catch and finally blocks for the job whose row is now row.
Catch(d, row) ==
    /\ jobs' = [jobs EXCEPT ![cur[d]] = Failed(cur[d], row, "queued")]
    /\ Lock!Release(ResourceOf[cur[d]], d)
    /\ LeaveCatch(d)
    /\ UNCHANGED clock

\* Mutant: a failed run leaves no point in the metrics.
HandlerThrowsUnmeasured(d) ==
    /\ Handling(d)
    /\ Catch(d, jobs[cur[d]])
    /\ Count({"failed"})

HandlerThrows(d) ==
    /\ Handling(d)
    /\ Catch(d, jobs[cur[d]])
    /\ Count({"failed", "failPoints"})

HandlerReturns(d) ==
    /\ Handling(d)
    /\ jobs' = [jobs EXCEPT ![cur[d]] = Completed(@)]
    /\ Lock!Release(ResourceOf[cur[d]], d)
    /\ Continue(d)
    /\ Count({"succeeded", "okPoints"})
    /\ UNCHANGED clock

\* The emit of task.completed throws: the run is already recorded as a success
\* and its job completed when the catch block fails both.
CompletedThrows(d) ==
    /\ BusThrows
    /\ Handling(d)
    /\ Catch(d, Completed(jobs[cur[d]]))
    /\ Count({"failed", "failPoints", "okPoints"})

\* The emit of task.dispatched throws before the handler is called: the catch
\* block runs in the very stretch that dequeued the job.
DispatchThrows(d, j) ==
    /\ BusThrows
    /\ Take(d, j)
    /\ j \notin Unhandled \cup Unclonable
    /\ ~Lock!Held(ResourceOf[j])
    /\ locks' = [Lock!Purged EXCEPT ![ResourceOf[j]] = Lock!Unlocked]
    /\ jobs' = [jobs EXCEPT ![j] = Failed(j, Started(@), "queued")]
    /\ LeaveCatch(d)
    /\ Count({"started", "failed", "failPoints"})
    /\ UNCHANGED clock

\* Mutant: the loop does not stop when the queue has nothing to offer.
EndAtLimit(d) ==
    /\ pc[d] = "loop"
    /\ steps[d] = MaxSteps
    /\ pc' = [pc EXCEPT ![d] = "idle"]
    /\ UNCHANGED <<jobs, clock, locks, cur, age, steps, stats>>

\* The loop ends: no runnable job, or as many results as were asked for.
End(d) ==
    /\ pc[d] = "loop"
    /\ steps[d] = MaxSteps \/ \A j \in Jobs : ~Runnable(j)
    /\ pc' = [pc EXCEPT ![d] = "idle"]
    /\ UNCHANGED <<jobs, clock, locks, cur, age, steps, stats>>

\* Time passes for the locks and for the handlers in progress.
Tick ==
    /\ \E r \in Resources : Lock!Held(r)
    /\ Lock!Elapse
    /\ age' = [d \in Drains |-> IF Handling(d) /\ age[d] < TTL
                                THEN age[d] + 1 ELSE age[d]]
    /\ UNCHANGED <<jobs, clock, pc, cur, steps, stats>>

-----------------------------------------------------------------------------

Dispatch(d) ==
    \E j \in Jobs : \/ NoHandler(d, j)
                    \/ LockedOut(d, j)
                    \/ StartThrows(d, j)
                    \/ Enter(d, j)
                    \/ DispatchThrows(d, j)

Settle(d) == HandlerThrows(d) \/ HandlerReturns(d) \/ CompletedThrows(d)

DrainStep(d) == Dispatch(d) \/ Settle(d) \/ End(d)

Next ==
    \/ \E j \in Jobs : Schedule(j) \/ Cancel(j)
    \/ \E d \in Drains : Begin(d) \/ DrainStep(d)
    \/ Tick

Spec == Init /\ [][Next]_vars

\* The runtime resumes every continuation, and a handler's promise settles.
Fairness == \A d \in Drains : WF_vars(DrainStep(d))

FairSpec == Spec /\ Fairness

-----------------------------------------------------------------------------
(* What should hold.                                                       *)

\* A drain names a job exactly while it awaits that job's handler, the handler
\* exists, and the iteration it is in was allowed by maxSteps.
DrainsConsistent ==
    \A d \in Drains :
        /\ Handling(d) <=> cur[d] # NoJob
        /\ Handling(d) => /\ cur[d] \notin Unhandled \cup Unclonable
                          /\ steps[d] < MaxSteps

\* An attempt is spent only while the budget lasts, a job is dead-lettered
\* only when its budget is spent, and "failed" is what is left for a job with
\* no handler that still had attempts (queue.js fail()).
RetryBudget ==
    \A j \in Jobs :
        /\ jobs[j].attempts <= MaxAttempts[j] \/ jobs[j].attempts = 1
        /\ jobs[j].state = "absent" => jobs[j].attempts = 0
        /\ jobs[j].state = "queued" => \/ jobs[j].attempts = 0
                                       \/ jobs[j].attempts < MaxAttempts[j]
        /\ jobs[j].state = "dead" => jobs[j].attempts >= MaxAttempts[j]
        /\ jobs[j].state = "failed" => j \in Unhandled

\* A row says "running" only while some drain awaits its handler: no job is
\* stranded in a state that neither dequeue() nor a client looks at.
RunningIsOwned ==
    \A j \in Jobs \ Unclonable :
        jobs[j].state = "running" => \E d \in Drains : Handling(d) /\ cur[d] = j

\* Two drains never run the same job at the same time, whatever the locks do:
\* cancellation and lock expiry do not make a running job runnable.
SingleRun ==
    \A d, e \in Drains :
        Handling(d) /\ Handling(e) /\ cur[d] = cur[e] /\ cur[d] \notin Named => d = e

\* A job that was ever dispatched had its dependencies satisfied, and they
\* still are: success is not taken back once another job can see it.
DependenciesHold ==
    \A j \in Jobs \ Named : jobs[j].attempts > 0 =>
        \A k \in DependsOn[j] \ Named : jobs[k].state = "succeeded"

\* Nothing but a run in progress, or one whose recorder.start() threw, keeps
\* other jobs out of a resource: the finally block leaks no lock.
LocksOwned ==
    \A r \in Resources : Lock!Held(r) =>
        \/ \E d \in Drains : /\ Handling(d)
                             /\ ResourceOf[cur[d]] = r
                             /\ locks[r].token = d
        \/ \E j \in Unclonable : ResourceOf[j] = r

\* Of two handlers in progress on one resource, at least one has outlived its
\* lease (executor.js acquires with ttlMs 60 000 and never renews).
LeaseExclusion ==
    \A d, e \in Drains :
        /\ Handling(d) /\ Handling(e) /\ d # e
        /\ ResourceOf[cur[d]] = ResourceOf[cur[e]]
        => age[d] = TTL \/ age[e] = TTL

\* Every execution the recorder started is still in its handler or was given
\* exactly one final status and one metrics point of the same outcome.
RunsCountedOnce ==
    /\ stats["started"] = stats["succeeded"] + stats["failed"]
                             + Cardinality({d \in Drains : Handling(d)})
    /\ stats["okPoints"] = stats["succeeded"]
    /\ stats["failPoints"] = stats["failed"]

\* A run in progress finds its row running, or cancelled meanwhile.
RunsInState ==
    \A d \in Drains :
        Handling(d) /\ cur[d] \notin Named =>
            jobs[cur[d]].state \in {"running", "cancelled"}

\* A run whose lease has not lapsed owns the lock row, for just as long as the
\* lease still lasts.
LeaseHeld ==
    \A d \in Drains :
        Handling(d) /\ age[d] < TTL =>
            /\ locks[ResourceOf[cur[d]]].token = d
            /\ locks[ResourceOf[cur[d]]].left = TTL - age[d]

\* The inductive invariant: what the properties above need of one another.
IInv ==
    /\ TypeOK
    /\ DrainsConsistent
    /\ RunsInState
    /\ SingleRun
    /\ RunningIsOwned
    /\ RetryBudget
    /\ DependenciesHold
    /\ LeaseHeld
    /\ LocksOwned

\* Success and death are final; a cancelled job leaves that state only through
\* the run that was already in its handler when it was cancelled.
FinalStates ==
    [][\A j \in Jobs \ Named :
          /\ jobs[j].state \in {"succeeded", "dead"} => jobs'[j] = jobs[j]
          /\ jobs[j].state = "cancelled" /\ jobs'[j].state # "cancelled" =>
                \E d \in Drains : Handling(d) /\ cur[d] = j /\ pc'[d] # "handler"
      ]_vars

\* A drain ends only with nothing left to run or with all its steps taken
\* ("Run until queue has no runnable jobs or maxSteps reached", orchestrator.js:14).
DrainsUntilIdle ==
    [][\A d \in Drains :
          Active(d) /\ pc'[d] = "idle" =>
             \/ steps[d] = MaxSteps
             \/ \A j \in Jobs : ~Runnable(j)']_vars

\* No two handlers run on one resource at the same time ("Exclusive resource
\* holds", iep/README.md).
ExclusiveHolds ==
    \A d, e \in Drains :
        Handling(d) /\ Handling(e) /\ ResourceOf[cur[d]] = ResourceOf[cur[e]] => d = e

\* The platform keeps the promise of JobService, for callers that let enqueue()
\* choose the ids and whose payloads can be recorded.
Promise == INSTANCE JobService WITH
    status <- [j \in Jobs |-> jobs[j].state],
    tries <- [j \in Jobs |-> jobs[j].attempts],
    inflight <- {cur[d] : d \in {e \in Drains : Handling(e)}}

KeepsPromise == Promise!Spec

\* Every call of runUntilIdle() settles.
DrainsEnd == \A d \in Drains : Active(d) ~> ~Active(d)

\* A job that is runnable while a drain is active is eventually taken (or withdrawn),
\* unless that drain ends with its maxSteps taken: a call that stops short of them,
\* for whatever it met on the way, leaves nothing behind that it could have run.  What
\* a call at its limit leaves is nobody's to take until somebody begins another.
RunnableServed ==
    \A j \in Jobs, d \in Drains :
        Runnable(j) /\ Active(d) ~>
            \/ ~Runnable(j)
            \/ ~Active(d) /\ steps[d] = MaxSteps

=============================================================================
