----------------------------- MODULE IEPProofs -----------------------------
(***************************************************************************)
(* Proofs about the execution core, for any number of drains, jobs and     *)
(* resources, any dependency relation and any lock ttl.                    *)
(***************************************************************************)
EXTENDS IEP, FiniteSetTheorems, TLAPS

USE DEF drainVars

\* The initial state is well typed.
LEMMA TypeInit == Init => TypeOK
  BY QueueAssumption, IEPAssumption
  DEF Init, TypeOK, QueueInit, QueueTypeOK, NoRow, Row, JobState, Totals,
      Lock!LockInit, Lock!LockTypeOK, Lock!LockRow, Lock!Unlocked

\* The rows that the queue's methods leave are rows.
LEMMA RowType ==
  ASSUME NEW j \in Jobs, NEW row \in Row
  PROVE  /\ Started(row) \in Row
         /\ Started(row).state = "running"
         /\ Started(row).attempts = row.attempts + 1
         /\ Completed(row) \in Row
         /\ Completed(row).state = "succeeded"
         /\ Completed(row).attempts = row.attempts
         /\ Cancelled(row) \in Row
         /\ Cancelled(row).attempts = row.attempts
         /\ Cancelled(row).state =
              IF row.state \in {"succeeded", "dead"} THEN row.state ELSE "cancelled"
  BY DEF Row, JobState, Started, Completed, Cancelled, MovedTo

\* fail() leaves a row, dead exactly when the budget is spent.
LEMMA FailedRowType ==
  ASSUME NEW j \in Jobs, NEW row \in Row
  PROVE  /\ Failed(j, row, "queued") \in Row
         /\ Failed(j, row, "queued").attempts = row.attempts
         /\ Failed(j, row, "queued").state =
              IF row.attempts >= MaxAttempts[j] THEN "dead" ELSE "queued"
         /\ Failed(j, row, "failed") \in Row
         /\ Failed(j, row, "failed").attempts = row.attempts
         /\ Failed(j, row, "failed").state =
              IF row.attempts >= MaxAttempts[j] THEN "dead" ELSE "failed"
  <1>1. AfterFailure(j, row, "queued") =
          IF row.attempts >= MaxAttempts[j] THEN "dead" ELSE "queued"
    BY DEF AfterFailure
  <1>2. AfterFailure(j, row, "failed") =
          IF row.attempts >= MaxAttempts[j] THEN "dead" ELSE "failed"
    BY DEF AfterFailure
  <1>3. ASSUME NEW s \in JobState
        PROVE  /\ MovedTo(s, row) \in Row
               /\ MovedTo(s, row).attempts = row.attempts
               /\ MovedTo(s, row).state = s
    BY <1>3 DEF MovedTo, Row
  <1>4. AfterFailure(j, row, "queued") \in JobState /\ AfterFailure(j, row, "failed") \in JobState
    BY <1>1, <1>2 DEF JobState
  <1> QED
    BY <1>1, <1>2, <1>3, <1>4 DEF Failed

\* A failed attempt, from dequeue() to fail(), leaves a row.
LEMMA MissedRowType ==
  ASSUME NEW j \in Jobs, NEW row \in Row
  PROVE  /\ Failed(j, Started(row), "queued") \in Row
         /\ Failed(j, Started(row), "queued").attempts = row.attempts + 1
         /\ Failed(j, Started(row), "queued").state =
              IF row.attempts + 1 >= MaxAttempts[j] THEN "dead" ELSE "queued"
         /\ Failed(j, Started(row), "failed") \in Row
         /\ Failed(j, Started(row), "failed").attempts = row.attempts + 1
         /\ Failed(j, Started(row), "failed").state =
              IF row.attempts + 1 >= MaxAttempts[j] THEN "dead" ELSE "failed"
         /\ Failed(j, Completed(row), "queued") \in Row
         /\ Failed(j, Completed(row), "queued").attempts = row.attempts
         /\ Failed(j, Completed(row), "queued").state =
              IF row.attempts >= MaxAttempts[j] THEN "dead" ELSE "queued"
  <1>1. /\ Started(row) \in Row
        /\ Started(row).attempts = row.attempts + 1
        /\ Completed(row) \in Row
        /\ Completed(row).attempts = row.attempts
    BY RowType
  <1> DEFINE begun == Started(row)
             ended == Completed(row)
  <1>2. begun \in Row /\ begun.attempts = row.attempts + 1
    BY <1>1
  <1>3. ended \in Row /\ ended.attempts = row.attempts
    BY <1>1
  <1> HIDE DEF begun, ended
  <1>4. /\ Failed(j, begun, "queued") \in Row
        /\ Failed(j, begun, "queued").attempts = row.attempts + 1
        /\ Failed(j, begun, "queued").state =
              IF row.attempts + 1 >= MaxAttempts[j] THEN "dead" ELSE "queued"
    BY <1>2, FailedRowType
  <1>5. /\ Failed(j, begun, "failed") \in Row
        /\ Failed(j, begun, "failed").attempts = row.attempts + 1
        /\ Failed(j, begun, "failed").state =
              IF row.attempts + 1 >= MaxAttempts[j] THEN "dead" ELSE "failed"
    BY <1>2, FailedRowType
  <1>6. /\ Failed(j, ended, "queued") \in Row
        /\ Failed(j, ended, "queued").attempts = row.attempts
        /\ Failed(j, ended, "queued").state =
              IF row.attempts >= MaxAttempts[j] THEN "dead" ELSE "queued"
    BY <1>3, FailedRowType
  <1> QED
    BY <1>4, <1>5, <1>6 DEF begun, ended

\* Every operation of the lock service yields lock rows again.
LEMMA LockType ==
  ASSUME Lock!LockTypeOK, NEW r \in Resources, NEW d \in Drains
  PROVE  /\ Lock!Unlocked \in Lock!LockRow
         /\ Lock!Purged \in [Resources -> Lock!LockRow]
         /\ Lock!Acquire(r, d) => Lock!LockTypeOK'
         /\ Lock!Refuse(r) => Lock!LockTypeOK'
         /\ Lock!Release(r, d) => Lock!LockTypeOK'
  <1> USE DEF Lock!LockTypeOK
  <1>1. Lock!Unlocked \in Lock!LockRow
    BY IEPAssumption DEF Lock!Unlocked, Lock!LockRow
  <1>2. Lock!Purged \in [Resources -> Lock!LockRow]
    BY <1>1 DEF Lock!Purged
  <1>3. [token |-> d, left |-> TTL] \in Lock!LockRow
    BY IEPAssumption DEF Lock!LockRow
  <1>4. Lock!Acquire(r, d) => Lock!LockTypeOK'
    BY <1>2, <1>3 DEF Lock!Acquire
  <1>5. Lock!Release(r, d) => Lock!LockTypeOK'
    BY <1>1 DEF Lock!Release
  <1> QED
    BY <1>1, <1>2, <1>4, <1>5 DEF Lock!Refuse

\* Every action keeps the variables well typed.
LEMMA TypeStep == TypeOK /\ DrainsConsistent /\ [Next]_vars => TypeOK'
  <1> SUFFICES ASSUME TypeOK, DrainsConsistent, [Next]_vars PROVE TypeOK'
    OBVIOUS
  <1> USE QueueAssumption, IEPAssumption DEF TypeOK, QueueTypeOK, Lock!LockTypeOK
  <1>1. ASSUME NEW j \in Jobs, Schedule(j) PROVE TypeOK'
    <2>1. Enqueued \in Row
      BY DEF Enqueued, Row, JobState
    <2> QED
      BY <1>1, <2>1 DEF Schedule
  <1>2. ASSUME NEW j \in Jobs, Cancel(j) PROVE TypeOK'
    <2>1. Cancelled(jobs[j]) \in Row
      BY RowType
    <2> QED
      BY <1>2, <2>1 DEF Cancel
  <1>3. ASSUME NEW d \in Drains, Begin(d) PROVE TypeOK'
    BY <1>3 DEF Begin
  <1>4. ASSUME NEW d \in Drains, NEW j \in Jobs, NoHandler(d, j) PROVE TypeOK'
    <2>1. Failed(j, Started(jobs[j]), "failed") \in Row
      BY MissedRowType
    <2> QED
      BY <1>4, <2>1 DEF NoHandler, Take, Abort
  <1>5. ASSUME NEW d \in Drains, NEW j \in Jobs, LockedOut(d, j) PROVE TypeOK'
    <2>1. Failed(j, Started(jobs[j]), "queued") \in Row
      BY MissedRowType
    <2>2. ResourceOf[j] \in Resources
      OBVIOUS
    <2>3. locks' \in [Resources -> Lock!LockRow]
      BY <1>5, <2>2, LockType DEF LockedOut
    <2> QED
      BY <1>5, <2>1, <2>3 DEF LockedOut, Take, Continue
  <1>6. ASSUME NEW d \in Drains, NEW j \in Jobs, StartThrows(d, j) PROVE TypeOK'
    <2>1. Started(jobs[j]) \in Row
      BY RowType
    <2>2. ResourceOf[j] \in Resources
      OBVIOUS
    <2>3. locks' \in [Resources -> Lock!LockRow]
      BY <1>6, <2>2, LockType DEF StartThrows
    <2> QED
      BY <1>6, <2>1, <2>3 DEF StartThrows, Take, Abort
  <1>7. ASSUME NEW d \in Drains, NEW j \in Jobs, Enter(d, j) PROVE TypeOK'
    <2>1. Started(jobs[j]) \in Row
      BY RowType
    <2>2. ResourceOf[j] \in Resources
      OBVIOUS
    <2>3. locks' \in [Resources -> Lock!LockRow]
      BY <1>7, <2>2, LockType DEF Enter
    <2> QED
      BY <1>7, <2>1, <2>3 DEF Enter, Take, Count, Totals
  <1>8. ASSUME NEW d \in Drains, NEW j \in Jobs, DispatchThrows(d, j) PROVE TypeOK'
    <2>1. Failed(j, Started(jobs[j]), "queued") \in Row
      BY MissedRowType
    <2>2. ResourceOf[j] \in Resources
      OBVIOUS
    <2>3. locks' \in [Resources -> Lock!LockRow]
      BY <1>8, <2>2, LockType DEF DispatchThrows
    <2> QED
      BY <1>8, <2>1, <2>3
      DEF DispatchThrows, Take, LeaveCatch, Abort, Continue, Count, Totals
  <1>9. ASSUME NEW d \in Drains, Settle(d) PROVE TypeOK'
    <2>1. Handling(d) /\ UNCHANGED clock
      BY <1>9 DEF Settle, HandlerThrows, HandlerReturns, CompletedThrows, Catch
    <2>2. cur[d] \in Jobs /\ steps[d] < MaxSteps
      BY <2>1 DEF DrainsConsistent
    <2>3. /\ Completed(jobs[cur[d]]) \in Row
          /\ Failed(cur[d], jobs[cur[d]], "queued") \in Row
          /\ Failed(cur[d], Completed(jobs[cur[d]]), "queued") \in Row
      BY <2>2, RowType, FailedRowType, MissedRowType
    <2>4. jobs' \in [Jobs -> Row]
      BY <1>9, <2>3 DEF Settle, HandlerThrows, HandlerReturns, CompletedThrows, Catch
    <2>5. Lock!Release(ResourceOf[cur[d]], d)
      BY <1>9 DEF Settle, HandlerThrows, HandlerReturns, CompletedThrows, Catch
    <2>6. ResourceOf[cur[d]] \in Resources
      BY <2>2
    <2>7. locks' \in [Resources -> Lock!LockRow]
      BY <2>5, <2>6, LockType
    <2>8. Continue(d) \/ Abort(d)
      BY <1>9
      DEF Settle, HandlerThrows, HandlerReturns, CompletedThrows, Catch, LeaveCatch
    <2>9. stats' \in [Totals -> Nat]
      BY <1>9 DEF Settle, HandlerThrows, HandlerReturns, CompletedThrows, Count
    <2> QED
      BY <2>1, <2>2, <2>4, <2>7, <2>8, <2>9 DEF Continue, Abort
  <1>10. ASSUME NEW d \in Drains, End(d) PROVE TypeOK'
    BY <1>10 DEF End
  <1>11. CASE Tick
    BY <1>11 DEF Tick, Handling, Lock!Elapse, Lock!Held, Lock!LockRow
  <1>12. CASE UNCHANGED vars
    BY <1>12 DEF vars
  <1> QED
    BY <1>1, <1>2, <1>3, <1>4, <1>5, <1>6, <1>7, <1>8, <1>9, <1>10, <1>11, <1>12
    DEF Next, DrainStep, Dispatch

\* A drain that continues or aborts is no longer in a handler; the others are
\* where they were.
Left(d) ==
    /\ pc'[d] # "handler"
    /\ cur'[d] = NoJob
    /\ \A e \in Drains \ {d} : /\ pc'[e] = pc[e]
                                /\ cur'[e] = cur[e]
                                /\ age'[e] = age[e]

\* Both ways on from run(), returning and throwing, leave the handler.
LEMMA LeaveStep ==
  ASSUME TypeOK, NEW d \in Drains, Continue(d) \/ Abort(d)
  PROVE  Left(d)
  BY DEF TypeOK, Continue, Abort, Left

\* The end of a run: what it does to the drain, to the lock and to the row.
Settled(d) ==
    /\ Handling(d)
    /\ cur[d] \in Jobs
    /\ cur[d] \notin Unhandled
    /\ Left(d)
    /\ Lock!Release(ResourceOf[cur[d]], d)
    /\ clock' = clock
    /\ \A k \in Jobs \ {cur[d]} : jobs'[k] = jobs[k]
    /\ jobs'[cur[d]].attempts = jobs[cur[d]].attempts
    /\ \/ jobs'[cur[d]].state = "succeeded"
       \/ jobs'[cur[d]].state = IF jobs[cur[d]].attempts >= MaxAttempts[cur[d]]
                                THEN "dead" ELSE "queued"

\* Each of the three ways a handler settles is such an end.
LEMMA SettleStep ==
  ASSUME NEW d \in Drains, Settle(d), TypeOK, DrainsConsistent
  PROVE  Settled(d)
  <1>1. Handling(d) /\ clock' = clock
    BY DEF Settle, HandlerThrows, HandlerReturns, CompletedThrows, Catch
  <1>2. cur[d] \in Jobs /\ cur[d] \notin Unhandled
    BY <1>1 DEF DrainsConsistent, TypeOK
  <1>3. Lock!Release(ResourceOf[cur[d]], d)
    BY DEF Settle, HandlerThrows, HandlerReturns, CompletedThrows, Catch
  <1>4. Left(d)
    BY LeaveStep
    DEF Settle, HandlerThrows, HandlerReturns, CompletedThrows, Catch, LeaveCatch
  <1>5. jobs \in [Jobs -> Row] /\ jobs[cur[d]] \in Row
    BY <1>2 DEF TypeOK, QueueTypeOK
  <1>6. \/ jobs' = [jobs EXCEPT ![cur[d]] = Completed(jobs[cur[d]])]
        \/ jobs' = [jobs EXCEPT ![cur[d]] = Failed(cur[d], jobs[cur[d]], "queued")]
        \/ jobs' = [jobs EXCEPT ![cur[d]] =
                        Failed(cur[d], Completed(jobs[cur[d]]), "queued")]
    BY DEF Settle, HandlerThrows, HandlerReturns, CompletedThrows, Catch
  <1>7. \/ jobs'[cur[d]] = Completed(jobs[cur[d]])
        \/ jobs'[cur[d]] = Failed(cur[d], jobs[cur[d]], "queued")
        \/ jobs'[cur[d]] = Failed(cur[d], Completed(jobs[cur[d]]), "queued")
    BY <1>2, <1>5, <1>6
  <1>8. \A k \in Jobs \ {cur[d]} : jobs'[k] = jobs[k]
    BY <1>2, <1>5, <1>6
  <1>9. /\ jobs'[cur[d]].attempts = jobs[cur[d]].attempts
        /\ \/ jobs'[cur[d]].state = "succeeded"
           \/ jobs'[cur[d]].state = IF jobs[cur[d]].attempts >= MaxAttempts[cur[d]]
                                    THEN "dead" ELSE "queued"
    BY <1>2, <1>5, <1>7, RowType, FailedRowType, MissedRowType
  <1> QED
    BY <1>1, <1>2, <1>3, <1>4, <1>8, <1>9
    DEF Settled

\* Every action keeps pc, cur and steps of each drain consistent.
LEMMA DrainsStep == TypeOK /\ DrainsConsistent /\ [Next]_vars => DrainsConsistent'
  <1> SUFFICES ASSUME TypeOK, DrainsConsistent, [Next]_vars PROVE DrainsConsistent'
    OBVIOUS
  <1> USE IEPAssumption DEF TypeOK, DrainsConsistent, Handling
  <1>1. ASSUME NEW j \in Jobs, Schedule(j) \/ Cancel(j) PROVE DrainsConsistent'
    BY <1>1 DEF Schedule, Cancel
  <1>2. ASSUME NEW d \in Drains, Begin(d) \/ End(d) PROVE DrainsConsistent'
    BY <1>2 DEF Begin, End
  <1>3. ASSUME NEW d \in Drains, NEW j \in Jobs,
               NoHandler(d, j) \/ LockedOut(d, j) \/ StartThrows(d, j) \/ DispatchThrows(d, j)
        PROVE  DrainsConsistent'
    <2>1. Take(d, j) /\ (Continue(d) \/ Abort(d))
      BY <1>3 DEF NoHandler, LockedOut, StartThrows, DispatchThrows, LeaveCatch
    <2> QED
      BY <2>1 DEF Take, Continue, Abort
  <1>4. ASSUME NEW d \in Drains, NEW j \in Jobs, Enter(d, j) PROVE DrainsConsistent'
    BY <1>4 DEF Enter, Take
  <1>5. ASSUME NEW d \in Drains, Settle(d) PROVE DrainsConsistent'
    <2>1. Continue(d) \/ Abort(d)
      BY <1>5
      DEF Settle, HandlerThrows, HandlerReturns, CompletedThrows, Catch, LeaveCatch
    <2>2. Handling(d)
      BY <1>5, SettleStep DEF Settled
    <2> QED
      BY <2>1, <2>2 DEF Continue, Abort
  <1>6. CASE Tick
    BY <1>6 DEF Tick
  <1>7. CASE UNCHANGED vars
    BY <1>7 DEF vars
  <1> QED
    BY <1>1, <1>2, <1>3, <1>4, <1>5, <1>6, <1>7 DEF Next, DrainStep, Dispatch

\* The types of the state variables are preserved by every operation.
THEOREM TypeCorrect == Spec => [](TypeOK /\ DrainsConsistent)
  <1>1. Init => TypeOK /\ DrainsConsistent
    BY TypeInit DEF Init, DrainsConsistent, Handling
  <1>2. TypeOK /\ DrainsConsistent /\ [Next]_vars => (TypeOK /\ DrainsConsistent)'
    BY TypeStep, DrainsStep
  <1> QED
    BY <1>1, <1>2, PTL DEF Spec

-----------------------------------------------------------------------------
(* What dispatching does to the row of the job.                            *)

Misses(d, j) == NoHandler(d, j) \/ LockedOut(d, j) \/ DispatchThrows(d, j)

\* An iteration that ends without the handler having been called.
Missed(d, j) ==
    /\ Take(d, j)
    /\ Left(d)
    /\ \A k \in Jobs \ {j} : jobs'[k] = jobs[k]
    /\ jobs'[j].attempts = jobs[j].attempts + 1
    /\ IF jobs'[j].attempts >= MaxAttempts[j]
       THEN jobs'[j].state = "dead"
       ELSE jobs'[j].state = "queued" \/ jobs'[j].state = "failed"
    /\ jobs'[j].state = "failed" => j \in Unhandled
    /\ clock' = clock

\* Each of the three failures before the handler is such an iteration.
LEMMA MissStep ==
  ASSUME TypeOK, NEW d \in Drains, NEW j \in Jobs, Misses(d, j)
  PROVE  Missed(d, j)
  <1> USE DEF TypeOK, QueueTypeOK
  <1>1. Take(d, j) /\ Left(d) /\ clock' = clock
    BY LeaveStep DEF Misses, NoHandler, LockedOut, DispatchThrows, LeaveCatch
  <1>2. \/ j \in Unhandled /\ jobs' = [jobs EXCEPT ![j] = Failed(j, Started(jobs[j]), "failed")]
        \/ jobs' = [jobs EXCEPT ![j] = Failed(j, Started(jobs[j]), "queued")]
    BY DEF Misses, NoHandler, LockedOut, DispatchThrows
  <1>3. \A k \in Jobs \ {j} : jobs'[k] = jobs[k]
    BY <1>2
  <1>4. \/ j \in Unhandled /\ jobs'[j] = Failed(j, Started(jobs[j]), "failed")
        \/ jobs'[j] = Failed(j, Started(jobs[j]), "queued")
    BY <1>2
  <1>5. /\ jobs'[j].attempts = jobs[j].attempts + 1
        /\ IF jobs[j].attempts + 1 >= MaxAttempts[j]
           THEN jobs'[j].state = "dead"
           ELSE jobs'[j].state = "queued" \/ jobs'[j].state = "failed"
        /\ jobs'[j].state = "failed" => j \in Unhandled
    BY <1>4, MissedRowType
  <1> QED
    BY <1>1, <1>3, <1>5
    DEF Missed

\* An iteration that takes the lock and marks the row running.
Begun(d, j) ==
    /\ Take(d, j)
    /\ \A k \in Jobs \ {j} : jobs'[k] = jobs[k]
    /\ jobs'[j].attempts = jobs[j].attempts + 1
    /\ jobs'[j].state = "running"
    /\ clock' = clock
    /\ Lock!Acquire(ResourceOf[j], d)

\* Entering a handler and being thrown out by recorder.start() begin alike.
LEMMA StartStep ==
  ASSUME TypeOK, NEW d \in Drains, NEW j \in Jobs, StartThrows(d, j) \/ Enter(d, j)
  PROVE  Begun(d, j)
  <1> USE DEF TypeOK, QueueTypeOK
  <1>1. /\ Take(d, j) /\ clock' = clock
        /\ jobs' = [jobs EXCEPT ![j] = Started(jobs[j])]
        /\ Lock!Acquire(ResourceOf[j], d)
    BY DEF StartThrows, Enter
  <1>2. jobs'[j] = Started(jobs[j]) /\ \A k \in Jobs \ {j} : jobs'[k] = jobs[k]
    BY <1>1
  <1> QED
    BY <1>1, <1>2, RowType
    DEF Begun

\* A client's call either enqueues a row afresh or cancels it.
Called(j) ==
    /\ \A k \in Jobs \ {j} : jobs'[k] = jobs[k]
    /\ UNCHANGED <<locks, pc, cur, age, steps>>
    /\ \/ /\ jobs[j].state = "absent" \/ j \in Named
          /\ jobs'[j].state = "queued"
          /\ jobs'[j].attempts = 0
       \/ /\ jobs[j].state # "absent"
          /\ jobs'[j].attempts = jobs[j].attempts
          /\ jobs'[j].state = IF jobs[j].state \in {"succeeded", "dead"}
                              THEN jobs[j].state ELSE "cancelled"

\* enqueue() and cancel() touch one row and no drain.
LEMMA ClientStep ==
  ASSUME TypeOK, NEW j \in Jobs, Schedule(j) \/ Cancel(j)
  PROVE  Called(j)
  <1> USE DEF TypeOK, QueueTypeOK
  <1>1. CASE Schedule(j)
    <2>1. /\ jobs'[j] = Enqueued
          /\ \A k \in Jobs \ {j} : jobs'[k] = jobs[k]
          /\ UNCHANGED <<locks, pc, cur, age, steps>>
          /\ jobs[j].state = "absent" \/ j \in Named
      BY <1>1 DEF Schedule
    <2>2. jobs'[j].state = "queued" /\ jobs'[j].attempts = 0
      BY <2>1 DEF Enqueued
    <2> QED
      BY <2>1, <2>2 DEF Called
  <1>2. CASE Cancel(j)
    <2>1. /\ jobs'[j] = Cancelled(jobs[j])
          /\ \A k \in Jobs \ {j} : jobs'[k] = jobs[k]
          /\ UNCHANGED <<locks, pc, cur, age, steps>>
          /\ jobs[j].state # "absent"
      BY <1>2 DEF Cancel
    <2>2. /\ jobs'[j].attempts = jobs[j].attempts
          /\ jobs'[j].state = IF jobs[j].state \in {"succeeded", "dead"}
                              THEN jobs[j].state ELSE "cancelled"
      BY <2>1, RowType
    <2> QED
      BY <2>1, <2>2 DEF Called
  <1> QED
    BY <1>1, <1>2

-----------------------------------------------------------------------------
(* The invariants about the rows.                                          *)

RowInv ==
    /\ RunsInState
    /\ SingleRun
    /\ RunningIsOwned
    /\ RetryBudget
    /\ DependenciesHold

\* Every action preserves the invariants about rows.
LEMMA RowStep ==
  TypeOK /\ DrainsConsistent /\ TypeOK' /\ RowInv /\ [Next]_vars => RowInv'
  <1> SUFFICES ASSUME TypeOK, DrainsConsistent, TypeOK', RowInv, [Next]_vars
               PROVE  RowInv'
    OBVIOUS
  <1> USE QueueAssumption, IEPAssumption
      DEF QueueTypeOK, RowInv, RunsInState, SingleRun, RunningIsOwned, RetryBudget,
          DependenciesHold, Handling
  <1>0. /\ jobs \in [Jobs -> Row]
        /\ \A j \in Jobs : jobs[j].attempts \in Nat /\ jobs[j].state \in JobState
        /\ \A j \in Jobs : jobs'[j].attempts \in Nat /\ jobs'[j].state \in JobState
        /\ pc \in [Drains -> {"idle", "loop", "handler"}]
        /\ cur \in [Drains -> Jobs \cup {NoJob}]
        /\ \A d \in Drains : Handling(d) => cur[d] \in Jobs
    BY DEF TypeOK, Row, DrainsConsistent
  <1>1. ASSUME NEW j \in Jobs, Schedule(j) \/ Cancel(j) PROVE RowInv'
    <2>0. Called(j)
      BY <1>1, ClientStep
    <2>1. RunsInState'
      BY <1>0, <2>0 DEF Called
    <2>2. SingleRun'
      BY <1>0, <2>0 DEF Called
    <2>3. RunningIsOwned'
      BY <1>0, <2>0 DEF Called
    <2>4. RetryBudget'
      BY <1>0, <2>0 DEF Called
    <2>5. DependenciesHold'
      BY <1>0, <2>0 DEF Called
    <2> QED
      BY <2>1, <2>2, <2>3, <2>4, <2>5
  <1>2. ASSUME NEW d \in Drains, Begin(d) \/ End(d) PROVE RowInv'
    BY <1>0, <1>2 DEF Begin, End
  <1>3. ASSUME NEW d \in Drains, NEW j \in Jobs, Misses(d, j) PROVE RowInv'
    <2>0. Missed(d, j)
      BY <1>3, MissStep
    <2>1. RunsInState'
      BY <1>0, <2>0 DEF Missed, Take, IsNext, Runnable, DepsMet, Left
    <2>2. SingleRun'
      BY <1>0, <2>0 DEF Missed, Take, IsNext, Runnable, DepsMet, Left
    <2>3. RunningIsOwned'
      BY <1>0, <2>0 DEF Missed, Take, IsNext, Runnable, DepsMet, Left
    <2>4. RetryBudget'
      BY <1>0, <2>0 DEF Missed, Take, IsNext, Runnable, DepsMet, Left
    <2>5. DependenciesHold'
      BY <1>0, <2>0 DEF Missed, Take, IsNext, Runnable, DepsMet, Left
    <2> QED
      BY <2>1, <2>2, <2>3, <2>4, <2>5
  <1>4. ASSUME NEW d \in Drains, NEW j \in Jobs, StartThrows(d, j) PROVE RowInv'
    <2>0. Begun(d, j) /\ Left(d) /\ j \in Unclonable
      BY <1>4, StartStep, LeaveStep DEF StartThrows
    <2>1. RunsInState'
      BY <1>0, <2>0 DEF Begun, Take, IsNext, Runnable, DepsMet, Left
    <2>2. SingleRun'
      BY <1>0, <2>0 DEF Begun, Take, IsNext, Runnable, DepsMet, Left
    <2>3. RunningIsOwned'
      BY <1>0, <2>0 DEF Begun, Take, IsNext, Runnable, DepsMet, Left
    <2>4. RetryBudget'
      BY <1>0, <2>0 DEF Begun, Take, IsNext, Runnable, DepsMet, Left
    <2>5. DependenciesHold'
      BY <1>0, <2>0 DEF Begun, Take, IsNext, Runnable, DepsMet, Left
    <2> QED
      BY <2>1, <2>2, <2>3, <2>4, <2>5
  <1>5. ASSUME NEW d \in Drains, NEW j \in Jobs, Enter(d, j) PROVE RowInv'
    <2>a. Begun(d, j)
      BY <1>5, StartStep
    <2>b. /\ pc'[d] = "handler" /\ cur'[d] = j
          /\ \A e \in Drains \ {d} : pc'[e] = pc[e] /\ cur'[e] = cur[e]
      BY <1>0, <1>5 DEF Enter
    <2>0. /\ Begun(d, j)
          /\ pc'[d] = "handler" /\ cur'[d] = j
          /\ \A e \in Drains \ {d} : pc'[e] = pc[e] /\ cur'[e] = cur[e]
      BY <2>a, <2>b
    <2>1. RunsInState'
      BY <1>0, <2>0 DEF Begun, Take, IsNext, Runnable, DepsMet
    <2>2. SingleRun'
      BY <1>0, <2>0 DEF Begun, Take, IsNext, Runnable, DepsMet
    <2>3. RunningIsOwned'
      BY <1>0, <2>0 DEF Begun, Take, IsNext, Runnable, DepsMet
    <2>4. RetryBudget'
      BY <1>0, <2>0 DEF Begun, Take, IsNext, Runnable, DepsMet
    <2>5. DependenciesHold'
      BY <1>0, <2>0 DEF Begun, Take, IsNext, Runnable, DepsMet
    <2> QED
      BY <2>1, <2>2, <2>3, <2>4, <2>5
  <1>6. ASSUME NEW d \in Drains, Settle(d) PROVE RowInv'
    <2>0. Settled(d)
      BY <1>6, SettleStep
    <2>1. RunsInState'
      BY <1>0, <2>0 DEF Settled, Left
    <2>2. SingleRun'
      BY <1>0, <2>0 DEF Settled, Left
    <2>3. RunningIsOwned'
      BY <1>0, <2>0 DEF Settled, Left
    <2>4. RetryBudget'
      BY <1>0, <2>0 DEF Settled, Left
    <2>5. DependenciesHold'
      BY <1>0, <2>0 DEF Settled, Left
    <2> QED
      BY <2>1, <2>2, <2>3, <2>4, <2>5
  <1>7. CASE Tick
    BY <1>0, <1>7 DEF Tick
  <1>8. CASE UNCHANGED vars
    BY <1>0, <1>8 DEF vars
  <1> QED
    BY <1>1, <1>2, <1>3, <1>4, <1>5, <1>6, <1>7, <1>8 DEF Next, DrainStep, Dispatch, Misses

-----------------------------------------------------------------------------
(* The invariants about the locks.                                         *)

LockInv == LeaseHeld /\ LocksOwned

\* What dispatching does to the locks: a resource that is held stays as it is,
\* and only the drain that enters a handler, or strands one, takes a new one.
LEMMA LockStep ==
  TypeOK /\ DrainsConsistent /\ LockInv /\ [Next]_vars => LockInv'
  <1> SUFFICES ASSUME TypeOK, DrainsConsistent, LockInv, [Next]_vars PROVE LockInv'
    OBVIOUS
  <1> USE IEPAssumption DEF LockInv, LeaseHeld, LocksOwned, Handling, Lock!Held
  <1>0. /\ locks \in [Resources -> Lock!LockRow]
        /\ \A r \in Resources : locks[r].left \in 0 .. TTL
        /\ \A d \in Drains : age[d] \in 0 .. TTL
        /\ \A d \in Drains : Handling(d) => cur[d] \in Jobs
        /\ \A d \in Drains : Handling(d) => ResourceOf[cur[d]] \in Resources
        /\ pc \in [Drains -> {"idle", "loop", "handler"}]
        /\ cur \in [Drains -> Jobs \cup {NoJob}]
        /\ age \in [Drains -> 0 .. TTL]
        /\ Lock!Unlocked.left = 0
    BY DEF TypeOK, Lock!LockTypeOK, Lock!LockRow, Lock!Unlocked, DrainsConsistent
  <1>1. ASSUME NEW j \in Jobs, Schedule(j) \/ Cancel(j) PROVE LockInv'
    BY <1>0, <1>1 DEF Schedule, Cancel
  <1>2. ASSUME NEW d \in Drains, Begin(d) \/ End(d) PROVE LockInv'
    BY <1>0, <1>2 DEF Begin, End
  <1>3. ASSUME NEW d \in Drains, NEW j \in Jobs, Misses(d, j) PROVE LockInv'
    <2>1. Left(d) /\ pc[d] = "loop"
      BY <1>3, MissStep DEF Missed, Take
    <2>2. \A r \in Resources : IF Lock!Held(r) THEN locks'[r] = locks[r]
                                              ELSE locks'[r].left = 0
      <3>1. CASE NoHandler(d, j)
        BY <1>0, <3>1 DEF NoHandler
      <3>2. CASE LockedOut(d, j)
        BY <1>0, <3>2 DEF LockedOut, Lock!Refuse, Lock!Purged
      <3>3. CASE DispatchThrows(d, j)
        BY <1>0, <3>3 DEF DispatchThrows, Lock!Purged
      <3> QED
        BY <1>3, <3>1, <3>2, <3>3 DEF Misses
    <2>3. LeaseHeld'
      BY <1>0, <2>1, <2>2 DEF Left
    <2>4. LocksOwned'
      BY <1>0, <2>1, <2>2 DEF Left
    <2> QED
      BY <2>3, <2>4
  <1>4. ASSUME NEW d \in Drains, NEW j \in Jobs, StartThrows(d, j) \/ Enter(d, j)
        PROVE  LockInv'
    <2>1. pc[d] = "loop" /\ Lock!Acquire(ResourceOf[j], d)
      BY <1>4 DEF StartThrows, Enter, Take
    <2>2. /\ ~Lock!Held(ResourceOf[j])
          /\ locks'[ResourceOf[j]].token = d
          /\ locks'[ResourceOf[j]].left = TTL
          /\ \A r \in Resources \ {ResourceOf[j]} :
                IF Lock!Held(r) THEN locks'[r] = locks[r] ELSE locks'[r].left = 0
      BY <1>0, <2>1 DEF Lock!Acquire, Lock!Purged
    <2>3. \/ Left(d) /\ j \in Unclonable
          \/ /\ pc'[d] = "handler" /\ cur'[d] = j /\ age'[d] = 0
             /\ \A e \in Drains \ {d} : /\ pc'[e] = pc[e]
                                         /\ cur'[e] = cur[e]
                                         /\ age'[e] = age[e]
      BY <1>0, <1>4, LeaveStep DEF StartThrows, Enter
    <2>4. LeaseHeld'
      BY <1>0, <2>1, <2>2, <2>3 DEF Left
    <2>5. LocksOwned'
      BY <1>0, <2>1, <2>2, <2>3 DEF Left
    <2> QED
      BY <2>4, <2>5
  <1>5. ASSUME NEW d \in Drains, Settle(d) PROVE LockInv'
    <2>1. /\ Handling(d) /\ Left(d) /\ cur[d] \in Jobs
          /\ Lock!Release(ResourceOf[cur[d]], d)
      BY <1>5, SettleStep DEF Settled
    <2>2. /\ \A r \in Resources \ {ResourceOf[cur[d]]} : locks'[r] = locks[r]
          /\ IF locks[ResourceOf[cur[d]]].token = d
             THEN locks'[ResourceOf[cur[d]]].left = 0
             ELSE locks'[ResourceOf[cur[d]]] = locks[ResourceOf[cur[d]]]
      BY <1>0, <2>1 DEF Lock!Release
    <2>3. LeaseHeld'
      BY <1>0, <2>1, <2>2 DEF Left
    <2>4. LocksOwned'
      BY <1>0, <2>1, <2>2 DEF Left
    <2> QED
      BY <2>3, <2>4
  <1>6. CASE Tick
    <2>1. \A r \in Resources :
             /\ locks'[r].token = locks[r].token
             /\ locks'[r].left = IF Lock!Held(r) THEN locks[r].left - 1 ELSE 0
      BY <1>6 DEF Tick, Lock!Elapse
    <2>2. \A d \in Drains : /\ pc'[d] = pc[d] /\ cur'[d] = cur[d]
                            /\ Handling(d) /\ age[d] < TTL => age'[d] = age[d] + 1
                            /\ Handling(d) /\ age[d] = TTL => age'[d] = TTL
      BY <1>0, <1>6 DEF Tick
    <2>3. LeaseHeld'
      <3> SUFFICES ASSUME NEW d \in Drains, Handling(d)', age'[d] < TTL
                   PROVE  /\ locks'[ResourceOf[cur'[d]]].token = d
                          /\ locks'[ResourceOf[cur'[d]]].left = TTL - age'[d]
        OBVIOUS
      <3>1. age[d] \in 0 .. TTL /\ pc[d] = "handler" /\ cur'[d] = cur[d]
        BY <1>0, <2>2
      <3>2. age[d] # TTL
        BY <2>2, <3>1
      <3>3. age[d] < TTL
        BY <3>1, <3>2
      <3>4. /\ Handling(d) /\ cur'[d] = cur[d] /\ ResourceOf[cur[d]] \in Resources
            /\ age[d] < TTL /\ age'[d] = age[d] + 1
        BY <1>0, <2>2, <3>1, <3>3
      <3>5. /\ locks[ResourceOf[cur[d]]].token = d
            /\ locks[ResourceOf[cur[d]]].left = TTL - age[d]
        BY <3>4
      <3>6. age[d] \in Nat /\ TTL \in Nat /\ Lock!Held(ResourceOf[cur[d]])
        BY <1>0, <3>4, <3>5
      <3> QED
        BY <2>1, <3>4, <3>5, <3>6
    <2>4. LocksOwned'
      BY <1>0, <2>1, <2>2
    <2> QED
      BY <2>3, <2>4
  <1>7. CASE UNCHANGED vars
    BY <1>0, <1>7 DEF vars
  <1> QED
    BY <1>1, <1>2, <1>3, <1>4, <1>5, <1>6, <1>7 DEF Next, DrainStep, Dispatch, Misses

-----------------------------------------------------------------------------

\* The inductive invariant holds initially.
LEMMA IInvInit == Init => IInv
  <1> SUFFICES ASSUME Init PROVE IInv
    OBVIOUS
  <1>1. TypeOK
    BY TypeInit
  <1>2. /\ \A j \in Jobs : jobs[j].state = "absent" /\ jobs[j].attempts = 0
        /\ \A d \in Drains : ~Handling(d) /\ cur[d] = NoJob
        /\ \A r \in Resources : locks[r].left = 0
    BY DEF Init, QueueInit, NoRow, Handling, Lock!LockInit, Lock!Unlocked
  <1> QED
    BY <1>1, <1>2, QueueAssumption
    DEF IInv, DrainsConsistent, RunsInState, SingleRun, RunningIsOwned, RetryBudget,
        DependenciesHold, LeaseHeld, LocksOwned, Lock!Held

\* The inductive invariant holds: every reachable state of the core has typed
\* rows, runs that own their rows, leases that hold their locks.
THEOREM Invariance == Spec => []IInv
  <1>1. IInv /\ [Next]_vars => IInv'
    BY TypeStep, DrainsStep, RowStep, LockStep DEF IInv, RowInv, LockInv
  <1> QED
    BY <1>1, IInvInit, PTL DEF Spec

\* A job is never attempted beyond its budget, and is dead only when the budget
\* is spent.
THEOREM BudgetKept == Spec => []RetryBudget
  BY Invariance, PTL DEF IInv

\* Whatever happens to the locks, a job is in at most one handler at a time, and
\* a job said to be running is in one.
THEOREM RunsAreSingle == Spec => [](SingleRun /\ RunningIsOwned)
  BY Invariance, PTL DEF IInv

\* A job whose payload can be recorded says "running" only while a drain awaits
\* its handler: no row is stranded.
THEOREM RunningRowsOwned == Spec => []RunningIsOwned
  BY Invariance, PTL DEF IInv

\* No job ran before its dependencies succeeded, and none of them has since
\* ceased to be succeeded.
THEOREM DependenciesKept == Spec => []DependenciesHold
  BY Invariance, PTL DEF IInv

\* A held lock belongs to a run in progress: the executor leaks none.
THEOREM NoLeakedLock == Spec => []LocksOwned
  BY Invariance, PTL DEF IInv

\* Two handlers meet on one resource only after one of the leases lapsed.
THEOREM LeaseExcludes == Spec => []LeaseExclusion
  <1>1. IInv => LeaseExclusion
    <2> SUFFICES ASSUME IInv,
                        NEW d \in Drains, NEW e \in Drains,
                        Handling(d), Handling(e), d # e,
                        ResourceOf[cur[d]] = ResourceOf[cur[e]],
                        age[d] # TTL, age[e] # TTL
                 PROVE  FALSE
      BY DEF LeaseExclusion
    <2>1. age[d] < TTL /\ age[e] < TTL
      BY IEPAssumption DEF IInv, TypeOK
    <2>2. locks[ResourceOf[cur[d]]].token = d /\ locks[ResourceOf[cur[e]]].token = e
      BY <2>1 DEF IInv, LeaseHeld
    <2> QED
      BY <2>2
  <1> QED
    BY <1>1, Invariance, PTL

-----------------------------------------------------------------------------
(* The recorder's books.                                                   *)

Busy == {d \in Drains : Handling(d)}

\* There are finitely many runs in progress; one more or one less counts as one.
LEMMA BusyCount ==
  /\ Cardinality(Busy) \in Nat
  /\ \A d \in Drains : ~Handling(d) =>
        Cardinality(Busy \cup {d}) = Cardinality(Busy) + 1
  /\ \A d \in Drains : Handling(d) =>
        Cardinality(Busy) = Cardinality(Busy \ {d}) + 1 /\ Cardinality(Busy \ {d}) \in Nat
  <1>1. IsFiniteSet(Busy)
    BY FS_Subset, DrainsAssumption DEF Busy
  <1>2. Cardinality(Busy) \in Nat
    BY <1>1, FS_CardinalityType
  <1>3. ASSUME NEW d \in Drains, ~Handling(d)
        PROVE  Cardinality(Busy \cup {d}) = Cardinality(Busy) + 1
    <2>1. d \notin Busy
      BY <1>3 DEF Busy
    <2> QED
      BY <1>1, <2>1, FS_AddElement
  <1>4. ASSUME NEW d \in Drains, Handling(d)
        PROVE  /\ Cardinality(Busy) = Cardinality(Busy \ {d}) + 1
               /\ Cardinality(Busy \ {d}) \in Nat
    <2>1. d \in Busy
      BY <1>4 DEF Busy
    <2>2. IsFiniteSet(Busy \ {d})
      BY <1>1, FS_Subset
    <2>3. Cardinality(Busy \ {d}) \in Nat
      BY <2>2, FS_CardinalityType
    <2>4. Cardinality(Busy \ {d}) = Cardinality(Busy) - 1
      BY <1>1, <2>1, FS_RemoveElement
    <2> QED
      BY <1>2, <2>3, <2>4
  <1> QED
    BY <1>2, <1>3, <1>4

\* Every total, after a step that counts.
LEMMA CountStep ==
  ASSUME TypeOK, NEW names, Count(names)
  PROVE  \A n \in Totals : stats'[n] = IF n \in names THEN stats[n] + 1 ELSE stats[n]
  BY DEF Count, TypeOK

\* A step opens an execution and a run, closes one of either and measures it, or
\* opens and closes an execution at once.
LEMMA BooksStep ==
  ASSUME TypeOK, DrainsConsistent, [Next]_vars
  PROVE  \/ UNCHANGED stats /\ Busy' = Busy
         \/ \E d \in Drains : /\ ~Handling(d) /\ Busy' = Busy \cup {d}
                             /\ Count({"started"})
         \/ \E d \in Drains : /\ Handling(d) /\ Busy' = Busy \ {d}
                             /\ \/ Count({"succeeded", "okPoints"})
                                \/ Count({"failed", "failPoints"})
                                \/ BusThrows
         \/ BusThrows
  <1>1. pc \in [Drains -> {"idle", "loop", "handler"}]
    BY DEF TypeOK
  <1>2. ASSUME UNCHANGED stats, \A d \in Drains : Handling(d)' <=> Handling(d)
        PROVE  UNCHANGED stats /\ Busy' = Busy
    BY <1>2 DEF Busy
  <1>3. ASSUME NEW j \in Jobs, Schedule(j) \/ Cancel(j)
        PROVE  UNCHANGED stats /\ Busy' = Busy
    BY <1>3 DEF Schedule, Cancel, Busy, Handling
  <1>4. ASSUME NEW d \in Drains, Begin(d) \/ End(d)
        PROVE  UNCHANGED stats /\ Busy' = Busy
    BY <1>1, <1>4 DEF Begin, End, Busy, Handling
  <1>5. ASSUME NEW d \in Drains, NEW j \in Jobs,
               NoHandler(d, j) \/ LockedOut(d, j) \/ StartThrows(d, j)
        PROVE  UNCHANGED stats /\ Busy' = Busy
    <2>1. pc[d] = "loop" /\ UNCHANGED stats /\ (Continue(d) \/ Abort(d))
      BY <1>5 DEF NoHandler, LockedOut, StartThrows, Take
    <2>2. \A e \in Drains : (pc'[e] = "handler") <=> (pc[e] = "handler")
      BY <1>1, <2>1 DEF Continue, Abort
    <2> QED
      BY <2>1, <2>2 DEF Busy, Handling
  <1>6. ASSUME NEW d \in Drains, NEW j \in Jobs, Enter(d, j)
        PROVE  ~Handling(d) /\ Busy' = Busy \cup {d} /\ Count({"started"})
    <2>1. pc[d] = "loop" /\ pc' = [pc EXCEPT ![d] = "handler"] /\ Count({"started"})
      BY <1>6 DEF Enter, Take
    <2>2. \A e \in Drains : (pc'[e] = "handler") <=> (pc[e] = "handler" \/ e = d)
      BY <1>1, <2>1
    <2> QED
      BY <2>1, <2>2 DEF Busy, Handling
  <1>7. ASSUME NEW d \in Drains, Settle(d)
        PROVE  /\ Handling(d) /\ Busy' = Busy \ {d}
               /\ \/ Count({"succeeded", "okPoints"})
                  \/ Count({"failed", "failPoints"})
                  \/ BusThrows
    <2>1. Handling(d) /\ Left(d)
      BY <1>7, SettleStep DEF Settled
    <2>2. \A e \in Drains : (pc'[e] = "handler") <=> (pc[e] = "handler" /\ e # d)
      BY <2>1 DEF Left
    <2> QED
      BY <1>7, <2>1, <2>2
      DEF Busy, Handling, Settle, HandlerThrows, HandlerReturns, CompletedThrows
  <1>8. ASSUME NEW d \in Drains, NEW j \in Jobs, DispatchThrows(d, j) PROVE BusThrows
    BY <1>8 DEF DispatchThrows
  <1>9. CASE Tick
    BY <1>9 DEF Tick, Busy, Handling
  <1>10. CASE UNCHANGED vars
    BY <1>10 DEF vars, Busy, Handling
  <1> QED
    BY <1>3, <1>4, <1>5, <1>6, <1>7, <1>8, <1>9, <1>10 DEF Next, DrainStep, Dispatch

\* While no subscriber of the bus throws, the recorder's books balance: every
\* execution it started is in its handler or was closed once, with one point of
\* the same outcome in the metrics.
THEOREM BooksBalance ==
  ASSUME ~BusThrows
  PROVE  Spec => []RunsCountedOnce
  <1>1. Init => RunsCountedOnce
    <2> SUFFICES ASSUME Init PROVE RunsCountedOnce
      OBVIOUS
    <2>1. Busy = {}
      BY DEF Init, Busy, Handling
    <2>2. Cardinality(Busy) = 0
      BY <2>1, FS_EmptySet
    <2>3. \A n \in Totals : stats[n] = 0
      BY DEF Init
    <2> QED
      BY <2>2, <2>3 DEF RunsCountedOnce, Busy, Totals
  <1>2. TypeOK /\ DrainsConsistent /\ RunsCountedOnce /\ [Next]_vars => RunsCountedOnce'
    <2> SUFFICES ASSUME TypeOK, DrainsConsistent, RunsCountedOnce, [Next]_vars
                 PROVE  RunsCountedOnce'
      OBVIOUS
    <2> DEFINE inFlight == Cardinality(Busy)
    <2>1. \A n \in Totals : stats[n] \in Nat
      BY DEF TypeOK
    <2>2. /\ stats["started"] = stats["succeeded"] + stats["failed"] + Cardinality(Busy)
          /\ stats["okPoints"] = stats["succeeded"]
          /\ stats["failPoints"] = stats["failed"]
      BY DEF RunsCountedOnce, Busy
    <2>3. SUFFICES
            /\ stats'["started"] = stats'["succeeded"] + stats'["failed"] + Cardinality(Busy')
            /\ stats'["okPoints"] = stats'["succeeded"]
            /\ stats'["failPoints"] = stats'["failed"]
      BY DEF RunsCountedOnce, Busy
    <2>4. CASE UNCHANGED stats /\ Busy' = Busy
      BY <2>2, <2>4
    <2>5. ASSUME NEW d \in Drains, ~Handling(d), Busy' = Busy \cup {d}, Count({"started"})
          PROVE  /\ stats'["started"] = stats'["succeeded"] + stats'["failed"] + Cardinality(Busy')
                 /\ stats'["okPoints"] = stats'["succeeded"]
                 /\ stats'["failPoints"] = stats'["failed"]
      <3>1. Cardinality(Busy') = Cardinality(Busy) + 1 /\ Cardinality(Busy) \in Nat
        BY <2>5, BusyCount
      <3>2. \A n \in Totals : stats'[n] = IF n = "started" THEN stats[n] + 1 ELSE stats[n]
        BY <2>5, CountStep
      <3> QED
        BY <2>1, <2>2, <3>1, <3>2 DEF Totals
    <2>6. ASSUME NEW d \in Drains, Handling(d), Busy' = Busy \ {d},
                 \/ Count({"succeeded", "okPoints"})
                 \/ Count({"failed", "failPoints"})
          PROVE  /\ stats'["started"] = stats'["succeeded"] + stats'["failed"] + Cardinality(Busy')
                 /\ stats'["okPoints"] = stats'["succeeded"]
                 /\ stats'["failPoints"] = stats'["failed"]
      <3>1. Cardinality(Busy) = Cardinality(Busy') + 1 /\ Cardinality(Busy') \in Nat
        BY <2>6, BusyCount
      <3>2. CASE Count({"succeeded", "okPoints"})
        <4>1. \A n \in Totals : stats'[n] = IF n \in {"succeeded", "okPoints"}
                                            THEN stats[n] + 1 ELSE stats[n]
          BY <3>2, CountStep
        <4> QED
          BY <2>1, <2>2, <3>1, <4>1 DEF Totals
      <3>3. CASE Count({"failed", "failPoints"})
        <4>1. \A n \in Totals : stats'[n] = IF n \in {"failed", "failPoints"}
                                            THEN stats[n] + 1 ELSE stats[n]
          BY <3>3, CountStep
        <4> QED
          BY <2>1, <2>2, <3>1, <4>1 DEF Totals
      <3> QED
        BY <2>6, <3>2, <3>3
    <2> QED
      BY <2>4, <2>5, <2>6, BooksStep
  <1> QED
    BY <1>1, <1>2, TypeCorrect, PTL DEF Spec

-----------------------------------------------------------------------------
(* What a step may not do.                                                 *)

\* Success and death are final, and a cancelled job comes back only through a
\* run that was in progress when it was cancelled.
THEOREM RestIsFinal == Spec => FinalStates
  <1> DEFINE Rest(j) ==
        /\ jobs[j].state \in {"succeeded", "dead"} => jobs'[j] = jobs[j]
        /\ jobs[j].state = "cancelled" /\ jobs'[j].state # "cancelled" =>
              \E d \in Drains : Handling(d) /\ cur[d] = j /\ pc'[d] # "handler"
  <1>1. IInv /\ [Next]_vars => [\A j \in Jobs \ Named : Rest(j)]_vars
    <2> SUFFICES ASSUME IInv, [Next]_vars, NEW j \in Jobs \ Named PROVE Rest(j)
      OBVIOUS
    <2>0. TypeOK /\ DrainsConsistent /\ RunsInState
      BY DEF IInv
    <2>1. ASSUME NEW i \in Jobs, Schedule(i) \/ Cancel(i) PROVE Rest(j)
      <3>1. CASE Schedule(i)
        BY <2>0, <3>1 DEF Schedule, TypeOK, QueueTypeOK
      <3>2. CASE Cancel(i)
        BY <2>0, <3>2, RowType DEF Cancel, Cancelled, TypeOK, QueueTypeOK, MovedTo
      <3> QED
        BY <2>1, <3>1, <3>2
    <2>2. ASSUME NEW d \in Drains, Begin(d) \/ End(d) PROVE Rest(j)
      BY <2>2 DEF Begin, End
    <2>3. ASSUME NEW d \in Drains, NEW i \in Jobs, Misses(d, i) PROVE Rest(j)
      BY <2>0, <2>3, MissStep DEF Missed, Take, IsNext, Runnable
    <2>4. ASSUME NEW d \in Drains, NEW i \in Jobs, StartThrows(d, i) \/ Enter(d, i)
          PROVE  Rest(j)
      BY <2>0, <2>4, StartStep DEF Begun, Take, IsNext, Runnable
    <2>5. ASSUME NEW d \in Drains, Settle(d) PROVE Rest(j)
      BY <2>0, <2>5, SettleStep DEF Settled, Left, RunsInState
    <2>6. CASE Tick \/ UNCHANGED vars
      BY <2>6 DEF Tick, vars
    <2> QED
      BY <2>1, <2>2, <2>3, <2>4, <2>5, <2>6 DEF Next, DrainStep, Dispatch, Misses
  <1>2. IInv /\ [Next]_vars =>
          [\A j \in Jobs \ Named :
             /\ jobs[j].state \in {"succeeded", "dead"} => jobs'[j] = jobs[j]
             /\ jobs[j].state = "cancelled" /\ jobs'[j].state # "cancelled" =>
                   \E d \in Drains : Handling(d) /\ cur[d] = j /\ pc'[d] # "handler"]_vars
    BY <1>1
  <1> QED
    BY <1>2, Invariance, PTL DEF Spec, FinalStates

-----------------------------------------------------------------------------
(* The core keeps the promise of JobService.                               *)

absStatus == [j \in Jobs |-> jobs[j].state]
absTries == [j \in Jobs |-> jobs[j].attempts]
absInflight == {cur[d] : d \in {e \in Drains : Handling(e)}}

\* Initial states map to initial states of JobService.
LEMMA PromiseInit == Init => Promise!Init
  BY DEF Init, QueueInit, NoRow, Handling, Promise!Init

\* Every step maps to a step of JobService or to a stutter.
LEMMA PromiseStep ==
  ASSUME Named = {}, Unclonable = {}, IInv, IInv', [Next]_vars
  PROVE  [Promise!Next]_(Promise!vars)
  <1>0. /\ TypeOK /\ DrainsConsistent /\ RunsInState /\ SingleRun /\ RetryBudget
        /\ jobs \in [Jobs -> Row]
        /\ jobs' \in [Jobs -> Row]
        /\ \A j \in Jobs : jobs[j].attempts \in Nat
        /\ \A d \in Drains : Handling(d) => cur[d] \in Jobs
        /\ pc \in [Drains -> {"idle", "loop", "handler"}]
        /\ cur \in [Drains -> Jobs \cup {NoJob}]
    BY DEF IInv, TypeOK, QueueTypeOK, Row, DrainsConsistent
  <1>1. ASSUME NEW j \in Jobs, Schedule(j) \/ Cancel(j)
        PROVE  [Promise!Next]_(Promise!vars)
    <2>1. Called(j)
      BY <1>0, <1>1, ClientStep
    <2>2. absInflight' = absInflight
      BY <2>1 DEF Called, absInflight, Handling
    <2>3. absTries' = absTries
      BY <1>0, <2>1 DEF Called, absTries, RetryBudget
    <2>4. absStatus' = [absStatus EXCEPT ![j] = jobs'[j].state]
      BY <1>0, <2>1 DEF Called, absStatus
    <2>5. \/ absStatus[j] = "absent" /\ absStatus' = [absStatus EXCEPT ![j] = "queued"]
          \/ /\ absStatus[j] \notin {"absent", "succeeded", "dead"}
             /\ absStatus' = [absStatus EXCEPT ![j] = "cancelled"]
          \/ absStatus' = absStatus
      BY <1>0, <2>1, <2>4 DEF Called, absStatus
    <2>6. CASE absStatus' = absStatus
      BY <2>2, <2>3, <2>6 DEF absInflight, absTries, absStatus, Promise!vars
    <2>7. CASE absStatus[j] = "absent" /\ absStatus' = [absStatus EXCEPT ![j] = "queued"]
      <3>1. Promise!Submit(j)
        BY <2>2, <2>3, <2>7 DEF absInflight, absTries, absStatus, Promise!Submit
      <3> QED
        BY <3>1 DEF Promise!Next
    <2>8. CASE /\ absStatus[j] \notin {"absent", "succeeded", "dead"}
               /\ absStatus' = [absStatus EXCEPT ![j] = "cancelled"]
      <3>1. Promise!Withdraw(j)
        BY <2>2, <2>3, <2>8 DEF absInflight, absTries, absStatus, Promise!Withdraw
      <3> QED
        BY <3>1 DEF Promise!Next
    <2> QED
      BY <2>5, <2>6, <2>7, <2>8
  <1>2. ASSUME NEW d \in Drains, NEW j \in Jobs, Misses(d, j)
        PROVE  [Promise!Next]_(Promise!vars)
    <2>1. Missed(d, j) /\ pc[d] # "handler"
      BY <1>0, <1>2, MissStep DEF Missed, Take
    <2>2. absInflight' = absInflight
      BY <1>0, <2>1 DEF Missed, Left, absInflight, Handling
    <2>3. absTries' = [absTries EXCEPT ![j] = @ + 1]
      BY <1>0, <2>1 DEF Missed, absTries
    <2>4. absStatus' = [absStatus EXCEPT ![j] = jobs'[j].state]
      BY <1>0, <2>1 DEF Missed, absStatus
    <2>5. absStatus[j] = "queued" /\ \A k \in DependsOn[j] : absStatus[k] = "succeeded"
      BY <1>0, <2>1, QueueAssumption DEF Missed, Take, IsNext, Runnable, DepsMet, absStatus
    <2>6. /\ absTries'[j] = jobs'[j].attempts
          /\ jobs'[j].attempts \in Nat
      BY <1>0 DEF absTries, Row
    <2>7. IF absTries'[j] >= MaxAttempts[j]
          THEN jobs'[j].state = "dead"
          ELSE jobs'[j].state = "queued" \/ jobs'[j].state = "failed"
      BY <2>1, <2>6 DEF Missed
    <2>8. \E s \in {IF absTries'[j] >= MaxAttempts[j] THEN "dead" ELSE "queued", "failed"} :
             /\ s = "failed" => absTries'[j] < MaxAttempts[j]
             /\ absStatus' = [absStatus EXCEPT ![j] = s]
      <3>1. absTries'[j] \in Nat /\ MaxAttempts[j] \in Nat
        BY <2>6, QueueAssumption
      <3>2. CASE absTries'[j] >= MaxAttempts[j]
        BY <2>4, <2>7, <3>2
      <3>3. CASE ~(absTries'[j] >= MaxAttempts[j]) /\ jobs'[j].state = "queued"
        BY <2>4, <3>3
      <3>4. CASE ~(absTries'[j] >= MaxAttempts[j]) /\ jobs'[j].state = "failed"
        BY <2>4, <3>1, <3>4
      <3> QED
        BY <2>7, <3>2, <3>3, <3>4
    <2>9. Promise!Miss(j)
      BY <2>2, <2>3, <2>5, <2>8
      DEF absInflight, absTries, absStatus, Promise!Miss, Promise!Ready, Promise!NextInLine
    <2> QED
      BY <2>9 DEF Promise!Next
  <1>3. ASSUME NEW d \in Drains, NEW j \in Jobs, StartThrows(d, j) \/ Enter(d, j)
        PROVE  [Promise!Next]_(Promise!vars)
    <2>1. Begun(d, j) /\ Enter(d, j)
      BY <1>0, <1>3, StartStep DEF StartThrows
    <2>2. absInflight' = absInflight \cup {j}
      <3>1. /\ pc[d] # "handler" /\ pc'[d] = "handler" /\ cur'[d] = j
            /\ \A e \in Drains \ {d} : pc'[e] = pc[e] /\ cur'[e] = cur[e]
        BY <1>0, <2>1 DEF Enter, Take
      <3> QED
        BY <3>1 DEF absInflight, Handling
    <2>3. absTries' = [absTries EXCEPT ![j] = @ + 1]
      BY <1>0, <2>1 DEF Begun, absTries
    <2>4. absStatus' = [absStatus EXCEPT ![j] = "running"]
      BY <1>0, <2>1 DEF Begun, absStatus
    <2>5. absStatus[j] = "queued" /\ \A k \in DependsOn[j] : absStatus[k] = "succeeded"
      BY <1>0, <2>1, QueueAssumption DEF Begun, Take, IsNext, Runnable, DepsMet, absStatus
    <2>6. Promise!Start(j)
      BY <2>2, <2>3, <2>4, <2>5
      DEF absInflight, absTries, absStatus, Promise!Start, Promise!Ready
    <2> QED
      BY <2>6 DEF Promise!Next
  <1>4. ASSUME NEW d \in Drains, Settle(d)
        PROVE  [Promise!Next]_(Promise!vars)
    <2>1. Settled(d)
      BY <1>0, <1>4, SettleStep
    <2>2. cur[d] \in absInflight /\ absInflight' = absInflight \ {cur[d]}
      BY <1>0, <2>1 DEF Settled, Left, SingleRun, absInflight, Handling
    <2>3. absTries' = absTries
      BY <1>0, <2>1 DEF Settled, absTries
    <2>4. absStatus' = [absStatus EXCEPT ![cur[d]] = jobs'[cur[d]].state]
      BY <1>0, <2>1 DEF Settled, absStatus
    <2>5. absTries[cur[d]] = jobs[cur[d]].attempts
      BY <2>1 DEF Settled, absTries
    <2>6. \E s \in {"succeeded",
                    IF absTries[cur[d]] >= MaxAttempts[cur[d]] THEN "dead" ELSE "queued"} :
             absStatus' = [absStatus EXCEPT ![cur[d]] = s]
      BY <2>1, <2>4, <2>5 DEF Settled
    <2>7. PICK j \in Jobs : j = cur[d]
      BY <2>1 DEF Settled
    <2>8. /\ j \in absInflight /\ absInflight' = absInflight \ {j}
          /\ \E s \in {"succeeded", IF absTries[j] >= MaxAttempts[j] THEN "dead" ELSE "queued"} :
                absStatus' = [absStatus EXCEPT ![j] = s]
      BY <2>2, <2>6, <2>7
    <2>9. Promise!Settle(j)
      BY <2>3, <2>8
      DEF absInflight, absTries, absStatus, Promise!Settle, Promise!NextInLine
    <2> QED
      BY <2>9 DEF Promise!Next
  <1>5. ASSUME NEW d \in Drains, Begin(d) \/ End(d)
        PROVE  [Promise!Next]_(Promise!vars)
    <2>1. jobs' = jobs /\ cur' = cur /\ \A e \in Drains : Handling(e)' <=> Handling(e)
      BY <1>0, <1>5 DEF Begin, End, Handling
    <2>2. absInflight' = absInflight /\ absTries' = absTries /\ absStatus' = absStatus
      BY <2>1 DEF absInflight, absTries, absStatus
    <2> QED
      BY <2>2 DEF absInflight, absTries, absStatus, Promise!vars
  <1>6. CASE Tick \/ UNCHANGED vars
    <2>1. jobs' = jobs /\ cur' = cur /\ pc' = pc
      BY <1>6 DEF Tick, vars
    <2>2. absInflight' = absInflight /\ absTries' = absTries /\ absStatus' = absStatus
      BY <2>1 DEF absInflight, absTries, absStatus, Handling
    <2> QED
      BY <2>2 DEF absInflight, absTries, absStatus, Promise!vars
  <1> QED
    BY <1>1, <1>2, <1>3, <1>4, <1>5, <1>6 DEF Next, DrainStep, Dispatch, Misses

\* For callers that leave the ids to the queue and whose payloads can be cloned,
\* the drains, locks and retries of the core implement JobService.
THEOREM ImplementsPromise ==
  ASSUME Named = {}, Unclonable = {}
  PROVE  Spec => KeepsPromise
  <1>1. IInv /\ IInv' /\ [Next]_vars => [Promise!Next]_(Promise!vars)
    BY PromiseStep
  <1> QED
    BY <1>1, PromiseInit, Invariance, PTL DEF Spec, KeepsPromise, Promise!Spec

=============================================================================
