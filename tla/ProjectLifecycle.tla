-------------------------- MODULE ProjectLifecycle --------------------------
(***************************************************************************)
(* The governance core of the runtime: the project state machine           *)
(* (runtime/src/state-machine/machine.js) with the components that drive   *)
(* and watch it.  The execution engine (orchestration/execution-engine.js) *)
(* runs the tasks of a project's stage, has the validation runtime score   *)
(* each artifact, and reports the outcome as a gate; the policy engine     *)
(* (policy/engine.js), subscribed to the event bus (events/bus.js), blocks *)
(* deployment after a failed security gate.                                *)
(*                                                                         *)
(* All of it is synchronous: a call runs to its end before another begins, *)
(* but it can end in an exception at several places, and what it did until *)
(* then remains.  An action is one such call with one of its endings.      *)
(***************************************************************************)
EXTENDS Naturals, Sequences, FiniteSets

CONSTANTS
    Projects,
    Stages,        \* the stages in their order; the code's list has 16
    NoStage,       \* stage of a project not created yet
    Tasks,         \* number of tasks in the workflow of a stage
    TaskGate,      \* score a task of the stage needs (workflow.gateThreshold)
    StageGate,     \* score the stage's gate needs (machine.gateThresholds)
    Scores,        \* the scores that rubrics give
    MaxEvents,     \* bound on the length of the event log
    MaxArtifacts   \* bound on the artifacts of a project's stage

StageSet == {Stages[i] : i \in DOMAIN Stages}
Last == Stages[Len(Stages)]

ASSUME LifecycleAssumption ==
    /\ Stages \in Seq(StageSet)
    /\ Len(Stages) > 1
    /\ \A i, k \in DOMAIN Stages : Stages[i] = Stages[k] => i = k
    /\ NoStage \notin StageSet
    /\ Last = "closed"
    /\ Tasks \in [StageSet \ {Last} -> Nat]
    /\ TaskGate \in [StageSet \ {Last} -> Nat]
    /\ StageGate \in [StageSet \ {Last} -> Nat]
    /\ Scores \subseteq Nat
    /\ MaxEvents \in Nat
    /\ MaxArtifacts \in Nat

VARIABLES
    stage,      \* where a project is
    escalated,  \* whether its condition is "escalated" rather than "active"
    failures,   \* failures[p][s], the counter the state machine keeps
    blocked,    \* whether the policy engine blocks the project's deployment
    log,        \* the event log: the lifecycle events, without their payloads
    artifacts   \* the registry: how many artifacts the tasks of a project's stage
                \* have written, by the state they are in

vars == <<stage, escalated, failures, blocked, log, artifacts>>

EventType ==
    {"project.created", "gate.passed", "gate.failed", "state.loopback",
     "task.escalated", "state.transitioned", "governance.policy_triggered",
     "gate.exception_granted", "learning.report_ready", "knowledge.entry_merged"}

Event == [type : EventType, project : Projects, stage : StageSet \cup {NoStage}]

ArtifactState == {"draft", "failed", "approved"}

TypeOK ==
    /\ stage \in [Projects -> StageSet \cup {NoStage}]
    /\ escalated \in [Projects -> BOOLEAN]
    /\ failures \in [Projects -> [StageSet -> Nat]]
    /\ blocked \in [Projects -> BOOLEAN]
    /\ log \in Seq(Event)
    /\ artifacts \in [Projects -> [StageSet -> [ArtifactState -> Nat]]]

Init ==
    /\ stage = [p \in Projects |-> NoStage]
    /\ escalated = [p \in Projects |-> FALSE]
    /\ failures = [p \in Projects |-> [s \in StageSet |-> 0]]
    /\ blocked = [p \in Projects |-> FALSE]
    /\ log = <<>>
    /\ artifacts = [p \in Projects |->
                       [s \in StageSet |-> [t \in ArtifactState |-> 0]]]

-----------------------------------------------------------------------------
(* The event bus.                                                          *)

Ev(type, p, s) == [type |-> type, project |-> p, stage |-> s]

Emit(events) ==
    /\ Len(log) + Len(events) <= MaxEvents
    /\ log' = log \o events

Happened(type, p) ==
    \E i \in DOMAIN log : log[i].type = type /\ log[i].project = p

\* #assertLearningMerged() replays the log for the two events.
Learned(p) ==
    Happened("knowledge.entry_merged", p) /\ Happened("learning.report_ready", p)

-----------------------------------------------------------------------------
(* The validation runtime and the tasks of a stage.                        *)

\* A report can fail an artifact whatever its score: a step without a rubric, a
\* critical security finding.
Results(s) ==
    {r \in [1 .. Tasks[s] -> [passed : BOOLEAN, score : Scores]] :
        \A i \in 1 .. Tasks[s] : r[i].passed => r[i].score >= TaskGate[s]}

\* Mutant: one task that passed is enough.
SomePassed(results) == \E i \in DOMAIN results : results[i].passed

AllPassed(results) == \A i \in DOMAIN results : results[i].passed

\* The stage's score is the least of the tasks' and Infinity without tasks, so
\* it reaches a bound if every task's does.
Reaches(results, bound) == \A i \in DOMAIN results : results[i].score >= bound

\* Where put, attachValidation and approve leave the artifact of a task.
StateOf(result) == IF result.passed THEN "approved" ELSE "failed"

\* The first n tasks write their artifacts, and drafts more are left unvalidated.
Write(p, results, n, drafts) ==
    LET here == artifacts[p][stage[p]]
        now == [t \in ArtifactState |->
                   here[t] + Cardinality({i \in 1 .. n : StateOf(results[i]) = t})
                           + IF t = "draft" THEN drafts ELSE 0]
    IN  /\ now["draft"] + now["failed"] + now["approved"] <= MaxArtifacts
        /\ artifacts' = [artifacts EXCEPT ![p][stage[p]] = now]

\* All the tasks of the stage are run to their end.
RunTasks(p, results) == Write(p, results, Tasks[stage[p]], 0)

\* Mutant: runStage() does not ask the policy engine.
StartsUnasked(p) == stage[p] \in DOMAIN Tasks

\* runStage() goes on to the tasks: there is a workflow and no policy forbids it.
Starts(p) ==
    /\ stage[p] \in DOMAIN Tasks
    /\ stage[p] = "deployment" => ~blocked[p]

-----------------------------------------------------------------------------
(* The calls.                                                              *)

CreateProject(p) ==
    /\ stage[p] = NoStage
    /\ stage' = [stage EXCEPT ![p] = Stages[1]]
    /\ Emit(<<Ev("project.created", p, Stages[1])>>)
    /\ UNCHANGED <<escalated, failures, blocked, artifacts>>

NextStage(s) == Stages[(CHOOSE i \in DOMAIN Stages : Stages[i] = s) + 1]

MayEnter(p, s) == s = Last => Learned(p)

\* Mutant: gatePassed() enters the last stage without asking for the report, as it
\* did before finding F-1 of EDR-003.
AdvanceUnlearned(p) ==
    /\ Starts(p)
    /\ ~escalated[p]
    /\ \E results \in Results(stage[p]) :
          /\ AllPassed(results)
          /\ Reaches(results, StageGate[stage[p]])
          /\ RunTasks(p, results)
    /\ failures' = [failures EXCEPT ![p][stage[p]] = 0]
    /\ stage' = [stage EXCEPT ![p] = NextStage(@)]
    /\ Emit(<<Ev("gate.passed", p, stage[p]),
              Ev("state.transitioned", p, NextStage(stage[p]))>>)
    /\ UNCHANGED <<escalated, blocked>>

\* runStage(): every task passed and gatePassed() accepts.
Advance(p) ==
    /\ Starts(p)
    /\ ~escalated[p]
    /\ MayEnter(p, NextStage(stage[p]))
    /\ \E results \in Results(stage[p]) :
          /\ AllPassed(results)
          /\ Reaches(results, StageGate[stage[p]])
          /\ RunTasks(p, results)
    /\ failures' = [failures EXCEPT ![p][stage[p]] = 0]
    /\ stage' = [stage EXCEPT ![p] = NextStage(@)]
    /\ Emit(<<Ev("gate.passed", p, stage[p]),
              Ev("state.transitioned", p, NextStage(stage[p]))>>)
    /\ UNCHANGED <<escalated, blocked>>

\* gatePassed() throws, the project being escalated or the score below what the
\* machine asks for the stage; the approved artifacts stay approved.
GateRefused(p) ==
    /\ Starts(p)
    /\ \E results \in Results(stage[p]) :
          /\ AllPassed(results)
          /\ escalated[p] \/ ~Reaches(results, StageGate[stage[p]])
          /\ RunTasks(p, results)
    /\ UNCHANGED <<stage, escalated, failures, blocked, log>>

\* gatePassed() throws for want of the learning report, but only after it has
\* reset the failures of the stage.
LearningMissing(p) ==
    /\ Starts(p)
    /\ ~escalated[p]
    /\ ~MayEnter(p, NextStage(stage[p]))
    /\ \E results \in Results(stage[p]) :
          /\ AllPassed(results)
          /\ Reaches(results, StageGate[stage[p]])
          /\ RunTasks(p, results)
    /\ failures' = [failures EXCEPT ![p][stage[p]] = 0]
    /\ UNCHANGED <<stage, escalated, blocked, log>>

\* The condition of securityDeploymentPolicy for a gate that failed.
Triggers(s, results) ==
    s = "security" \/ (s = "deployment" /\ ~Reaches(results, 95))

\* Mutant: the first failure escalates.
FailedOnce(p) == failures'[p][stage[p]] >= 1

FailedTwice(p) == failures'[p][stage[p]] >= 2

\* The policy engine hears of the failure before gateFailed() goes on.
FailEvents(p, triggered) ==
    LET failed == Ev("gate.failed", p, stage[p])
        policy == Ev("governance.policy_triggered", p, stage[p])
        outcome == Ev(IF FailedTwice(p) THEN "task.escalated" ELSE "state.loopback",
                      p, stage[p])
    IN  IF triggered THEN <<failed, policy, outcome>> ELSE <<failed, outcome>>

\* runStage(): some task failed.  gateFailed() asks nothing of the condition.
FailGate(p) ==
    /\ Starts(p)
    /\ failures' = [failures EXCEPT ![p][stage[p]] = @ + 1]
    /\ escalated' = [escalated EXCEPT ![p] = @ \/ FailedTwice(p)]
    /\ \E results \in Results(stage[p]) :
          /\ ~AllPassed(results)
          /\ RunTasks(p, results)
          /\ blocked' = [blocked EXCEPT ![p] = @ \/ Triggers(stage[p], results)]
          /\ Emit(FailEvents(p, Triggers(stage[p], results)))
    /\ UNCHANGED stage

\* A task throws: its bundle is rejected, its agent unknown, the registry refuses
\* its artifact, or (leaving a draft) a rubric throws.  Tasks done remain done.
AbortRun(p) ==
    /\ Starts(p)
    /\ \E results \in Results(stage[p]), drafts \in {0, 1} :
          \E n \in 0 .. Tasks[stage[p]] - 1 : Write(p, results, n, drafts)
    /\ UNCHANGED <<stage, escalated, failures, blocked, log>>

ResolveEscalation(p) ==
    /\ escalated[p]
    /\ escalated' = [escalated EXCEPT ![p] = FALSE]
    /\ Emit(<<Ev("state.transitioned", p, stage[p])>>)
    /\ UNCHANGED <<stage, failures, blocked, artifacts>>

\* Mutant: close() sets the stage itself instead of calling #transition().
CloseSilently(p) ==
    /\ stage[p] # NoStage
    /\ MayEnter(p, Last)
    /\ stage' = [stage EXCEPT ![p] = Last]
    /\ UNCHANGED <<escalated, failures, blocked, log, artifacts>>

\* Mutant: a commercial end that #transition() does not refuse as no known stage.
CloseTerminated(p) ==
    /\ stage[p] # NoStage
    /\ MayEnter(p, Last)
    /\ stage' = [stage EXCEPT ![p] = "terminated"]
    /\ Emit(<<Ev("state.transitioned", p, "terminated")>>)
    /\ UNCHANGED <<escalated, failures, blocked, artifacts>>

\* close(): from any stage and in any condition.
Close(p) ==
    /\ stage[p] # NoStage
    /\ MayEnter(p, Last)
    /\ stage' = [stage EXCEPT ![p] = Last]
    /\ Emit(<<Ev("state.transitioned", p, Last)>>)
    /\ UNCHANGED <<escalated, failures, blocked, artifacts>>

\* Mutant: unblock() leaves no trace.
UnblockUnaudited(p) ==
    /\ blocked[p]
    /\ blocked' = [blocked EXCEPT ![p] = FALSE]
    /\ UNCHANGED <<stage, escalated, failures, log, artifacts>>

Unblock(p) ==
    /\ blocked[p]
    /\ blocked' = [blocked EXCEPT ![p] = FALSE]
    /\ Emit(<<Ev("gate.exception_granted", p, NoStage)>>)
    /\ UNCHANGED <<stage, escalated, failures, artifacts>>

\* The learning engine, outside this code, emits each of its two events, in any
\* order; once is enough, for a repetition changes nothing that is read.
RecordLearning(p) ==
    /\ stage[p] # NoStage
    /\ \E type \in {"learning.report_ready", "knowledge.entry_merged"} :
          /\ ~Happened(type, p)
          /\ Emit(<<Ev(type, p, stage[p])>>)
    /\ UNCHANGED <<stage, escalated, failures, blocked, artifacts>>

RunStage(p) ==
    Advance(p) \/ GateRefused(p) \/ LearningMissing(p) \/ FailGate(p) \/ AbortRun(p)

Next ==
    \E p \in Projects :
        \/ CreateProject(p)
        \/ RunStage(p)
        \/ ResolveEscalation(p)
        \/ Close(p)
        \/ Unblock(p)
        \/ RecordLearning(p)

Spec == Init /\ [][Next]_vars

-----------------------------------------------------------------------------
(* What should hold.                                                       *)

Is(i, type, p, s) == log[i] = Ev(type, p, s)

Moves(i, p) ==
    log[i].project = p /\ log[i].type \in {"project.created", "state.transitioned"}

\* Where a project is can be read off the event log alone: the log is the audit
\* trail, and no call moves a project behind its back.
StageReplays ==
    \A p \in Projects :
        \/ stage[p] = NoStage /\ \A i \in DOMAIN log : ~Moves(i, p)
        \/ \E i \in DOMAIN log : /\ Moves(i, p)
                                 /\ log[i].stage = stage[p]
                                 /\ \A k \in i + 1 .. Len(log) : ~Moves(k, p)

\* A closed project has both learning events in the log, whether it was closed by
\* close() or by passing the last gate (SM-06).
ClosedMeansLearned ==
    \A p \in Projects : stage[p] = Last => Learned(p)

\* A gate is passed at most once, and only with an approved artifact for every
\* task of the stage, whatever runs of the stage failed or were aborted before.
GatesHaveEvidence ==
    \A i \in DOMAIN log : log[i].type = "gate.passed" =>
        /\ \A k \in DOMAIN log \ {i} : log[k] # log[i]
        /\ artifacts[log[i].project][log[i].stage]["approved"] >= Tasks[log[i].stage]

\* A project is escalated only after two failures of the gate it is still at.
EscalationEarned ==
    \A p \in Projects :
        escalated[p] /\ stage[p] # Last =>
            \E i, k \in DOMAIN log :
                i < k /\ Is(i, "gate.failed", p, stage[p])
                      /\ Is(k, "gate.failed", p, stage[p])

\* Deployment is blocked exactly if the policy was triggered and no exception has
\* been granted since: nothing else in the log lifts or sets the block.
BlockAudited ==
    \A p \in Projects :
        blocked[p] <=>
            \E i \in DOMAIN log :
                /\ log[i].type = "governance.policy_triggered"
                /\ log[i].project = p
                /\ \A k \in i + 1 .. Len(log) :
                      ~Is(k, "gate.exception_granted", p, NoStage)

\* What a step appends to the log.
Appended == {log'[i] : i \in Len(log) + 1 .. Len(log')}

\* An escalated project passes no gate, and no project passes the deployment gate
\* while a policy blocks it: runStage() asks the one before the tasks, the state
\* machine the other after them.
GatesGuarded ==
    [][\A e \in Appended : e.type = "gate.passed" =>
          /\ ~escalated[e.project]
          /\ e.stage = "deployment" => ~blocked[e.project]]_vars

\* Two consecutive failures of a gate escalate (SM-02; machine.js:4).
TwoFailuresEscalate ==
    \A i, k \in DOMAIN log :
        /\ i < k
        /\ log[i] = log[k]
        /\ log[i].type = "gate.failed"
        => \E n \in k + 1 .. Len(log) :
              Is(n, "task.escalated", log[i].project, log[i].stage)

\* An escalated project accepts no new building tasks (INV-4); those of the
\* deployment stage write its pipeline.
EscalatedIdle ==
    [][\A p \in Projects :
          escalated[p] /\ stage[p] = "deployment" => artifacts'[p] = artifacts[p]]_vars

=============================================================================
