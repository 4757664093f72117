-------------------------- MODULE LifecycleProofs --------------------------
(***************************************************************************)
(* Proofs about the governance core, for any number of projects, any list  *)
(* of stages that ends in "closed", any workflows and any gates.  The last *)
(* part is about its event log, an audit trail: the stage of every         *)
(* project, the block on its deployment and the evidence of every gate it  *)
(* passed can be read off it, however many calls end in exceptions.        *)
(***************************************************************************)
EXTENDS ProjectLifecycle, FiniteSetTheorems, TLAPS

-----------------------------------------------------------------------------
(* Stages, the registry and the log.                                       *)

\* A stage that has a workflow is not the last, and has a next one.
LEMMA NextStageType ==
  ASSUME NEW s \in DOMAIN Tasks
  PROVE  /\ s \in StageSet /\ s # Last
         /\ NextStage(s) \in StageSet
  <1>1. s \in StageSet /\ s # Last
    BY LifecycleAssumption
  <1>2. Len(Stages) \in Nat /\ DOMAIN Stages = 1 .. Len(Stages)
    BY LifecycleAssumption
  <1>3. PICK k \in DOMAIN Stages : Stages[k] = s
    BY <1>1 DEF StageSet
  <1> DEFINE i == CHOOSE n \in DOMAIN Stages : Stages[n] = s
  <1>4. i \in DOMAIN Stages /\ Stages[i] = s
    BY <1>3
  <1>5. i # Len(Stages)
    BY <1>1, <1>4 DEF Last
  <1>6. i + 1 \in DOMAIN Stages
    BY <1>2, <1>4, <1>5
  <1>7. Stages[i + 1] \in StageSet
    BY <1>6 DEF StageSet
  <1> QED
    BY <1>1, <1>7 DEF NextStage

\* emit() adds to the end of the log and changes nothing in it.
LEMMA EmitStep ==
  ASSUME log \in Seq(Event), NEW es \in Seq(Event), Emit(es)
  PROVE  /\ log' \in Seq(Event)
         /\ Len(log') = Len(log) + Len(es)
         /\ \A i \in 1 .. Len(log) : log'[i] = log[i]
         /\ \A i \in 1 .. Len(es) : log'[Len(log) + i] = es[i]
  BY DEF Emit

\* Counting the outcomes of the first tasks gives a number.
LEMMA CountType ==
  ASSUME NEW results, NEW n \in Nat, NEW t
  PROVE  Cardinality({i \in 1 .. n : StateOf(results[i]) = t}) \in Nat
  <1>1. IsFiniteSet(1 .. n)
    BY FS_Interval
  <1>2. IsFiniteSet({i \in 1 .. n : StateOf(results[i]) = t})
    BY <1>1, FS_Subset
  <1> QED
    BY <1>2, FS_CardinalityType

\* Writing artifacts leaves counts in the registry.
LEMMA WriteType ==
  ASSUME TypeOK, NEW p \in Projects, NEW results, NEW n \in Nat, NEW drafts \in Nat,
         stage[p] \in StageSet, Write(p, results, n, drafts)
  PROVE  artifacts' \in [Projects -> [StageSet -> [ArtifactState -> Nat]]]
  <1> DEFINE here == artifacts[p][stage[p]]
             now == [t \in ArtifactState |->
                       here[t] + Cardinality({i \in 1 .. n : StateOf(results[i]) = t})
                               + IF t = "draft" THEN drafts ELSE 0]
  <1>1. here \in [ArtifactState -> Nat]
    BY DEF TypeOK
  <1>2. now \in [ArtifactState -> Nat]
    <2> SUFFICES ASSUME NEW t \in ArtifactState
                 PROVE  here[t] + Cardinality({i \in 1 .. n : StateOf(results[i]) = t})
                               + (IF t = "draft" THEN drafts ELSE 0) \in Nat
      OBVIOUS
    <2> DEFINE h == here[t]
               c == Cardinality({i \in 1 .. n : StateOf(results[i]) = t})
    <2>1. h \in Nat
      BY <1>1
    <2>2. c \in Nat
      BY CountType
    <2> HIDE DEF h, c
    <2>3. h + c + (IF t = "draft" THEN drafts ELSE 0) \in Nat
      BY <2>1, <2>2
    <2> QED
      BY <2>3 DEF h, c
  <1>3. artifacts' = [artifacts EXCEPT ![p][stage[p]] = now]
    BY DEF Write
  <1> HIDE DEF now
  <1>4. [artifacts[p] EXCEPT ![stage[p]] = now] \in [StageSet -> [ArtifactState -> Nat]]
    BY <1>2 DEF TypeOK
  <1>5. artifacts' = [artifacts EXCEPT ![p] = [artifacts[p] EXCEPT ![stage[p]] = now]]
    BY <1>3
  <1> QED
    BY <1>4, <1>5 DEF TypeOK

-----------------------------------------------------------------------------
(* The type invariant.                                                     *)

\* What a run of a stage writes, however it ends.
LEMMA RunWrites ==
  ASSUME TypeOK, NEW p \in Projects, RunStage(p)
  PROVE  /\ artifacts' \in [Projects -> [StageSet -> [ArtifactState -> Nat]]]
         /\ stage[p] \in StageSet /\ stage[p] # Last /\ NextStage(stage[p]) \in StageSet
  <1>1. Starts(p)
    BY DEF RunStage, Advance, GateRefused, LearningMissing, FailGate, AbortRun
  <1>2. /\ stage[p] \in StageSet /\ stage[p] # Last
        /\ NextStage(stage[p]) \in StageSet
        /\ Tasks[stage[p]] \in Nat
    BY <1>1, NextStageType, LifecycleAssumption DEF Starts
  <1>3. ASSUME NEW results, NEW n \in Nat, NEW drafts \in Nat,
               Write(p, results, n, drafts)
        PROVE  artifacts' \in [Projects -> [StageSet -> [ArtifactState -> Nat]]]
    BY <1>2, <1>3, WriteType
  <1>4. ASSUME NEW results, RunTasks(p, results)
        PROVE  artifacts' \in [Projects -> [StageSet -> [ArtifactState -> Nat]]]
    BY <1>2, <1>3, <1>4 DEF RunTasks
  <1>5. ASSUME AbortRun(p)
        PROVE  artifacts' \in [Projects -> [StageSet -> [ArtifactState -> Nat]]]
    <2>1. PICK results \in Results(stage[p]), drafts \in {0, 1} :
             \E n \in 0 .. Tasks[stage[p]] - 1 : Write(p, results, n, drafts)
      BY <1>5 DEF AbortRun
    <2>2. PICK n \in 0 .. Tasks[stage[p]] - 1 : Write(p, results, n, drafts)
      BY <2>1
    <2>3. n \in Nat /\ drafts \in Nat
      BY <1>2
    <2> QED
      BY <1>3, <2>2, <2>3
  <1> QED
    BY <1>2, <1>4, <1>5 DEF RunStage, Advance, GateRefused, LearningMissing, FailGate

\* The log grows by one, two or three events.
Adds1(e) ==
    /\ log' \in Seq(Event)
    /\ Len(log) \in Nat
    /\ Len(log') = Len(log) + 1
    /\ \A i \in 1 .. Len(log) : log'[i] = log[i]
    /\ log'[Len(log) + 1] = e

Adds2(e, f) ==
    /\ log' \in Seq(Event)
    /\ Len(log) \in Nat
    /\ Len(log') = Len(log) + 2
    /\ \A i \in 1 .. Len(log) : log'[i] = log[i]
    /\ log'[Len(log) + 1] = e
    /\ log'[Len(log) + 2] = f

Adds3(e, f, g) ==
    /\ log' \in Seq(Event)
    /\ Len(log) \in Nat
    /\ Len(log') = Len(log) + 3
    /\ \A i \in 1 .. Len(log) : log'[i] = log[i]
    /\ log'[Len(log) + 1] = e
    /\ log'[Len(log) + 2] = f
    /\ log'[Len(log) + 3] = g

\* emit() of one, two or three events does so.
LEMMA EmitShort ==
  ASSUME log \in Seq(Event), NEW es \in Seq(Event), Emit(es)
  PROVE  /\ Len(es) = 1 => Adds1(es[1])
         /\ Len(es) = 2 => Adds2(es[1], es[2])
         /\ Len(es) = 3 => Adds3(es[1], es[2], es[3])
  <1>1. /\ log' \in Seq(Event)
        /\ Len(log) \in Nat
        /\ Len(log') = Len(log) + Len(es)
        /\ \A i \in 1 .. Len(log) : log'[i] = log[i]
        /\ \A i \in 1 .. Len(es) : log'[Len(log) + i] = es[i]
    BY EmitStep
  <1> DEFINE put(i) == i \in 1 .. Len(es) => log'[Len(log) + i] = es[i]
  <1>2. \A i : put(i)
    BY <1>1
  <1> HIDE DEF put
  <1>3. put(1) /\ put(2) /\ put(3)
    BY <1>2
  <1>4. CASE Len(es) = 1
    <2>1. log'[Len(log) + 1] = es[1]
      BY <1>3, <1>4 DEF put
    <2> QED
      BY <1>1, <1>4, <2>1 DEF Adds1
  <1>5. CASE Len(es) = 2
    <2>1. log'[Len(log) + 1] = es[1] /\ log'[Len(log) + 2] = es[2]
      BY <1>3, <1>5 DEF put
    <2> QED
      BY <1>1, <1>5, <2>1 DEF Adds2
  <1>6. CASE Len(es) = 3
    <2>1. /\ log'[Len(log) + 1] = es[1]
          /\ log'[Len(log) + 2] = es[2]
          /\ log'[Len(log) + 3] = es[3]
      BY <1>3, <1>6 DEF put
    <2> QED
      BY <1>1, <1>6, <2>1 DEF Adds3
  <1> QED
    BY <1>4, <1>5, <1>6

\* The same of the events written out.
LEMMA EmitAdds ==
  ASSUME log \in Seq(Event), NEW e \in Event, NEW f \in Event, NEW g \in Event
  PROVE  /\ Emit(<<e>>) => Adds1(e)
         /\ Emit(<<e, f>>) => Adds2(e, f)
         /\ Emit(<<e, f, g>>) => Adds3(e, f, g)
  <1>1. /\ <<e>> \in Seq(Event) /\ Len(<<e>>) = 1 /\ <<e>>[1] = e
        /\ <<e, f>> \in Seq(Event) /\ Len(<<e, f>>) = 2
        /\ <<e, f>>[1] = e /\ <<e, f>>[2] = f
        /\ <<e, f, g>> \in Seq(Event) /\ Len(<<e, f, g>>) = 3
        /\ <<e, f, g>>[1] = e /\ <<e, f, g>>[2] = f /\ <<e, f, g>>[3] = g
    OBVIOUS
  <1>2. ASSUME NEW es \in Seq(Event), Emit(es)
        PROVE  /\ Len(es) = 1 => Adds1(es[1])
               /\ Len(es) = 2 => Adds2(es[1], es[2])
               /\ Len(es) = 3 => Adds3(es[1], es[2], es[3])
    BY <1>2, EmitShort
  <1>3. Emit(<<e>>) => Adds1(<<e>>[1])
    BY <1>1, <1>2
  <1>4. Emit(<<e, f>>) => Adds2(<<e, f>>[1], <<e, f>>[2])
    BY <1>1, <1>2
  <1>5. Emit(<<e, f, g>>) => Adds3(<<e, f, g>>[1], <<e, f, g>>[2], <<e, f, g>>[3])
    BY <1>1, <1>2
  <1> QED
    BY <1>1, <1>3, <1>4, <1>5

\* The events of every call are events.
LEMMA EvType ==
  ASSUME NEW type \in EventType, NEW p \in Projects, NEW s \in StageSet \cup {NoStage}
  PROVE  /\ Ev(type, p, s) \in Event
         /\ Ev(type, p, s).type = type
         /\ Ev(type, p, s).project = p
         /\ Ev(type, p, s).stage = s
  BY DEF Ev, Event

\* What a failed gate appends.
LEMMA FailAdds ==
  ASSUME TypeOK, NEW p \in Projects, FailGate(p)
  PROVE  LET failed == Ev("gate.failed", p, stage[p])
             policy == Ev("governance.policy_triggered", p, stage[p])
             outcome == Ev(IF FailedTwice(p) THEN "task.escalated" ELSE "state.loopback",
                           p, stage[p])
         IN  \/ Adds2(failed, outcome) /\ blocked' = blocked
             \/ /\ Adds3(failed, policy, outcome)
                /\ blocked' = [blocked EXCEPT ![p] = TRUE]
  <1> DEFINE failed == Ev("gate.failed", p, stage[p])
             policy == Ev("governance.policy_triggered", p, stage[p])
             outcome == Ev(IF FailedTwice(p) THEN "task.escalated" ELSE "state.loopback",
                           p, stage[p])
  <1>1. stage[p] \in StageSet
    BY RunWrites DEF RunStage
  <1>2. failed \in Event /\ policy \in Event /\ outcome \in Event
    BY <1>1, EvType DEF EventType
  <1>3. PICK results \in Results(stage[p]) :
          /\ blocked' = [blocked EXCEPT ![p] = @ \/ Triggers(stage[p], results)]
          /\ Emit(FailEvents(p, Triggers(stage[p], results)))
    BY DEF FailGate
  <1>4. CASE Triggers(stage[p], results)
    <2>1. Emit(<<failed, policy, outcome>>)
      BY <1>3, <1>4 DEF FailEvents
    <2>2. Adds3(failed, policy, outcome)
      BY <1>2, <2>1, EmitAdds DEF TypeOK
    <2>3. blocked' = [blocked EXCEPT ![p] = TRUE]
      BY <1>3, <1>4 DEF TypeOK
    <2> QED
      BY <2>2, <2>3
  <1>5. CASE ~Triggers(stage[p], results)
    <2>1. Emit(<<failed, outcome>>)
      BY <1>3, <1>5 DEF FailEvents
    <2>2. Adds2(failed, outcome)
      BY <1>2, <2>1, EmitAdds DEF TypeOK
    <2>3. blocked' = blocked
      BY <1>3, <1>5 DEF TypeOK
    <2> QED
      BY <2>2, <2>3
  <1> QED
    BY <1>4, <1>5

-----------------------------------------------------------------------------
(* The effect of each call on the log.                                     *)

\* The log only ever grows.
Extends ==
    /\ log' \in Seq(Event)
    /\ Len(log) \in Nat
    /\ Len(log') \in Nat
    /\ Len(log') >= Len(log)
    /\ \A i \in 1 .. Len(log) : log'[i] = log[i]

\* The log of each call, the exceptional endings of a run aside, which have none.
LEMMA CallAdds ==
  ASSUME TypeOK, NEW p \in Projects
  PROVE  /\ CreateProject(p) => Adds1(Ev("project.created", p, Stages[1]))
         /\ Advance(p) => Adds2(Ev("gate.passed", p, stage[p]),
                                Ev("state.transitioned", p, NextStage(stage[p])))
         /\ ResolveEscalation(p) => Adds1(Ev("state.transitioned", p, stage[p]))
         /\ Close(p) => Adds1(Ev("state.transitioned", p, Last))
         /\ Unblock(p) => Adds1(Ev("gate.exception_granted", p, NoStage))
         /\ RecordLearning(p) =>
              \E type \in {"learning.report_ready", "knowledge.entry_merged"} :
                 Adds1(Ev(type, p, stage[p]))
  <1>1. stage[p] \in StageSet \cup {NoStage} /\ log \in Seq(Event)
    BY DEF TypeOK
  <1>2. Stages[1] \in StageSet /\ Last \in StageSet
    BY LifecycleAssumption DEF StageSet, Last
  <1>3. ASSUME NEW type \in EventType, NEW s \in StageSet \cup {NoStage},
               Emit(<<Ev(type, p, s)>>)
        PROVE  Adds1(Ev(type, p, s))
    BY <1>1, <1>3, EvType, EmitAdds
  <1>4. ASSUME CreateProject(p) PROVE Adds1(Ev("project.created", p, Stages[1]))
    BY <1>2, <1>3, <1>4 DEF CreateProject, EventType
  <1>5. ASSUME Advance(p)
        PROVE  Adds2(Ev("gate.passed", p, stage[p]),
                     Ev("state.transitioned", p, NextStage(stage[p])))
    <2>1. stage[p] \in StageSet /\ NextStage(stage[p]) \in StageSet
      BY <1>5, RunWrites DEF RunStage
    <2>2. /\ Ev("gate.passed", p, stage[p]) \in Event
          /\ Ev("state.transitioned", p, NextStage(stage[p])) \in Event
      BY <2>1, EvType DEF EventType
    <2>3. Emit(<<Ev("gate.passed", p, stage[p]),
                 Ev("state.transitioned", p, NextStage(stage[p]))>>)
      BY <1>5 DEF Advance
    <2> QED
      BY <1>1, <2>2, <2>3, EmitAdds
  <1>6. ASSUME ResolveEscalation(p) PROVE Adds1(Ev("state.transitioned", p, stage[p]))
    BY <1>1, <1>3, <1>6 DEF ResolveEscalation, EventType
  <1>7. ASSUME Close(p) PROVE Adds1(Ev("state.transitioned", p, Last))
    BY <1>2, <1>3, <1>7 DEF Close, EventType
  <1>8. ASSUME Unblock(p) PROVE Adds1(Ev("gate.exception_granted", p, NoStage))
    BY <1>3, <1>8 DEF Unblock, EventType
  <1>9. ASSUME RecordLearning(p)
        PROVE  \E type \in {"learning.report_ready", "knowledge.entry_merged"} :
                  Adds1(Ev(type, p, stage[p]))
    <2>1. PICK type \in {"learning.report_ready", "knowledge.entry_merged"} :
             Emit(<<Ev(type, p, stage[p])>>)
      BY <1>9 DEF RecordLearning
    <2>2. type \in EventType
      BY DEF EventType
    <2> QED
      BY <1>1, <1>3, <2>1, <2>2
  <1> QED
    BY <1>4, <1>5, <1>6, <1>7, <1>8, <1>9

\* Every step extends the log.
LEMMA StepExtends ==
  ASSUME TypeOK, [Next]_vars
  PROVE  Extends
  <1>1. /\ log \in Seq(Event) /\ Len(log) \in Nat
    BY DEF TypeOK
  <1>2. CASE UNCHANGED log
    BY <1>1, <1>2 DEF Extends
  <1>3. ASSUME NEW e, NEW f, NEW g, Adds1(e) \/ Adds2(e, f) \/ Adds3(e, f, g)
        PROVE  Extends
    BY <1>3 DEF Adds1, Adds2, Adds3, Extends
  <1>4. ASSUME NEW p \in Projects, FailGate(p) PROVE Extends
    BY <1>3, <1>4, FailAdds
  <1>5. ASSUME NEW p \in Projects,
               CreateProject(p) \/ Advance(p) \/ ResolveEscalation(p) \/ Close(p)
                 \/ Unblock(p) \/ RecordLearning(p)
        PROVE  Extends
    BY <1>3, <1>5, CallAdds
  <1>6. ASSUME NEW p \in Projects, GateRefused(p) \/ LearningMissing(p) \/ AbortRun(p)
        PROVE  Extends
    BY <1>2, <1>6 DEF GateRefused, LearningMissing, AbortRun
  <1>7. CASE UNCHANGED vars
    BY <1>2, <1>7 DEF vars
  <1> QED
    BY <1>4, <1>5, <1>6, <1>7 DEF Next, RunStage

\* The variables of the core are well typed initially, and every step keeps them so.
LEMMA TypeStep ==
  ASSUME TypeOK, [Next]_vars
  PROVE  TypeOK'
  <1>1. log' \in Seq(Event)
    BY StepExtends DEF Extends
  <1>2. Stages[1] \in StageSet /\ Last \in StageSet
    BY LifecycleAssumption DEF StageSet, Last
  <1>3. ASSUME NEW p \in Projects, CreateProject(p) \/ Close(p) PROVE TypeOK'
    BY <1>1, <1>2, <1>3 DEF TypeOK, CreateProject, Close
  <1>4. ASSUME NEW p \in Projects, RunStage(p) PROVE TypeOK'
    <2>1. /\ artifacts' \in [Projects -> [StageSet -> [ArtifactState -> Nat]]]
          /\ stage[p] \in StageSet
          /\ NextStage(stage[p]) \in StageSet
      BY <1>4, RunWrites
    <2>2. failures[p] \in [StageSet -> Nat]
      BY DEF TypeOK
    <2>3. CASE Advance(p) \/ LearningMissing(p)
      <3>1. failures' = [failures EXCEPT ![p] = [failures[p] EXCEPT ![stage[p]] = 0]]
        BY <2>3 DEF Advance, LearningMissing
      <3>2. failures' \in [Projects -> [StageSet -> Nat]]
        BY <2>1, <2>2, <3>1 DEF TypeOK
      <3> QED
        BY <1>1, <2>1, <2>3, <3>2 DEF TypeOK, Advance, LearningMissing
    <2>4. CASE FailGate(p)
      <3>1. failures' = [failures EXCEPT ![p] =
                           [failures[p] EXCEPT ![stage[p]] = failures[p][stage[p]] + 1]]
        BY <2>4 DEF FailGate
      <3>2. failures' \in [Projects -> [StageSet -> Nat]]
        BY <2>1, <2>2, <3>1 DEF TypeOK
      <3>3. escalated' \in [Projects -> BOOLEAN]
        <4>1. escalated' = [escalated EXCEPT ![p] = escalated[p] \/ FailedTwice(p)]
          BY <2>4 DEF FailGate
        <4>2. (escalated[p] \/ FailedTwice(p)) \in BOOLEAN
          OBVIOUS
        <4> QED
          BY <4>1, <4>2, Zenon DEF TypeOK
      <3>4. blocked' \in [Projects -> BOOLEAN]
        BY <2>4, FailAdds DEF TypeOK
      <3> QED
        BY <1>1, <2>1, <2>4, <3>2, <3>3, <3>4 DEF TypeOK, FailGate
    <2>5. CASE GateRefused(p) \/ AbortRun(p)
      BY <1>1, <2>1, <2>5 DEF TypeOK, GateRefused, AbortRun
    <2> QED
      BY <1>4, <2>3, <2>4, <2>5 DEF RunStage
  <1>5. ASSUME NEW p \in Projects,
               ResolveEscalation(p) \/ Unblock(p) \/ RecordLearning(p)
        PROVE  TypeOK'
    BY <1>1, <1>5 DEF TypeOK, ResolveEscalation, Unblock, RecordLearning
  <1>6. CASE UNCHANGED vars
    BY <1>6 DEF vars, TypeOK
  <1> QED
    BY <1>3, <1>4, <1>5, <1>6 DEF Next

\* Projects, counters, blocks, log and registry are well typed for ever.
THEOREM LifecycleTyped == Spec => []TypeOK
  <1>1. Init => TypeOK
    BY DEF Init, TypeOK
  <1> QED
    BY <1>1, TypeStep, PTL DEF Spec

-----------------------------------------------------------------------------
(* No project is closed that has not learned.                              *)

\* An event that happened has happened for ever.
LEMMA HappenedStays ==
  ASSUME TypeOK, Extends, NEW p \in Projects, NEW type, Happened(type, p)
  PROVE  Happened(type, p)'
  <1>1. PICK i \in DOMAIN log : log[i].type = type /\ log[i].project = p
    BY DEF Happened
  <1>2. i \in 1 .. Len(log) /\ i \in DOMAIN log' /\ log'[i] = log[i]
    BY <1>1 DEF Extends, TypeOK
  <1> QED
    BY <1>1, <1>2 DEF Happened

\* SM-06: whichever way a project was closed, its learning report was ready and
\* its knowledge merged.
THEOREM NoClosureUnlearned == Spec => []ClosedMeansLearned
  <1>1. Init => ClosedMeansLearned
    BY LifecycleAssumption DEF Init, ClosedMeansLearned, StageSet, Last
  <1>2. TypeOK /\ ClosedMeansLearned /\ [Next]_vars => ClosedMeansLearned'
    <2> SUFFICES ASSUME TypeOK, ClosedMeansLearned, [Next]_vars,
                        NEW p \in Projects, stage'[p] = Last
                 PROVE  Learned(p)'
      BY DEF ClosedMeansLearned
    <2>1. Extends
      BY StepExtends
    <2>2. Learned(p) => Learned(p)'
      BY <2>1, HappenedStays DEF Learned
    <2>3. Stages[1] # Last
      BY LifecycleAssumption DEF Last
    <2>4. stage[p] = Last \/ Learned(p)
      <3>1. ASSUME NEW q \in Projects, CreateProject(q) PROVE stage[p] = Last
        BY <2>3, <3>1 DEF CreateProject, TypeOK
      <3>2. ASSUME NEW q \in Projects, Advance(q) PROVE stage[p] = Last \/ Learned(p)
        BY <3>2 DEF Advance, MayEnter, TypeOK
      <3>3. ASSUME NEW q \in Projects, Close(q) PROVE stage[p] = Last \/ Learned(p)
        BY <3>3 DEF Close, MayEnter, TypeOK
      <3>4. CASE UNCHANGED stage
        BY <3>4
      <3> QED
        BY <3>1, <3>2, <3>3, <3>4
        DEF Next, RunStage, GateRefused, LearningMissing, FailGate, AbortRun,
            ResolveEscalation, Unblock, RecordLearning, vars
    <2> QED
      BY <2>2, <2>4 DEF ClosedMeansLearned
  <1> QED
    BY <1>1, <1>2, LifecycleTyped, PTL DEF Spec

-----------------------------------------------------------------------------
(* Gates.                                                                  *)

\* The state machine lets no escalated project through a gate, nor the engine a
\* blocked one through deployment, whatever happened before.
THEOREM GatesAreGuarded == Spec => GatesGuarded
  <1> DEFINE Guarded(e) ==
        e.type = "gate.passed" =>
          /\ ~escalated[e.project]
          /\ e.stage = "deployment" => ~blocked[e.project]
  <1>1. TypeOK /\ [Next]_vars => \A e \in Appended : Guarded(e)
    <2> SUFFICES ASSUME TypeOK, [Next]_vars, NEW e \in Appended, e.type = "gate.passed"
                 PROVE  /\ ~escalated[e.project]
                        /\ e.stage = "deployment" => ~blocked[e.project]
      OBVIOUS
    <2>1. PICK n \in Len(log) + 1 .. Len(log') : e = log'[n]
      BY DEF Appended
    <2>2. /\ log \in Seq(Event)
          /\ stage \in [Projects -> StageSet \cup {NoStage}]
      BY DEF TypeOK
    <2>3. ASSUME NEW p \in Projects, Advance(p)
          PROVE  /\ ~escalated[e.project]
                 /\ e.stage = "deployment" => ~blocked[e.project]
      <3>1. e \in {Ev("gate.passed", p, stage[p]),
                   Ev("state.transitioned", p, NextStage(stage[p]))}
        BY <2>1, <2>3, CallAdds DEF Adds2
      <3>2. e.project = p /\ e.stage = stage[p]
        BY <3>1 DEF Ev
      <3> QED
        BY <2>3, <3>2 DEF Advance, Starts
    <2>5. ASSUME NEW p \in Projects, FailGate(p) PROVE FALSE
      <3>1. e \in {Ev("gate.failed", p, stage[p]),
                   Ev("governance.policy_triggered", p, stage[p]),
                   Ev(IF FailedTwice(p) THEN "task.escalated" ELSE "state.loopback",
                      p, stage[p])}
        BY <2>1, <2>5, FailAdds DEF Adds2, Adds3
      <3> QED
        BY <3>1 DEF Ev
    <2>6. ASSUME NEW p \in Projects,
                 CreateProject(p) \/ ResolveEscalation(p) \/ Close(p) \/ Unblock(p)
          PROVE  FALSE
      <3>1. e \in {Ev("project.created", p, Stages[1]),
                   Ev("state.transitioned", p, stage[p]),
                   Ev("state.transitioned", p, Last),
                   Ev("gate.exception_granted", p, NoStage)}
        BY <2>1, <2>6, CallAdds DEF Adds1
      <3> QED
        BY <3>1 DEF Ev
    <2>7. ASSUME NEW p \in Projects, RecordLearning(p) PROVE FALSE
      <3>1. PICK type \in {"learning.report_ready", "knowledge.entry_merged"} :
               Adds1(Ev(type, p, stage[p]))
        BY <2>7, CallAdds
      <3>2. e = Ev(type, p, stage[p])
        BY <2>1, <3>1 DEF Adds1
      <3> QED
        BY <3>2 DEF Ev
    <2>8. ASSUME UNCHANGED log PROVE FALSE
      BY <2>1, <2>2, <2>8
    <2> QED
      BY <2>3, <2>5, <2>6, <2>7, <2>8
      DEF Next, RunStage, GateRefused, LearningMissing, AbortRun, vars
  <1>2. TypeOK /\ [Next]_vars =>
          [\A e \in Appended : e.type = "gate.passed" =>
              /\ ~escalated[e.project]
              /\ e.stage = "deployment" => ~blocked[e.project]]_vars
    BY <1>1
  <1> QED
    BY <1>2, LifecycleTyped, PTL DEF Spec, GatesGuarded

-----------------------------------------------------------------------------
(* Escalation.                                                             *)

FailedAt(p, s) == \E i \in DOMAIN log : Is(i, "gate.failed", p, s)

FailedTwiceAt(p, s) ==
    \E i, k \in DOMAIN log :
        i < k /\ Is(i, "gate.failed", p, s) /\ Is(k, "gate.failed", p, s)

\* The counters count no failure that is not in the log: what EscalationEarned
\* needs to be inductive.
EscalationInv ==
    /\ \A p \in Projects, s \in StageSet : failures[p][s] >= 1 => FailedAt(p, s)
    /\ \A p \in Projects : escalated[p] /\ stage[p] # Last => FailedTwiceAt(p, stage[p])
    /\ \A p \in Projects : stage[p] = NoStage => ~escalated[p]

\* What has failed has failed for ever.
LEMMA FailedStays ==
  ASSUME TypeOK, Extends, NEW p \in Projects, NEW s \in StageSet \cup {NoStage}
  PROVE  /\ FailedAt(p, s) => FailedAt(p, s)'
         /\ FailedTwiceAt(p, s) => FailedTwiceAt(p, s)'
  <1>1. /\ DOMAIN log = 1 .. Len(log) /\ DOMAIN log' = 1 .. Len(log')
        /\ 1 .. Len(log) \subseteq 1 .. Len(log')
    BY DEF TypeOK, Extends
  <1>2. \A i \in DOMAIN log : Is(i, "gate.failed", p, s) => Is(i, "gate.failed", p, s)'
    BY <1>1 DEF Extends, Is, Ev
  <1> QED
    BY <1>1, <1>2 DEF FailedAt, FailedTwiceAt

\* A failed gate is in the log, after every earlier failure.
LEMMA FailureLogged ==
  ASSUME TypeOK, NEW p \in Projects, FailGate(p)
  PROVE  /\ FailedAt(p, stage[p])'
         /\ FailedAt(p, stage[p]) => FailedTwiceAt(p, stage[p])'
         /\ stage' = stage
  <1>1. Extends
    BY StepExtends DEF Next, RunStage
  <1>2. /\ Len(log) \in Nat /\ Len(log') > Len(log)
        /\ log'[Len(log) + 1] = Ev("gate.failed", p, stage[p])
    BY FailAdds DEF Adds2, Adds3
  <1>3. /\ DOMAIN log = 1 .. Len(log) /\ DOMAIN log' = 1 .. Len(log')
        /\ Len(log) + 1 \in DOMAIN log'
    BY <1>1, <1>2 DEF TypeOK, Extends
  <1>4. stage' = stage
    BY DEF FailGate
  <1>6. FailedAt(p, stage[p])'
    BY <1>2, <1>3, <1>4 DEF FailedAt, Is, Ev
  <1>7. ASSUME FailedAt(p, stage[p]) PROVE FailedTwiceAt(p, stage[p])'
    <2>1. PICK i \in DOMAIN log : log[i] = Ev("gate.failed", p, stage[p])
      BY <1>7 DEF FailedAt, Is
    <2>2. /\ i \in DOMAIN log' /\ i < Len(log) + 1
          /\ log'[i] = Ev("gate.failed", p, stage[p])
      BY <1>1, <1>2, <1>3, <2>1 DEF Extends
    <2> QED
      BY <1>2, <1>3, <1>4, <2>2 DEF FailedTwiceAt, Is, Ev
  <1> QED
    BY <1>4, <1>6, <1>7

\* An escalated project has failed the gate it stands at twice.
THEOREM EscalationIsEarned == Spec => []EscalationEarned
  <1>1. Init => EscalationInv
    BY DEF Init, EscalationInv
  <1>2. TypeOK /\ EscalationInv /\ [Next]_vars => EscalationInv'
    <2> SUFFICES ASSUME TypeOK, EscalationInv, [Next]_vars
                 PROVE  EscalationInv'
      OBVIOUS
    <2>1. Extends /\ TypeOK'
      BY StepExtends, TypeStep
    <2>2. \A p \in Projects, s \in StageSet : failures[p][s] \in Nat
      BY DEF TypeOK
    <2>3. \A p \in Projects, s \in StageSet \cup {NoStage} :
             /\ FailedAt(p, s) => FailedAt(p, s)'
             /\ FailedTwiceAt(p, s) => FailedTwiceAt(p, s)'
      BY <2>1, FailedStays
    <2>4. /\ stage \in [Projects -> StageSet \cup {NoStage}]
          /\ escalated \in [Projects -> BOOLEAN]
          /\ failures \in [Projects -> [StageSet -> Nat]]
          /\ NoStage \notin StageSet
      BY LifecycleAssumption DEF TypeOK
    <2>5. ASSUME NEW p \in Projects, FailGate(p) PROVE EscalationInv'
      <3>1. stage[p] \in StageSet /\ stage' = stage
        BY <2>5, RunWrites, FailureLogged DEF RunStage
      <3>2. /\ FailedAt(p, stage[p])'
            /\ FailedAt(p, stage[p]) => FailedTwiceAt(p, stage[p])'
        BY <2>5, FailureLogged
      <3>3. failures' = [failures EXCEPT ![p] =
                           [failures[p] EXCEPT ![stage[p]] = failures[p][stage[p]] + 1]]
        BY <2>5 DEF FailGate
      <3>4. \A q \in Projects, s \in StageSet : failures'[q][s] >= 1 => FailedAt(q, s)'
        <4> SUFFICES ASSUME NEW q \in Projects, NEW s \in StageSet, failures'[q][s] >= 1
                     PROVE  FailedAt(q, s)'
          OBVIOUS
        <4>1. CASE q = p /\ s = stage[p]
          BY <3>1, <3>2, <4>1 DEF FailedAt, Is, Ev
        <4>2. CASE ~(q = p /\ s = stage[p])
          <5>1. failures'[q][s] = failures[q][s]
            BY <2>4, <3>1, <3>3, <4>2
          <5> QED
            BY <2>3, <5>1 DEF EscalationInv
        <4> QED
          BY <4>1, <4>2
      <3>5. failures'[p][stage[p]] >= 2 => failures[p][stage[p]] >= 1
        <4>1. failures'[p][stage[p]] = failures[p][stage[p]] + 1
          BY <2>4, <3>1, <3>3
        <4> QED
          BY <2>2, <3>1, <4>1
      <3>6. ASSUME NEW q \in Projects, escalated'[q], stage'[q] # Last
            PROVE  FailedTwiceAt(q, stage[q])'
        <4>1. CASE escalated[q]
          BY <2>3, <2>4, <3>1, <3>6, <4>1 DEF EscalationInv
        <4>2. CASE ~escalated[q]
          <5>1. q = p /\ FailedTwice(p)
            BY <2>4, <2>5, <3>6, <4>2 DEF FailGate
          <5>2. failures[p][stage[p]] >= 1
            BY <3>5, <5>1 DEF FailedTwice
          <5> QED
            BY <3>1, <3>2, <5>1, <5>2 DEF EscalationInv
        <4> QED
          BY <4>1, <4>2
      <3>7. ASSUME NEW q \in Projects, stage'[q] = NoStage PROVE ~escalated'[q]
        <4>1. q # p /\ stage[q] = NoStage
          BY <2>4, <3>1, <3>7
        <4> QED
          BY <2>4, <2>5, <4>1 DEF FailGate, EscalationInv
      <3> QED
        BY <3>1, <3>4, <3>6, <3>7 DEF EscalationInv, FailedTwiceAt, Is, Ev
    <2>6. ASSUME NEW p \in Projects, Advance(p) \/ LearningMissing(p)
          PROVE  EscalationInv'
      <3>1. stage[p] \in StageSet /\ NextStage(stage[p]) \in StageSet /\ ~escalated[p]
        BY <2>6, RunWrites DEF RunStage, Advance, LearningMissing
      <3>2. failures' = [failures EXCEPT ![p] = [failures[p] EXCEPT ![stage[p]] = 0]]
        BY <2>6 DEF Advance, LearningMissing
      <3>3. \A q \in Projects, s \in StageSet :
               failures'[q][s] = failures[q][s] \/ failures'[q][s] = 0
        BY <2>4, <3>1, <3>2
      <3>4. /\ escalated' = escalated
            /\ \A q \in Projects : stage'[q] = stage[q] \/ ~escalated[q]
            /\ \A q \in Projects : stage'[q] = NoStage => stage[q] = NoStage
        BY <2>4, <2>6, <3>1 DEF Advance, LearningMissing
      <3>5. ASSUME NEW q \in Projects, NEW s \in StageSet, failures'[q][s] >= 1
            PROVE  FailedAt(q, s)'
        BY <2>3, <3>3, <3>5 DEF EscalationInv
      <3>6. ASSUME NEW q \in Projects, escalated'[q], stage'[q] # Last
            PROVE  stage'[q] = stage[q] /\ FailedTwiceAt(q, stage[q])'
        BY <2>3, <2>4, <3>4, <3>6 DEF EscalationInv
      <3> QED
        BY <3>4, <3>5, <3>6 DEF EscalationInv, FailedTwiceAt, Is, Ev
    <2>7. ASSUME UNCHANGED failures,
                 \A q \in Projects : /\ escalated'[q] => escalated[q]
                                     /\ stage'[q] \in {stage[q], Last} \/ ~escalated[q]
                                     /\ stage'[q] = NoStage => stage[q] = NoStage
          PROVE  EscalationInv'
      <3>1. ASSUME NEW q \in Projects, NEW s \in StageSet, failures'[q][s] >= 1
            PROVE  FailedAt(q, s)'
        BY <2>3, <2>7, <3>1 DEF EscalationInv
      <3>2. ASSUME NEW q \in Projects, escalated'[q], stage'[q] # Last
            PROVE  stage'[q] = stage[q] /\ FailedTwiceAt(q, stage[q])'
        BY <2>3, <2>4, <2>7, <3>2 DEF EscalationInv
      <3> QED
        BY <2>7, <3>1, <3>2 DEF EscalationInv, FailedTwiceAt, Is, Ev
    <2>8. ASSUME NEW p \in Projects,
                 \/ CreateProject(p) \/ Close(p) \/ ResolveEscalation(p) \/ Unblock(p)
                 \/ RecordLearning(p) \/ GateRefused(p) \/ AbortRun(p)
          PROVE  EscalationInv'
      <3>1. Stages[1] \in StageSet /\ Last \in StageSet
        BY LifecycleAssumption DEF StageSet, Last
      <3>2. UNCHANGED failures
        BY <2>8 DEF CreateProject, Close, ResolveEscalation, Unblock, RecordLearning,
                    GateRefused, AbortRun
      <3>3. \A q \in Projects : /\ escalated'[q] => escalated[q]
                                /\ stage'[q] \in {stage[q], Last} \/ ~escalated[q]
                                /\ stage'[q] = NoStage => stage[q] = NoStage
        BY <2>4, <2>8, <3>1
        DEF CreateProject, Close, ResolveEscalation, Unblock, RecordLearning,
            GateRefused, AbortRun, EscalationInv
      <3> QED
        BY <2>7, <3>2, <3>3
    <2>9. CASE UNCHANGED vars
      BY <2>7, <2>9 DEF vars
    <2> QED
      BY <2>5, <2>6, <2>8, <2>9 DEF Next, RunStage
  <1>3. EscalationInv => EscalationEarned
    BY DEF EscalationInv, EscalationEarned, FailedTwiceAt
  <1> QED
    BY <1>1, <1>2, <1>3, LifecycleTyped, PTL DEF Spec

-----------------------------------------------------------------------------
(* The events that a step adds.                                            *)

New == Len(log) + 1 .. Len(log')

\* What each call adds, event by event, and whether any of it is there to see.
LEMMA NewOf ==
  /\ \A e : Adds1(e) => New = {Len(log) + 1} /\ log'[Len(log) + 1] = e
  /\ \A e, f : Adds2(e, f) =>
        /\ New = {Len(log) + 1, Len(log) + 2}
        /\ log'[Len(log) + 1] = e /\ log'[Len(log) + 2] = f
  /\ \A e, f, g : Adds3(e, f, g) =>
        /\ New = {Len(log) + 1, Len(log) + 2, Len(log) + 3}
        /\ log'[Len(log) + 1] = e /\ log'[Len(log) + 2] = f /\ log'[Len(log) + 3] = g
  BY DEF Adds1, Adds2, Adds3, New

\* The log before and after a step, by its indices.
LEMMA Indices ==
  ASSUME TypeOK, [Next]_vars
  PROVE  /\ DOMAIN log = 1 .. Len(log)
         /\ DOMAIN log' = DOMAIN log \cup New
         /\ Len(log) \in Nat /\ Len(log') \in Nat /\ Len(log') >= Len(log)
         /\ \A i \in DOMAIN log : log'[i] = log[i]
         /\ \A i \in DOMAIN log, k \in New : i < k
         /\ \A i \in DOMAIN log :
               /\ i + 1 .. Len(log') = (i + 1 .. Len(log)) \cup New
               /\ i + 1 .. Len(log) \subseteq DOMAIN log
  <1>1. Extends
    BY StepExtends
  <1>2. /\ DOMAIN log = 1 .. Len(log) /\ DOMAIN log' = 1 .. Len(log')
        /\ Len(log) \in Nat /\ Len(log') \in Nat /\ Len(log') >= Len(log)
    BY <1>1 DEF Extends, TypeOK
  <1> QED
    BY <1>1, <1>2 DEF Extends, New

\* The endings of a run that leave no trace add nothing.
LEMMA SilentAdds ==
  ASSUME TypeOK, UNCHANGED log
  PROVE  New = {}
  BY DEF TypeOK, New

\* An event is told by its three fields.
LEMMA EvFields ==
  /\ \A a, p, s : /\ Ev(a, p, s).type = a
                  /\ Ev(a, p, s).project = p
                  /\ Ev(a, p, s).stage = s
  /\ \A a, p, s, b, q, t : Ev(a, p, s) = Ev(b, q, t) => a = b /\ p = q /\ s = t
  BY DEF Ev

-----------------------------------------------------------------------------
(* The block on deployment.                                                *)

Triggered(i, p) ==
    log[i].type = "governance.policy_triggered" /\ log[i].project = p

Excepted(i, p) == Is(i, "gate.exception_granted", p, NoStage)

BlockLogged(p) ==
    \E i \in DOMAIN log : Triggered(i, p) /\ \A k \in i + 1 .. Len(log) : ~Excepted(k, p)

\* Only a new trigger can put the block in the log, and only a new exception take
\* it out; an exception with no trigger after it does take it out.
LEMMA BlockStep ==
  ASSUME TypeOK, [Next]_vars, NEW p \in Projects
  PROVE  /\ (\A n \in New : ~Excepted(n, p)') /\ BlockLogged(p) => BlockLogged(p)'
         /\ (\A n \in New : ~Triggered(n, p)') /\ BlockLogged(p)' => BlockLogged(p)
         /\ (\E n \in New : Triggered(n, p)') /\ (\A n \in New : ~Excepted(n, p)')
              => BlockLogged(p)'
         /\ (\E n \in New : Excepted(n, p)') /\ (\A n \in New : ~Triggered(n, p)')
              => ~BlockLogged(p)'
  <1>1. /\ DOMAIN log = 1 .. Len(log) /\ DOMAIN log' = DOMAIN log \cup New
        /\ \A i \in DOMAIN log :
              /\ i + 1 .. Len(log') = (i + 1 .. Len(log)) \cup New
              /\ i + 1 .. Len(log) \subseteq DOMAIN log
    BY Indices
  <1>2. \A i \in DOMAIN log : /\ Triggered(i, p)' <=> Triggered(i, p)
                              /\ Excepted(i, p)' <=> Excepted(i, p)
    BY Indices DEF Triggered, Excepted, Is, Ev
  <1>3. \A n \in New : n + 1 .. Len(log') \subseteq New
    BY Indices DEF New
  <1>4. ASSUME \A n \in New : ~Excepted(n, p)', BlockLogged(p)
        PROVE  BlockLogged(p)'
    <2>1. PICK i \in DOMAIN log :
             Triggered(i, p) /\ \A k \in i + 1 .. Len(log) : ~Excepted(k, p)
      BY <1>4 DEF BlockLogged
    <2>2. i \in DOMAIN log' /\ Triggered(i, p)'
      BY <1>1, <1>2, <2>1
    <2>3. \A k \in i + 1 .. Len(log') : ~Excepted(k, p)'
      BY <1>1, <1>2, <1>4, <2>1
    <2> QED
      BY <2>2, <2>3 DEF BlockLogged
  <1>5. ASSUME \A n \in New : ~Triggered(n, p)', BlockLogged(p)'
        PROVE  BlockLogged(p) /\ \A n \in New : ~Excepted(n, p)'
    <2>1. PICK i \in DOMAIN log' :
             Triggered(i, p)' /\ \A k \in i + 1 .. Len(log') : ~Excepted(k, p)'
      BY <1>5 DEF BlockLogged
    <2>2. i \in DOMAIN log /\ Triggered(i, p)
      BY <1>1, <1>2, <1>5, <2>1
    <2>3. \A k \in i + 1 .. Len(log) : ~Excepted(k, p)
      BY <1>1, <1>2, <2>1, <2>2
    <2>4. \A n \in New : ~Excepted(n, p)'
      BY <1>1, <2>1, <2>2
    <2> QED
      BY <2>2, <2>3, <2>4 DEF BlockLogged
  <1>6. ASSUME \E n \in New : Triggered(n, p)', \A n \in New : ~Excepted(n, p)'
        PROVE  BlockLogged(p)'
    <2>1. PICK n \in New : Triggered(n, p)'
      BY <1>6
    <2>2. \A k \in n + 1 .. Len(log') : ~Excepted(k, p)'
      BY <1>3, <1>6
    <2> QED
      BY <1>1, <2>1, <2>2 DEF BlockLogged
  <1> QED
    BY <1>4, <1>5, <1>6

\* What the policy engine has blocked was triggered, and lifting the block leaves
\* its trace: deployment is blocked exactly if the log says so.
THEOREM BlockIsAudited == Spec => []BlockAudited
  <1> DEFINE Inv == \A p \in Projects : blocked[p] <=> BlockLogged(p)
  <1>1. Init => Inv
    BY DEF Init, BlockLogged
  <1>2. TypeOK /\ Inv /\ [Next]_vars => Inv'
    <2> SUFFICES ASSUME TypeOK, Inv, [Next]_vars, NEW p \in Projects
                 PROVE  blocked'[p] <=> BlockLogged(p)'
      OBVIOUS
    <2>1. blocked \in [Projects -> BOOLEAN]
      BY DEF TypeOK
    <2> DEFINE Quiet == \A n \in New : ~Excepted(n, p)' /\ ~Triggered(n, p)'
    <2>2. ASSUME Quiet, blocked'[p] = blocked[p]
          PROVE  blocked'[p] <=> BlockLogged(p)'
      BY <2>2, BlockStep
    <2>3. ASSUME NEW q \in Projects, Unblock(q)
          PROVE  blocked'[p] <=> BlockLogged(p)'
      <3>1. /\ New = {Len(log) + 1}
            /\ log'[Len(log) + 1] = Ev("gate.exception_granted", q, NoStage)
        BY <2>3, CallAdds, NewOf
      <3>2. blocked' = [blocked EXCEPT ![q] = FALSE]
        BY <2>3 DEF Unblock
      <3>3. \A n \in New : ~Triggered(n, p)' /\ (Excepted(n, p)' <=> q = p)
        BY <3>1 DEF Triggered, Excepted, Is, Ev
      <3>4. CASE q = p
        BY <2>1, <3>1, <3>2, <3>3, <3>4, BlockStep
      <3>5. CASE q # p
        BY <2>1, <2>2, <3>2, <3>3, <3>5
      <3> QED
        BY <3>4, <3>5
    <2>4. ASSUME NEW q \in Projects, FailGate(q)
          PROVE  blocked'[p] <=> BlockLogged(p)'
      <3> DEFINE failed == Ev("gate.failed", q, stage[q])
                 policy == Ev("governance.policy_triggered", q, stage[q])
                 outcome == Ev(IF FailedTwice(q) THEN "task.escalated" ELSE "state.loopback",
                               q, stage[q])
      <3>1. \/ Adds2(failed, outcome) /\ blocked' = blocked
            \/ Adds3(failed, policy, outcome) /\ blocked' = [blocked EXCEPT ![q] = TRUE]
        BY <2>4, FailAdds
      <3>2. CASE Adds2(failed, outcome) /\ blocked' = blocked
        <4>1. Quiet
          BY <3>2, NewOf, EvFields DEF Triggered, Excepted, Is
        <4> QED
          BY <2>2, <3>2, <4>1
      <3>3. CASE Adds3(failed, policy, outcome) /\ blocked' = [blocked EXCEPT ![q] = TRUE]
        <4>1. /\ \A n \in New : ~Excepted(n, p)'
              /\ (\E n \in New : Triggered(n, p)') <=> q = p
          BY <3>3, NewOf, EvFields DEF Triggered, Excepted, Is
        <4> QED
          BY <2>1, <2>2, <3>3, <4>1, BlockStep
      <3> QED
        BY <3>1, <3>2, <3>3
    <2>5. ASSUME NEW q \in Projects, Advance(q)
          PROVE  blocked'[p] <=> BlockLogged(p)'
      <3>1. Quiet
        BY <2>5, CallAdds, NewOf, EvFields DEF Triggered, Excepted, Is
      <3> QED
        BY <2>2, <2>5, <3>1 DEF Advance
    <2>6. ASSUME NEW q \in Projects, CreateProject(q) \/ ResolveEscalation(q) \/ Close(q)
          PROVE  blocked'[p] <=> BlockLogged(p)'
      <3>1. Quiet
        BY <2>6, CallAdds, NewOf, EvFields DEF Triggered, Excepted, Is
      <3> QED
        BY <2>2, <2>6, <3>1 DEF CreateProject, ResolveEscalation, Close
    <2>7. ASSUME NEW q \in Projects, RecordLearning(q)
          PROVE  blocked'[p] <=> BlockLogged(p)'
      <3>1. PICK type \in {"learning.report_ready", "knowledge.entry_merged"} :
               Adds1(Ev(type, q, stage[q]))
        BY <2>7, CallAdds
      <3>2. Quiet
        BY <3>1, NewOf, EvFields DEF Triggered, Excepted, Is
      <3> QED
        BY <2>2, <2>7, <3>2 DEF RecordLearning
    <2>8. ASSUME UNCHANGED <<log, blocked>>
          PROVE  blocked'[p] <=> BlockLogged(p)'
      BY <2>2, <2>8, SilentAdds
    <2> QED
      BY <2>3, <2>4, <2>5, <2>6, <2>7, <2>8
      DEF Next, RunStage, GateRefused, LearningMissing, AbortRun, vars
  <1>3. Inv => BlockAudited
    BY DEF BlockAudited, BlockLogged, Triggered, Excepted
  <1> QED
    BY <1>1, <1>2, <1>3, LifecycleTyped, PTL DEF Spec

-----------------------------------------------------------------------------
(* The stage.                                                              *)

\* Where the log has project p: nowhere before its creation, then where its last
\* move left it.
LoggedAt(p, s) ==
    \/ s = NoStage /\ \A i \in DOMAIN log : ~Moves(i, p)
    \/ \E i \in DOMAIN log : /\ Moves(i, p)
                             /\ log[i].stage = s
                             /\ \A k \in i + 1 .. Len(log) : ~Moves(k, p)

\* Without a new move the log has p where it had it; after a new move that is the
\* last of the new events, it has p where that move says.
LEMMA MoveStep ==
  ASSUME TypeOK, [Next]_vars, NEW p \in Projects, NEW s
  PROVE  /\ (\A n \in New : ~Moves(n, p)') /\ LoggedAt(p, s) => LoggedAt(p, s)'
         /\ \A n \in New : n = Len(log') /\ Moves(n, p)' /\ log'[n].stage = s
                            => LoggedAt(p, s)'
  <1>1. /\ DOMAIN log = 1 .. Len(log) /\ DOMAIN log' = DOMAIN log \cup New
        /\ \A i \in DOMAIN log :
              /\ i + 1 .. Len(log') = (i + 1 .. Len(log)) \cup New
              /\ i + 1 .. Len(log) \subseteq DOMAIN log
    BY Indices
  <1>2. \A i \in DOMAIN log : (Moves(i, p)' <=> Moves(i, p)) /\ log'[i] = log[i]
    BY Indices DEF Moves
  <1>3. ASSUME \A n \in New : ~Moves(n, p)', LoggedAt(p, s)
        PROVE  LoggedAt(p, s)'
    <2>1. CASE s = NoStage /\ \A i \in DOMAIN log : ~Moves(i, p)
      BY <1>1, <1>2, <1>3, <2>1 DEF LoggedAt
    <2>2. ASSUME NEW i \in DOMAIN log, Moves(i, p), log[i].stage = s,
                 \A k \in i + 1 .. Len(log) : ~Moves(k, p)
          PROVE  LoggedAt(p, s)'
      <3>1. i \in DOMAIN log' /\ Moves(i, p)' /\ log'[i].stage = s
        BY <1>1, <1>2, <2>2
      <3>2. \A k \in i + 1 .. Len(log') : ~Moves(k, p)'
        BY <1>1, <1>2, <1>3, <2>2
      <3> QED
        BY <3>1, <3>2 DEF LoggedAt
    <2> QED
      BY <1>3, <2>1, <2>2 DEF LoggedAt
  <1>4. ASSUME NEW n \in New, n = Len(log'), Moves(n, p)', log'[n].stage = s
        PROVE  LoggedAt(p, s)'
    <2>1. n + 1 .. Len(log') = {}
      BY <1>4, Indices
    <2> QED
      BY <1>1, <1>4, <2>1 DEF LoggedAt
  <1> QED
    BY <1>3, <1>4

\* No call moves a project behind the log's back.
THEOREM StageIsReplayed == Spec => []StageReplays
  <1> DEFINE Inv == \A p \in Projects : LoggedAt(p, stage[p])
  <1>1. Init => Inv
    BY DEF Init, LoggedAt
  <1>2. TypeOK /\ Inv /\ [Next]_vars => Inv'
    <2> SUFFICES ASSUME TypeOK, Inv, [Next]_vars, NEW p \in Projects
                 PROVE  LoggedAt(p, stage[p])'
      OBVIOUS
    <2>1. stage \in [Projects -> StageSet \cup {NoStage}]
      BY DEF TypeOK
    <2>2. ASSUME \A n \in New : ~Moves(n, p)', stage'[p] = stage[p]
          PROVE  LoggedAt(p, stage[p])'
      <3>1. PICK s : s = stage[p] /\ s = stage'[p]
        BY <2>2
      <3>2. LoggedAt(p, s)
        BY <3>1
      <3>3. LoggedAt(p, s)'
        BY <2>2, <3>2, MoveStep
      <3> QED
        BY <3>1, <3>3 DEF LoggedAt
    <2>3. ASSUME NEW n \in New, n = Len(log'), Moves(n, p)', log'[n].stage = stage'[p]
          PROVE  LoggedAt(p, stage[p])'
      <3>1. \A s : log'[n].stage = s => LoggedAt(p, s)'
        BY <2>3, MoveStep
      <3> QED
        BY <2>3, <3>1 DEF LoggedAt, Moves
    <2>4. ASSUME NEW q \in Projects, NEW type \in {"project.created", "state.transitioned"},
                 Adds1(Ev(type, q, stage'[q])), \A r \in Projects \ {q} : stage'[r] = stage[r]
          PROVE  LoggedAt(p, stage[p])'
      <3>1. /\ New = {Len(log) + 1} /\ Len(log') = Len(log) + 1
            /\ log'[Len(log) + 1] = Ev(type, q, stage'[q])
        BY <2>4, NewOf DEF Adds1
      <3>2. \A n \in New : (Moves(n, p)' <=> q = p) /\ log'[n].stage = stage'[q]
        BY <2>4, <3>1, EvFields DEF Moves
      <3> QED
        BY <2>2, <2>3, <2>4, <3>1, <3>2
    <2>5. ASSUME NEW q \in Projects, Advance(q)
          PROVE  LoggedAt(p, stage[p])'
      <3>1. /\ New = {Len(log) + 1, Len(log) + 2} /\ Len(log') = Len(log) + 2
            /\ Len(log) \in Nat
            /\ log'[Len(log) + 1] = Ev("gate.passed", q, stage[q])
            /\ log'[Len(log) + 2] = Ev("state.transitioned", q, NextStage(stage[q]))
        BY <2>5, CallAdds, NewOf DEF Adds2
      <3>2. stage' = [stage EXCEPT ![q] = NextStage(stage[q])]
        BY <2>5 DEF Advance
      <3>3. CASE q = p
        <4>1. \A n \in New : n = Len(log') => Moves(n, p)' /\ log'[n].stage = stage'[p]
          BY <2>1, <3>1, <3>2, <3>3, EvFields DEF Moves
        <4> QED
          BY <2>3, <3>1, <4>1
      <3>4. CASE q # p
        <4>1. \A n \in New : ~Moves(n, p)'
          BY <3>1, <3>4, EvFields DEF Moves
        <4> QED
          BY <2>1, <2>2, <3>2, <3>4, <4>1
      <3> QED
        BY <3>3, <3>4
    <2>6. ASSUME NEW q \in Projects, FailGate(q)
          PROVE  LoggedAt(p, stage[p])'
      <3> DEFINE failed == Ev("gate.failed", q, stage[q])
                 policy == Ev("governance.policy_triggered", q, stage[q])
                 outcome == Ev(IF FailedTwice(q) THEN "task.escalated" ELSE "state.loopback",
                               q, stage[q])
      <3>1. Adds2(failed, outcome) \/ Adds3(failed, policy, outcome)
        BY <2>6, FailAdds
      <3>2. \A n \in New : ~Moves(n, p)'
        BY <3>1, NewOf, EvFields DEF Moves
      <3> QED
        BY <2>2, <2>6, <3>2 DEF FailGate
    <2>7. ASSUME NEW q \in Projects, CreateProject(q) \/ ResolveEscalation(q) \/ Close(q)
          PROVE  LoggedAt(p, stage[p])'
      <3>1. /\ CreateProject(q) => stage'[q] = Stages[1]
            /\ ResolveEscalation(q) => stage'[q] = stage[q]
            /\ Close(q) => stage'[q] = Last
            /\ \A r \in Projects \ {q} : stage'[r] = stage[r]
        BY <2>1, <2>7 DEF CreateProject, ResolveEscalation, Close
      <3>2. \/ Adds1(Ev("project.created", q, stage'[q]))
            \/ Adds1(Ev("state.transitioned", q, stage'[q]))
        BY <2>7, <3>1, CallAdds
      <3> QED
        BY <2>4, <3>1, <3>2
    <2>8. ASSUME NEW q \in Projects, Unblock(q) \/ RecordLearning(q)
          PROVE  LoggedAt(p, stage[p])'
      <3>1. \E type \in EventType \ {"project.created", "state.transitioned"},
               s \in StageSet \cup {NoStage} : Adds1(Ev(type, q, s))
        <4>1. ASSUME Unblock(q) PROVE Adds1(Ev("gate.exception_granted", q, NoStage))
          BY <4>1, CallAdds
        <4>2. ASSUME RecordLearning(q)
              PROVE  \E type \in {"learning.report_ready", "knowledge.entry_merged"} :
                        Adds1(Ev(type, q, stage[q]))
          BY <4>2, CallAdds
        <4> QED
          BY <2>1, <2>8, <4>1, <4>2 DEF EventType
      <3>2. \A n \in New : ~Moves(n, p)'
        BY <3>1, NewOf, EvFields DEF Moves
      <3> QED
        BY <2>2, <2>8, <3>2 DEF Unblock, RecordLearning
    <2>9. ASSUME UNCHANGED <<log, stage>>
          PROVE  LoggedAt(p, stage[p])'
      BY <2>2, <2>9, SilentAdds
    <2> QED
      BY <2>5, <2>6, <2>7, <2>8, <2>9
      DEF Next, RunStage, GateRefused, LearningMissing, AbortRun, vars
  <1>3. Inv => StageReplays
    BY DEF StageReplays, LoggedAt
  <1> QED
    BY <1>1, <1>2, <1>3, LifecycleTyped, PTL DEF Spec

-----------------------------------------------------------------------------
(* The gates.                                                              *)

Approved(p, s) == artifacts[p][s]["approved"]

Position(s) == CHOOSE i \in DOMAIN Stages : Stages[i] = s

\* A position is that of one stage; the next stage follows, the last is the end.
LEMMA Positions ==
  /\ \A s \in StageSet : /\ Position(s) \in 1 .. Len(Stages)
                         /\ Stages[Position(s)] = s
  /\ Len(Stages) \in Nat /\ DOMAIN Stages = 1 .. Len(Stages)
  /\ \A s \in StageSet \ {Last} :
        /\ Position(s) < Position(Last)
        /\ NextStage(s) \in StageSet
        /\ Position(NextStage(s)) = Position(s) + 1
  <1>1. Len(Stages) \in Nat /\ DOMAIN Stages = 1 .. Len(Stages) /\ Len(Stages) > 1
    BY LifecycleAssumption
  <1>2. ASSUME NEW s \in StageSet
        PROVE  Position(s) \in 1 .. Len(Stages) /\ Stages[Position(s)] = s
    BY <1>1 DEF StageSet, Position
  <1>3. ASSUME NEW k \in DOMAIN Stages
        PROVE  Stages[k] \in StageSet /\ Position(Stages[k]) = k
    BY <1>1, LifecycleAssumption DEF StageSet, Position
  <1>4. Position(Last) = Len(Stages) /\ Last \in StageSet
    BY <1>1, <1>3 DEF Last
  <1>5. ASSUME NEW s \in StageSet \ {Last}
        PROVE  /\ Position(s) < Position(Last)
               /\ NextStage(s) \in StageSet
               /\ Position(NextStage(s)) = Position(s) + 1
    <2>1. /\ Position(s) \in 1 .. Len(Stages) /\ Stages[Position(s)] = s
          /\ Position(s) # Len(Stages)
      BY <1>2, <1>4, Zenon DEF Last
    <2>2. Position(s) + 1 \in DOMAIN Stages
      BY <1>1, <2>1
    <2>3. NextStage(s) = Stages[Position(s) + 1]
      BY DEF NextStage, Position
    <2> QED
      BY <1>1, <1>3, <1>4, <2>1, <2>2, <2>3
  <1> QED
    BY <1>1, <1>2, <1>5

\* Writing adds approved artifacts to the stage and takes none away.
LEMMA WriteApproves ==
  ASSUME TypeOK, NEW p \in Projects, NEW results, NEW n \in Nat, NEW drafts,
         stage[p] \in StageSet, Write(p, results, n, drafts)
  PROVE  /\ \A q \in Projects, s \in StageSet : Approved(q, s)' >= Approved(q, s)
         /\ artifacts'[p][stage[p]]["approved"] >=
               Cardinality({i \in 1 .. n : StateOf(results[i]) = "approved"})
  <1>0. Cardinality({i \in 1 .. n : StateOf(results[i]) = "approved"}) \in Nat
    <2>1. IsFiniteSet(1 .. n)
      BY FS_Interval
    <2>2. IsFiniteSet({i \in 1 .. n : StateOf(results[i]) = "approved"})
      BY <2>1, FS_Subset
    <2> QED
      BY <2>2, FS_CardinalityType
  <1> DEFINE here == artifacts[p][stage[p]]
             count(t) == Cardinality({i \in 1 .. n : StateOf(results[i]) = t})
             now == [t \in ArtifactState |->
                       here[t] + count(t) + IF t = "draft" THEN drafts ELSE 0]
  <1>1. /\ here["approved"] \in Nat
        /\ \A q \in Projects, s \in StageSet : Approved(q, s) \in Nat
    BY DEF TypeOK, Approved, ArtifactState
  <1>2. count("approved") \in Nat
    BY <1>0
  <1>3. now["approved"] = here["approved"] + count("approved") + 0
    BY DEF ArtifactState
  <1>4. artifacts' = [artifacts EXCEPT ![p] = [artifacts[p] EXCEPT ![stage[p]] = now]]
    BY DEF Write
  <1> HIDE DEF now, here, count
  <1>5. now["approved"] >= here["approved"] /\ now["approved"] >= count("approved")
    BY <1>1, <1>2, <1>3
  <1>6. \A q \in Projects, s \in StageSet :
          artifacts'[q][s] = IF q = p /\ s = stage[p] THEN now ELSE artifacts[q][s]
    BY <1>4 DEF TypeOK
  <1>7. \A q \in Projects, s \in StageSet : Approved(q, s)' >= Approved(q, s)
    BY <1>1, <1>5, <1>6 DEF Approved, here
  <1>8. artifacts'[p][stage[p]]["approved"] >= count("approved")
    BY <1>5, <1>6
  <1> QED
    BY <1>7, <1>8 DEF count

\* No call takes an approved artifact away.
LEMMA ApprovedStays ==
  ASSUME TypeOK, [Next]_vars
  PROVE  \A q \in Projects, s \in StageSet : Approved(q, s)' >= Approved(q, s)
  <1>1. \A q \in Projects, s \in StageSet : Approved(q, s) \in Nat
    BY DEF TypeOK, Approved, ArtifactState
  <1>2. ASSUME UNCHANGED artifacts
        PROVE  \A q \in Projects, s \in StageSet : Approved(q, s)' >= Approved(q, s)
    BY <1>1, <1>2 DEF Approved
  <1>3. ASSUME NEW p \in Projects, RunStage(p)
        PROVE  \A q \in Projects, s \in StageSet : Approved(q, s)' >= Approved(q, s)
    <2>1. stage[p] \in StageSet /\ stage[p] \in DOMAIN Tasks /\ Tasks[stage[p]] \in Nat
      BY <1>3, RunWrites, LifecycleAssumption
    <2>2. \E results, drafts : \E n \in Nat : Write(p, results, n, drafts)
      <3>1. ASSUME NEW results, RunTasks(p, results)
            PROVE  \E r, drafts : \E n \in Nat : Write(p, r, n, drafts)
        BY <2>1, <3>1 DEF RunTasks
      <3>2. ASSUME AbortRun(p)
            PROVE  \E r, drafts : \E n \in Nat : Write(p, r, n, drafts)
        BY <2>1, <3>2 DEF AbortRun
      <3> QED
        BY <1>3, <3>1, <3>2 DEF RunStage, Advance, GateRefused, LearningMissing, FailGate
    <2> QED
      BY <2>1, <2>2, WriteApproves
  <1> QED
    BY <1>2, <1>3
    DEF Next, CreateProject, ResolveEscalation, Close, Unblock, RecordLearning, vars

\* A gate in the log was passed at a stage the project has left for a later one,
\* with an approved artifact for each of its tasks.
Evident(i) ==
    log[i].type = "gate.passed" =>
      /\ log[i].project \in Projects
      /\ log[i].stage \in StageSet \ {Last}
      /\ stage[log[i].project] \in StageSet
      /\ Position(log[i].stage) < Position(stage[log[i].project])
      /\ Approved(log[i].project, log[i].stage) >= Tasks[log[i].stage]

Unrepeated(i) ==
    log[i].type = "gate.passed" => \A k \in DOMAIN log \ {i} : log[k] # log[i]

EvidenceInv == \A i \in DOMAIN log : Evident(i) /\ Unrepeated(i)

\* No call takes a project back to an earlier stage, or out of the list.
LEMMA StageForward ==
  ASSUME TypeOK, [Next]_vars, NEW p \in Projects, stage[p] \in StageSet
  PROVE  stage'[p] \in StageSet /\ Position(stage'[p]) >= Position(stage[p])
  <1>1. stage \in [Projects -> StageSet \cup {NoStage}] /\ NoStage \notin StageSet
    BY LifecycleAssumption DEF TypeOK
  <1>2. Last \in StageSet
    BY LifecycleAssumption DEF StageSet, Last
  <1>3. \A s \in StageSet : /\ Position(s) \in Nat
                           /\ Position(Last) >= Position(s)
    BY <1>2, Positions
  <1>4. \/ stage'[p] \in {stage[p], Last}
        \/ stage[p] # Last /\ stage'[p] = NextStage(stage[p])
    <2>1. ASSUME NEW q \in Projects, CreateProject(q) PROVE stage'[p] = stage[p]
      BY <1>1, <2>1 DEF CreateProject
    <2>2. ASSUME NEW q \in Projects, Close(q) PROVE stage'[p] \in {stage[p], Last}
      BY <1>1, <2>2 DEF Close
    <2>3. ASSUME NEW q \in Projects, Advance(q)
          PROVE  \/ stage'[p] = stage[p]
                 \/ stage[p] # Last /\ stage'[p] = NextStage(stage[p])
      <3>1. stage[q] # Last
        BY <2>3, RunWrites DEF RunStage
      <3>2. stage' = [stage EXCEPT ![q] = NextStage(stage[q])]
        BY <2>3 DEF Advance
      <3> QED
        BY <1>1, <3>1, <3>2
    <2>4. CASE UNCHANGED stage
      BY <2>4
    <2> QED
      BY <2>1, <2>2, <2>3, <2>4
      DEF Next, RunStage, GateRefused, LearningMissing, FailGate, AbortRun,
          ResolveEscalation, Unblock, RecordLearning, vars
  <1> QED
    BY <1>2, <1>3, <1>4, Positions

\* The gate that runStage() passes is evident in the state it leads to.
LEMMA GateEvident ==
  ASSUME TypeOK, NEW p \in Projects, Advance(p)
  PROVE  /\ stage[p] \in StageSet \ {Last}
         /\ stage'[p] \in StageSet /\ Position(stage[p]) < Position(stage'[p])
         /\ artifacts'[p][stage[p]]["approved"] >= Tasks[stage[p]]
  <1>1. /\ stage[p] \in StageSet \ {Last} /\ Tasks[stage[p]] \in Nat
        /\ stage' = [stage EXCEPT ![p] = NextStage(stage[p])]
    BY RunWrites, LifecycleAssumption DEF RunStage, Advance
  <1>2. stage'[p] = NextStage(stage[p])
    BY <1>1 DEF TypeOK
  <1>3. PICK results \in Results(stage[p]) : AllPassed(results) /\ RunTasks(p, results)
    BY DEF Advance
  <1> DEFINE n == Tasks[stage[p]]
  <1>4. {i \in 1 .. n : StateOf(results[i]) = "approved"} = 1 .. n
    <2>1. DOMAIN results = 1 .. n
      BY <1>3 DEF Results
    <2>2. \A i \in 1 .. n : results[i].passed
      BY <1>3, <2>1, Zenon DEF AllPassed
    <2>3. \A i \in 1 .. n : StateOf(results[i]) = "approved"
      BY <2>2, Zenon DEF StateOf
    <2> QED
      BY <2>3
  <1>5. Cardinality(1 .. n) = n
    BY <1>1, FS_Interval
  <1>6. artifacts'[p][stage[p]]["approved"] >= n
    <2>1. Write(p, results, n, 0)
      BY <1>3 DEF RunTasks
    <2> QED
      BY <1>1, <1>4, <1>5, <2>1, WriteApproves
  <1> QED
    BY <1>1, <1>2, <1>6, Positions

\* What the log says of a gate stays evident whatever happens next.
LEMMA EvidenceStays ==
  ASSUME TypeOK, [Next]_vars, NEW i \in DOMAIN log, Evident(i)
  PROVE  Evident(i)'
  <1> SUFFICES ASSUME NEW p, NEW s, p = log'[i].project, s = log'[i].stage,
                      log'[i].type = "gate.passed"
               PROVE  Evident(i)'
    BY DEF Evident
  <1>1. log'[i] = log[i]
    BY Indices
  <1>2. /\ p \in Projects /\ s \in StageSet \ {Last} /\ stage[p] \in StageSet
        /\ Position(s) < Position(stage[p]) /\ Approved(p, s) >= Tasks[s]
    BY <1>1 DEF Evident
  <1>3. stage'[p] \in StageSet /\ Position(stage'[p]) >= Position(stage[p])
    BY <1>2, StageForward
  <1>4. Approved(p, s)' >= Approved(p, s)
    BY <1>2, ApprovedStays
  <1>5. /\ Position(s) \in Nat /\ Position(stage[p]) \in Nat /\ Position(stage'[p]) \in Nat
        /\ Tasks[s] \in Nat /\ Approved(p, s) \in Nat /\ Approved(p, s)' \in Nat
    <2>1. Position(s) \in Nat /\ Position(stage[p]) \in Nat /\ Position(stage'[p]) \in Nat
      BY <1>2, <1>3, Positions
    <2>2. Tasks[s] \in Nat
      BY <1>2, LifecycleAssumption
    <2>3. artifacts' \in [Projects -> [StageSet -> [ArtifactState -> Nat]]]
      BY TypeStep DEF TypeOK
    <2>4. Approved(p, s) \in Nat
      BY <1>2 DEF TypeOK, Approved, ArtifactState
    <2>5. Approved(p, s)' \in Nat
      BY <1>2, <2>3 DEF Approved, ArtifactState
    <2> QED
      BY <2>1, <2>2, <2>4, <2>5
  <1>6. Position(s) < Position(stage'[p]) /\ Approved(p, s)' >= Tasks[s]
    BY <1>2, <1>3, <1>4, <1>5
  <1> QED
    BY <1>1, <1>2, <1>3, <1>6 DEF Evident, Approved

\* A gate is passed at most once, and with an approved artifact for every task of
\* its stage, whatever was failed or aborted before.
THEOREM GatesAreEvident == Spec => []GatesHaveEvidence
  <1>1. Init => EvidenceInv
    BY DEF Init, EvidenceInv
  <1>2. TypeOK /\ EvidenceInv /\ [Next]_vars => EvidenceInv'
    <2> SUFFICES ASSUME TypeOK, EvidenceInv, [Next]_vars
                 PROVE  EvidenceInv'
      OBVIOUS
    <2>1. /\ DOMAIN log' = DOMAIN log \cup New
          /\ \A i \in DOMAIN log : log'[i] = log[i] /\ i \notin New
      BY Indices DEF New
    <2>2. \A i \in DOMAIN log : Evident(i)' /\ Unrepeated(i) /\ Evident(i)
      BY EvidenceStays DEF EvidenceInv
    <2>3. ASSUME \A n \in New : log'[n].type # "gate.passed"
          PROVE  EvidenceInv'
      <3>1. ASSUME NEW i \in DOMAIN log' PROVE Evident(i)' /\ Unrepeated(i)'
        <4>1. CASE i \in New
          BY <2>3, <4>1 DEF Evident, Unrepeated
        <4>2. CASE i \in DOMAIN log
          BY <2>1, <2>2, <2>3, <4>2 DEF Unrepeated
        <4> QED
          BY <2>1, <4>1, <4>2
      <3> QED
        BY <3>1 DEF EvidenceInv
    <2>4. ASSUME NEW p \in Projects, Advance(p)
          PROVE  EvidenceInv'
      <3> DEFINE passed == Ev("gate.passed", p, stage[p])
      <3> PICK n : n = Len(log) + 1
        OBVIOUS
      <3>0. PICK m : m = n + 1
        OBVIOUS
      <3>1. /\ New = {n, m} /\ n # m
            /\ log'[n] = passed
            /\ log'[m] = Ev("state.transitioned", p, NextStage(stage[p]))
        BY <2>4, <3>0, CallAdds, NewOf DEF Adds2
      <3>2. /\ log'[n].type = "gate.passed" /\ log'[n].project = p /\ log'[n].stage = stage[p]
            /\ log'[m].type = "state.transitioned"
        BY <3>1, EvFields
      <3>3. Evident(n)'
        BY <2>4, <3>2, GateEvident DEF Evident, Approved
      <3>4. \A i \in DOMAIN log : log[i] # passed
        <4> SUFFICES ASSUME NEW i \in DOMAIN log, log[i] = passed
                     PROVE  FALSE
          OBVIOUS
        <4>1. /\ log[i].type = "gate.passed" /\ log[i].project = p
              /\ log[i].stage = stage[p]
          BY EvFields
        <4>2. Position(stage[p]) < Position(stage[p]) /\ stage[p] \in StageSet
          BY <2>2, <4>1 DEF Evident
        <4> QED
          BY <4>2, Positions
      <3>5. ASSUME NEW i \in DOMAIN log' PROVE Evident(i)' /\ Unrepeated(i)'
        <4>1. CASE i = n
          BY <2>1, <3>1, <3>2, <3>3, <3>4, <4>1 DEF Unrepeated
        <4>2. CASE i = m
          BY <3>2, <4>2 DEF Evident, Unrepeated
        <4>3. CASE i \in DOMAIN log
          BY <2>1, <2>2, <3>1, <3>2, <3>4, <4>3 DEF Unrepeated
        <4> QED
          BY <2>1, <3>1, <4>1, <4>2, <4>3
      <3> QED
        BY <3>5 DEF EvidenceInv
    <2>5. ASSUME NEW p \in Projects, FailGate(p)
          PROVE  EvidenceInv'
      <3>1. \A n \in New : log'[n].type # "gate.passed"
        BY <2>5, FailAdds, NewOf, EvFields
      <3> QED
        BY <2>3, <3>1
    <2>6. ASSUME NEW p \in Projects,
                 \/ CreateProject(p) \/ ResolveEscalation(p) \/ Close(p)
                 \/ Unblock(p) \/ RecordLearning(p)
          PROVE  EvidenceInv'
      <3>1. \E s : \E type \in EventType \ {"gate.passed"} : Adds1(Ev(type, p, s))
        BY <2>6, CallAdds DEF EventType
      <3>2. \A n \in New : log'[n].type # "gate.passed"
        BY <3>1, NewOf, EvFields
      <3> QED
        BY <2>3, <3>2
    <2>7. ASSUME UNCHANGED log PROVE EvidenceInv'
      BY <2>3, <2>7, SilentAdds
    <2> QED
      BY <2>4, <2>5, <2>6, <2>7
      DEF Next, RunStage, GateRefused, LearningMissing, AbortRun, vars
  <1>3. EvidenceInv => GatesHaveEvidence
    BY DEF EvidenceInv, Evident, Unrepeated, GatesHaveEvidence, Approved
  <1> QED
    BY <1>1, <1>2, <1>3, LifecycleTyped, PTL DEF Spec

=============================================================================
