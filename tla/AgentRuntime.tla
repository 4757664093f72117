---------------------------- MODULE AgentRuntime ----------------------------
(***************************************************************************)
(* Runs of agents (runtime/src/iep/agent-runtime.js, packages/agent-sdk).  *)
(* A run takes the agent's record, awaits its eight steps one after the    *)
(* other and writes the record's one state field as it goes; runs of one   *)
(* agent overlap, and register() may replace the record under them.  A run *)
(* through the SDK's own agent.run() has the same steps and no record.     *)
(***************************************************************************)
EXTENDS Naturals, Sequences

CONSTANTS
    Agents,     \* registrations of the one agent id, each a record
    NoAgent,
    Implements, \* the steps a registration implements
    Runs

\* AGENT_LIFECYCLE, and AGENT_STEPS of the SDK.
Steps == <<"initialize", "prepare", "buildContext", "execute", "validate",
           "publish", "learn", "shutdown">>

StepNames == {Steps[i] : i \in DOMAIN Steps}

Finished == Len(Steps) + 1

ASSUME AgentAssumption ==
    /\ NoAgent \notin Agents
    /\ Implements \in [Agents -> SUBSET StepNames]

VARIABLES
    known,      \* the record that #agents holds
    condition,  \* agent.state of each record
    runs        \* each run: how it was called, its record, the step it awaits,
                \* whether that is the shutdown after an error, its shutdowns

agentVars == <<known, condition, runs>>

RunRow ==
    [via : {"none", "runtime", "sdk"}, agent : Agents \cup {NoAgent},
     step : 0 .. Finished, failing : BOOLEAN, shutdowns : 0 .. 2]

AgentTypeOK ==
    /\ known \in Agents \cup {NoAgent}
    /\ condition \in [Agents -> {"absent", "registered", "running", "idle", "error"}]
    /\ runs \in [Runs -> RunRow]

NoRun == [via |-> "none", agent |-> NoAgent, step |-> 0, failing |-> FALSE, shutdowns |-> 0]

AgentInit ==
    /\ known = NoAgent
    /\ condition = [a \in Agents |-> "absent"]
    /\ runs = [r \in Runs |-> NoRun]

Awaiting(r) == runs[r].step \in DOMAIN Steps

-----------------------------------------------------------------------------
\* A later registration of the id replaces the record, not the runs on it.
Register(a) ==
    /\ condition[a] = "absent"
    /\ known' = a
    /\ condition' = [condition EXCEPT ![a] = "registered"]
    /\ UNCHANGED runs

\* A run takes the record it was called on, and awaits the first step.
Begun(via, agent) ==
    [via |-> via, agent |-> agent, step |-> 1, failing |-> FALSE, shutdowns |-> 0]

\* run(): of an unknown agent it throws before anything is written.
RunAgent(r) ==
    /\ runs[r] = NoRun /\ known # NoAgent
    /\ runs' = [runs EXCEPT ![r] = Begun("runtime", known)]
    /\ condition' = [condition EXCEPT ![known] = "running"]
    /\ UNCHANGED known

\* The run() of an agent that defineAgent() made.
RunDefined(r, a) ==
    /\ runs[r] = NoRun
    /\ runs' = [runs EXCEPT ![r] = Begun("sdk", a)]
    /\ UNCHANGED <<known, condition>>

\* Steps without an implementation have a default that cannot fail, but for
\* execute, which has none, and buildContext, which checks the token budget;
\* the SDK's run() skips what is missing, execute excepted.
MayPass(r) == ~(Steps[runs[r].step] = "execute" /\ "execute" \notin Implements[runs[r].agent])

MayThrow(r) ==
    LET step == Steps[runs[r].step] IN
    \/ step \in Implements[runs[r].agent]
    \/ step = "execute"
    \/ step = "buildContext" /\ runs[r].via = "runtime"

\* Shutdowns of a run, the one it now leaves included.
ShutDown(r) ==
    runs[r].shutdowns + (IF Steps[runs[r].step] = "shutdown" THEN 1 ELSE 0)

\* A run that ends writes the record's state, whatever others still run on it.
Ended(r, s) ==
    IF runs[r].via = "runtime" THEN [condition EXCEPT ![runs[r].agent] = s] ELSE condition

\* The step passes: on to the next, or the end of the run.
PassStep(r) ==
    /\ Awaiting(r) /\ MayPass(r) /\ ~runs[r].failing
    /\ runs' = [runs EXCEPT ![r].step = @ + 1, ![r].shutdowns = ShutDown(r)]
    /\ condition' = IF runs[r].step = Len(Steps) THEN Ended(r, "idle") ELSE condition
    /\ UNCHANGED known

\* Mutant: the record of a failed run keeps its state.
ThrowStepQuietly(r) ==
    /\ Awaiting(r) /\ MayThrow(r) /\ ~runs[r].failing
    /\ runs' = [runs EXCEPT ![r].step = Len(Steps), ![r].failing = TRUE, ![r].shutdowns = ShutDown(r)]
    /\ UNCHANGED <<known, condition>>

\* The step throws: the record is in error at once, and the runtime awaits a
\* best-effort shutdown before it rethrows; the SDK's run() just rejects.
ThrowStep(r) ==
    /\ Awaiting(r) /\ MayThrow(r) /\ ~runs[r].failing
    /\ runs' = [runs EXCEPT ![r].step = IF runs[r].via = "sdk" THEN Finished ELSE Len(Steps),
                            ![r].failing = TRUE,
                            ![r].shutdowns = ShutDown(r)]
    /\ condition' = Ended(r, "error")
    /\ UNCHANGED known

\* The best-effort shutdown, whose own error is swallowed.
ShutdownStep(r) ==
    /\ Awaiting(r) /\ runs[r].failing
    /\ runs' = [runs EXCEPT ![r].step = Finished, ![r].shutdowns = ShutDown(r)]
    /\ UNCHANGED <<known, condition>>

AgentNext ==
    \/ \E a \in Agents : Register(a) \/ \E r \in Runs : RunDefined(r, a)
    \/ \E r \in Runs : RunAgent(r) \/ PassStep(r) \/ ThrowStep(r) \/ ShutdownStep(r)

AgentSpec == AgentInit /\ [][AgentNext]_agentVars

-----------------------------------------------------------------------------
(* Properties.                                                             *)

\* A record that says it is running has a run in progress that has not failed,
\* although any run of several overlapping ones writes it (the converse fails:
\* the first to end calls the record idle while others run); and every run
\* the runtime took ends only after a shutdown, and after a second one only
\* when the first threw.
RunsSettle ==
    /\ \A a \in Agents : condition[a] = "running" =>
           \E r \in Runs : /\ runs[r].via = "runtime" /\ runs[r].agent = a
                           /\ Awaiting(r) /\ ~runs[r].failing
    /\ \A r \in Runs : runs[r].via = "runtime" /\ runs[r].step = Finished =>
           runs[r].shutdowns \in (IF runs[r].failing THEN 1 .. 2 ELSE {1})

=============================================================================
