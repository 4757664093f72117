# Grabber AI Studio in TLA+

This directory holds TLA+ models of the parts of the repository in which order,
interleaving and failure decide whether the program is right, the TLC
configurations that check them on small instances, and TLAPS proofs of their
main properties for every instance. Every definition is a translation of
JavaScript (or TypeScript) source; `PROJECT.json` maps each to its lines.

    tlc -config IEP_core.cfg IEPMC.tla        model-check a configuration
    tlapm IEPProofs.tla                       check a proof module

## 1. Inventory

The repository has three layers that keep state: the *runtime*
(`src/runtime`), the *enterprise domain* (`src/packages/enterprise`) and the
*enterprise app* (`src/apps/enterprise`) that serves that domain over HTTP.
Around them are SDKs that wrap them, browser pages that show and drive them, a CLI,
and text generation.

| Part | State | Operations | Talks to | What is hard | What makes it correct |
|---|---|---|---|---|---|
| Job queue (`iep/queue.js`) | a map of job rows, a sorted list | enqueue, dequeue, complete, fail, cancel | executor (direct calls) | rows are rewritten by whoever settles them, whatever happened meanwhile | budget of attempts, dependencies, final states |
| Lock service (`iep/locks.js`) | resource → token, expiry | acquire, release, renew | executor | a lease lapses under a running handler; a late release | exclusion while leases last, no leaked lock |
| Executor, orchestrator, scheduler (`iep/executor.js`, `orchestrator.js`, `scheduler.js`) | nothing of their own but the runs in progress | runUntilIdle, run, schedule | queue, locks, recorder, metrics, bus | several drains interleave at one `await`; five places where `run()` may throw | a job in one handler at a time, nothing stranded, every run counted once, drains end |
| Project state machine (`state-machine/machine.js`) | stage, condition, failure counters per project | createProject, gatePassed, gateFailed, resolveEscalation, close | bus | calls that throw half way | stage moves only with evidence and with an event; escalation earned |
| Execution engine (`orchestration/execution-engine.js`) | none | runStage | machine, context, registry, validation, policy, bus | a stage is many steps, each may throw, none is undone | no gate without approved artifacts |
| Artifact registry, validation runtime, context engine | artifacts, rubrics, bundles | put, attachValidation, approve; validate; assemble | bus, machine (stageOf) | life cycle of an artifact under failing steps | only validated artifacts are approved |
| Policy engine (`policy/engine.js`) | blocks, open issues | evaluate (on every event), isBlocked, unblock | bus (subscriber), execution engine | runs inside another component's call | a block is set and lifted with an event |
| Event bus (`events/bus.js`) | append-only log | emit, replay, subscribe | everyone | synchronous delivery in the middle of calls | the log is the audit trail |
| Product factory (`factory/`), IEP cache and project memory | the artifacts of a build, a cache per builder | build, validate, deploy, regenerate | shared IEP | concurrent builds share one queue: a step serves whatever is first in it | a build gets its own artifacts, as long as nothing failed |
| Extension runtime (`extensions/`) | a record per extension | discover, load, validate, initialize, register, activate, monitor, unload, install, invoke | extension code (awaited), SDKs | state checked before an `await` and written after it | the published table of transitions; what is invoked was registered |
| Agent runtime (`iep/agent-runtime.js`, `agent-sdk`) | one state field per agent | register, run | agent code (awaited) | overlapping runs write the one field | no agent left "running"; every run is shut down |
| Services over the repository's data (`services/`), storage (`storage/`) | documents, a graph, a set of stale artifacts | put, approve, impact, ordering, queries | each other through the bus, SDK clients | loops over graphs with cycles, three writers of one DNA | staleness follows the DNA, no dangling reference, order and impact as documented |
| Engagement governance (`packages/enterprise/src/engagements.js`, `consulting.js`, `portal.js`) | one JSON record per engagement | create, analyse, design, commercial, advance, consulting calls, hand-off | file store | stages may be skipped and revisited; consulting calls keep a record across an LLM request | nothing enters the factory unapproved |
| Engagement mirror, payments (`apps/enterprise/src/lib`, `src/app/api`) | a file store per instance, a database | hydrate, mirror, webhook, convert | domain, Supabase, Stripe | several instances, stale copies, late and repeated webhooks | an acknowledged decision survives |
| Leads (`lib/production/leads.ts`, `api/leads`) | rows, files | insert, fall back to a file, hydrate, mirror, convert | Supabase, engagements | overlapping conversions hold a lead across an `import()`; restarts empty the files | a converted lead stays converted and names its engagement |
| Rate limit (`lib/production/rate-limit.ts`) | a bucket per key, in memory | checkRateLimit | the routes for leads, consulting and checkout | fixed windows meet, an instance loses its buckets | what is admitted is bounded, nobody is refused too early |
| Client portal (`app/portal/page.tsx`, `api/portal`, `api/checkout`) | the view shown, calls under way | load, pick a client, approve, confirm, note, ticket, pay | engagements, deliveries, authorization | answers arrive in any order while consultants change what they are about | no view the server takes back, nothing asked prematurely |
| Consultants' pages (`app/consult`, `app/(app)/business`) | the record of the last answer | every button of the three pages | `api/consulting`, `api/engagements` | a page shows a record that other pages and held calls overwrite | what is shown has come about and still is so |
| Voice dock (`components/jarvis-voice-dock.tsx`) | refs to a recognizer, flags | toggle, submit, navigate, the recognizer's callbacks | the browser's speech recognition | an old recognizer reports into a component that has made a new one | one microphone, and the button tells |
| Authentication, authorization (`middleware.ts`, `auth/`, `lib/auth`, `api/admin/users`) | accounts, sessions, tokens | authenticate, decide, sign in and out, give a role | every route | roles change between an answer and a decision; read-merge-write of metadata | nobody gets what was never given |
| Marketing, delivery, operations, KPIs | campaign, delivery and ticket records | single synchronous edits that look at no state | file store | long sequences of legal calls | a publication has its approval, the numbers their evidence |
| Content generation, LLM access, verifier, e-mail, telemetry, CLI, other pages | none that is decided on | pure functions, one request, output | the parts above | none of their own | not state |

JavaScript runs to completion between `await`s. In the runtime only handlers and
extension hooks are awaited; everything else is one indivisible call that can,
however, end in an exception at several places. In the app, routes await the language
model, the database and the payment service, and pages await the routes. The models
follow that grain: an action is the stretch of code between two awaits, with one of
its endings.

The hazards each line of code is exposed to are in `PROJECT.json`, each with the
properties that would catch it going wrong, or with what the properties permit of it
and why.

## 2. The Intelligent Execution Platform

Modules `JobQueue`, `LockService`, `IEP` (which composes them), `JobService`
(what the platform promises), `IEPMC` (instances) and `IEPProofs`.

*State.* `JobQueue` keeps the rows of `queue.js` (state, attempts, time of
enqueueing) and the logical clock that stands for `Date.now()`; sorted order is
not stored but defined (`Before`, `IsNext`). `LockService` keeps per resource the
token and the time left. `IEP` adds, per drain (one call of `runUntilIdle()`),
where it is: idle, between two iterations, or awaiting a handler of job `cur[d]`;
the age of that run, and totals of what recorder and metrics are told.

*Actions.* `Schedule` and `Cancel` are the clients, `Begin` starts a drain. One
iteration up to the `await` is one of `NoHandler`, `LockedOut`, `StartThrows`,
`DispatchThrows` or `Enter`, as `run()` ends early or reaches the handler. What
follows the `await` is `HandlerReturns`, `HandlerThrows` or `CompletedThrows` (a
subscriber of `task.completed` throws after the job was completed, and the catch
block fails it). `End` leaves the loop. `Tick` lets time pass, so that leases
lapse under slow handlers. A handler itself is external: it returns or throws.

*Inputs.* `Unhandled` are jobs of a type nobody registered, `Unclonable` those
whose payload makes `recorder.start()` throw (`structuredClone`), `Named` those
whose id the caller chose, and may choose again while the old run is going on.
`BusThrows` says whether a subscriber may throw.

| Run | Question | Bounds |
|---|---|---|
| `iep_core` | are budgets, ownership of rows and locks, and finality kept in every interleaving? | 4 jobs, 2 drains, 2 resources, lease 2 ticks, 2 steps per drain, 3 enqueues; all oddities at once |
| `iep_live` | does the core implement `JobService`, count every run once, end every drain, and serve what is runnable unless it ends at its limit? | 3 jobs with 4 attempts between them, 2 drains of 3 steps; callers that leave ids to the queue, cloneable payloads, a bus that does not throw |
| `iep_exclusive` | are locks exclusive, as `iep/README.md` says? No: nothing renews the lease of a slow handler | 2 jobs on one resource |
| `iep_idle` | does a drain end only when idle, as `orchestrator.js` says? No: a job without handler rejects the whole drain | 2 jobs, one unhandled |

Two drains show every pairwise interleaving (`SYMMETRY` over them is sound: they
are interchangeable, and the run with liveness does not use it). Two jobs on one
resource and a third depending on the first let lock contention, lapse,
re-dispatch and dependency meet; attempts 1 and 2 are the boundary of
`attempts >= maxAttempts`; a lease of 2 ticks separates "not lapsed", "lapses
during" and "lapsed". `MaxEnqueues` bounds the clock, `MaxSteps` is the code's
own parameter; in `iep_live` it is below the number of attempts that the jobs have, so
that a drain can end at its limit with work left.

*Fairness.* `WF` of each drain's steps: the event loop resumes every continuation
and a handler's promise settles. Nothing is assumed of clients and of time.

*Properties worth a word.* `RunningIsOwned`: a row says "running" only while a
drain is in its handler, so no job is stranded where neither `dequeue()` nor a
client looks. It holds except after `recorder.start()` threw, which the property
says by leaving the `Unclonable` jobs out. `SingleRun` holds whatever the
locks do, because the row itself excludes. `LeaseExclusion` is what is left of
exclusivity: two handlers meet on a resource only after a lease lapsed.
`FinalStates`: success and death are final, and a cancelled job comes back only
through the run it was in when it was cancelled. `KeepsPromise` is refinement of
`JobService`. `RunnableServed`: a job that is runnable while a drain is active is taken or
withdrawn, or else that drain ends with `maxSteps` steps taken; what it leaves then (the
factory passes 1) waits until somebody begins another drain, which nobody has to.

## 3. The project life cycle

Modules `ProjectLifecycle`, `ProjectLifecycleMC` and `LifecycleProofs`. The state
machine is modelled with everything that drives it: the execution engine's
`runStage()`, the validation runtime's reports, the registry's artifacts, the
policy engine's block and the event log.

*State.* `stage`, `escalated`, `failures` are the machine's; `blocked` the policy
engine's; `log` the bus's, restricted to the life-cycle events and without
payloads (task and artifact events are never read back); `artifacts` counts, per
project and stage, the artifacts that tasks have written by the state they are
in.

*Actions.* `RunStage` is `runStage()` by its five endings: `Advance` (gate
passed), `GateRefused` (`gatePassed()` throws, for the condition or the score),
`LearningMissing` (it throws later, for want of the learning report), `FailGate`
and `AbortRun` (a task throws). The others are the calls of the same names;
`RecordLearning` stands for the learning engine, which is outside the repository
and appears as the two events that `runtime/pilot/pilot.js` emits.

*Parameters.* The stage list, each stage's number of tasks, the workflow's
threshold for a task (`TaskGate`) and the machine's threshold for the gate
(`StageGate`): the code keeps the last two in different places, and they may
disagree.

| Run | Question | Bounds |
|---|---|---|
| `lifecycle_core` | do closure, escalation, block and gates agree with the event log after every call, however calls end? | 1 project, last 3 stages, scores 94, 95, 97, 100, 15 events, 4 artifacts |
| `lifecycle_twice` | do two consecutive failures of a gate escalate? No: a pass refused for want of the report resets the counter | same stages, 1 project |
| `lifecycle_idle` | does an escalated project accept no new tasks? No: only the gate is refused, afterwards | same |

Projects do not share state except the log, and every property is per project,
so one suffices for TLC (the proofs have any number). The three last stages are
those with rules of their own: security (its failure blocks), deployment (is
blocked) and closed (needs learning). The scores lie on both sides of the three
bounds: 95 of the policy, 96 of a task and 100 of deployment's gate, so a task can
fail with and without triggering the policy, and pass and yet leave the gate
refused. 15 events hold a run through the stages with failures, escalation,
exception and learning.

*Properties worth a word.* `StageReplays`: the stage can be read off the log;
it fails if some path sets the stage without an event. `BlockAudited`: the block
equals what the log says (triggered, and no exception since).
`GatesHaveEvidence`: a gate is passed at most once and only with approved
artifacts for all its tasks, in spite of aborted and refused runs before.
`EscalationEarned`: two failures of the gate it is still at.
There is no liveness here: every call is made by a person or a script that may
simply not call again.

## 4. Engagements

Modules `Engagement` (pure: what each call does to a record), `EngagementService`
(the copies of the record and who changes which, when), `EngagementMC` and
`EngagementProofs`.

*State.* A record keeps the governance stage, the approvals given, the Project
DNA, the DNA its commercial package was made for and how far its consulting has
come; `overwritten` are the approvals that a later call has signed again, with another
actor, date and amount; `approved` is added by the model, the DNA that stood when the
client approved. The governance history, which only grows and which nothing reads
but the pages that list it, is left out.
`files[i]` is the file store of an instance of the app, `database` the table of
engagements, `deposits` the table of deposits. `request[r]` is what a request in
progress waits for: the language model with the record it loaded (`"llm"`), the
table of deposits (`"deposit"`, then `"recorded"`), or the upsert of the rows it
read (`"upsert"`). `decided`, `acked`, `answered` and `logged` are what the people
involved know.

*Actions.* A handler runs up to its `await` in one action: `Create`, `Convert`,
`Touch` (comments, tickets, deliveries: only the mirror matters), `Edit` (the
analysis, design, quotation, intelligence and package calls), `Advance`, `Ask`,
`Webhook`. What follows is `Resume`, `RecordDeposit`, `AdvancePaid`, and, at the end
of all but `Convert`, `Land` or `Lose`: the upsert is applied or fails, and the
request is answered in either case. `Hydrate` is the first request on a cold
instance, `Recycle` the platform's end of one, whose upserts on the way may still
land.

| Run | Question | Bounds |
|---|---|---|
| `engagement_core` | is every copy a record that the rules allow, and what can lose an approval, move governance back or lose a payment? | 1 engagement, 2 instances, 2 requests in progress, 3 changing requests, 1 instance recycled, the store may fail |
| `engagement_dna` | does the factory get only an approved DNA? No: a design after the approvals keeps them | 1 instance, 1 request at a time, 2 designs |
| `engagement_durable` | does an answered approval survive? No: another instance mirrors its older file over it | 2 instances, 1 request at a time, the store does not fail |

Engagements never read each other and an upsert treats each row alike, so one is
enough for TLC. A database starts without it, with its discovery done, or waiting for
its deposit only: from these, three requests reach every step of consulting, a package
made anew, and deposit, hand-off and a repeated payment event in a row. Two instances and two
requests are what a stale copy takes to overwrite a newer one; a third adds
another copy as stale.

*Properties worth a word.* `CopiesSound`: a record is always loaded and saved
whole, so no copy mixes two histories, and what the gate to the factory reads is
consistent however old it is. `ApprovalsKept` and `StagesForward` say what is left
within one instance: only a consulting call that comes back with the record it held
while it waited undoes an approval, and governance goes back only with such a record
or where the work of a stage is done anew. `RepeatsContained`: a repeated payment event
moves no stage and gives no approval; at the deposit stage it is not harmless, though:
`advanceGovernance()` lets a stage be reached again, and the deposit is signed over with the
later event's date and amount. Beyond it, the record stays as it is. There is
no liveness here: a request is answered even if its work is lost.

## 5. The other parts of the runtime

One run, `runtime_parts` (`RuntimePartsMC`), explores the parts of the runtime that
share no state. Each behaviour runs one part while the others stay in their initial
states, so TLC sees the sum of the parts and not their product; the invariants of
all are checked in all.

**`ProductFactory`** is `build()` of `factory/product-factory.js` over the platform it
is given: the queue's order (`line`, `rows`), the executor's lock (`held`), the cache
of builder results, project memory, the ledger and the sessions. A builder's handler
is synchronous, so `Dispatch` goes from `schedule()` to the first `await` of
`runUntilIdle({maxSteps: 1})`, `Settle` is the rest of the executor's `run()`, and
`Accept` or `Fail` the continuation of `build()`. An artifact is modelled by its builder,
the DNA it was made for and the DNA that reached it through the artifact it reads, which
is all that telling a right one from a wrong one takes. `OwnUntilFailure`: until a first
step fails, every build gets the artifacts of its own DNA, also from the cache, so
that `regenerate()` finds them equal. After a failure the job that failed stays queued,
each later step serves the one before, and builds take one another's results.
`BacklogConserved` says that this never heals: every failed step leaves one job, for
good. Both are of a queue that builds have to themselves: the SDK's `IepClient` schedules
and drains the same one, which would take the job that a failure left, or a build's own.
*Bounds:* 3 interchangeable builds, 2 projects, 3 DNAs of which one makes a builder
throw, 2 builders of which the second reads the first, 2 attempts. Three builds are what
a failure, the build it shifts, and one shifted by that take.

**`ExtensionRuntime`** implements **`ExtensionContract`**, the table of transitions
published in `packages/common`. An operation is `Begin` (its check, and what it takes
from the record) and `Finish` or `HookFails`; without a hook the two are one step,
`Direct`. `Hooks` says which hooks the SDKs give the modules they make. Two calls on
one extension may both pass their checks; `ImplementsContract` holds because
`#transition()` looks at the state again. Exports are told apart by the module and
the call that made them, since every run of `initialize()` may make its own. Of an
extension that may be invoked `InvocableIsWired` says that its exports and those the
host was handed were made by the module loaded now, and that they are the same ones
unless two `initialize()` overlapped (`overrun`): the later one writes `rec.exports`
before `#transition()` refuses it, so that `invoke()` serves what no host was handed.
*Bounds:* 2 extensions, one depending on the other, 2 modules (plain objects, one with
every hook, one with none: what the SDKs make lies between), 2 calls in flight.

**`AgentRuntime`**: runs of one agent id, step by step, through the runtime and
through the SDK's `agent.run()`, with `register()` replacing the record under them.
`RunsSettle`: a record that says "running" has a run that has not failed, and a run
of the runtime ends only after a shutdown. The converse fails: the first of two
overlapping runs to end calls the record idle. `agent.run()` of the SDK does not shut
a failed run down, and the property claims nothing of it. *Bounds:* 2 registrations
with different steps implemented, 2 runs.

**`DependencyGraph`** has two loops, a step per turn: `orderTasks()` (Kahn's
algorithm) and `impact()` of the graph store (breadth first, bounded).
`LoopsCorrect` compares what they return with reference definitions (`Respectful`,
`Knotted`, `Within`) for *every* task list and graph over three ids, self-loops, cycles
and unknown dependencies included, and depths 1 and 2. `impact()` follows `depends_on`
from an artifact to its inputs.

**`PlatformServices`**: the versions of a project's DNA, which three writers store
(`DnaService`, `ProjectClient.create()`, an approval), the registry's artifacts, and the
set of stale ones. The bus delivers within `emit()`, so a put and its subscribers are
one step. `DnaDrivesStaleness` holds although the node "dna:goals" of an artifact and
"dna:p:goals" of the service never meet, because the registry is queried too; and
although `create()` stores DNA before `createProject()` may throw. *Bounds:* 2 projects,
3 artifacts, one reading another project's, 2 sections, 2 versions.

**`KnowledgeBase`**: rules, standards, decisions, capabilities, patterns and knowledge as
documents, nodes and edges. `ReferencesResolve`: in whatever order records are put, and
put again, every reference has its edge and no edge dangles. `applicable([])` of the
rules selects every rule, and the model says so. *Bounds:* one record of each kind.

Nothing waits in `runtime_parts`: calls come from callers who may not come, so there is
no liveness to state.

## 6. The app around the engagements

`app_parts` (`AppPartsMC`) does the same for the app: one part per behaviour, about
490,000 states in all. `ScreensHold` joins `PortalHolds`, `PagesHold` and `OneMic`.

**`AccessRules`** is `auth/permissions.ts` and `auth/roles.ts` as functions; a path stands
for all those the rules do not tell apart from it. **`AppAuth`** is what uses them: the
middleware in two steps, `Authenticate` (whose verification is awaited) and `Decide`; the
session that layouts and admin routes ask; sign-in, refresh, expiry; and
`api/admin/users`, which reads an account's metadata, merges and writes it (`ReadAccount`,
`WriteAccount`), beside another that does the same. `AccessEarned`: what was let through
was open to all, came from a service, or from an account that has or had a role for
it; and whom the pages take for the owner, the API takes for an administrator. The converse
fails: `enterprise_admin` is an administrator to the API and a client to the session. A
token outlives a role that was taken away, which is why the property says "had".
*Bounds:* an owner and a member, one role to give, an open and an admin path, own and
foreign origin, 2 administration requests.

**`ClientPortal`**: the page with its effects, the routes it calls, and consultants who
change the records and the deliveries meanwhile. `calls` are the page's calls under way,
answered in any order or not at all; `view` is what the last answer to arrive left.
`PortalHolds`: the page shows nothing that the server takes back and asks for an
acceptance only of a proposal that was made, for a deposit only once it was accepted.
There is one exception, which the property names: `markDeployed()` looks at no status, and
a deployment recorded after maintenance began takes the progress from 100 to 95. The
model leaves out consulting calls that hold a record across the language model, which do
take decisions back: that is `EngagementService.ApprovalsKept`. A client's account has
viewer access, so its posts to `api/portal` are refused (`Permitted`). *Bounds:* 3
engagements of 2 clients (accepted, proposed, reviewed), 2 deliveries (one deployed, one
to be made), 2 calls, 2 saves of records or deliveries, visitors with and without a linked
engagement.

**`ConsultPages`**: the public consult page, the page of one engagement and the desk, over
one instance of the server, with the held records (`holds`) and the engagements they were
saved over (`undone`). `PagesHold`: the stage shown, the package shown and a hand-off given
have come about and still are so, for engagements not in `undone`. *Bounds:* 2
engagements, 2 saves.

**`VoiceDock`**: up to 4 recognizers, each made when the page's context changes, each
reporting its results and its end whenever the browser likes. `OneMic`: only the current
one is live without having been stopped, and the button says "listening" only while
one has yet to end. It may say the opposite while one is live: when a recognizer fails
and another is started, the end of the first turns the button off. Commands such as "go to ops" are answered as topics of
knowledge, so by voice only the business and consult pages are reached; the stop branch of
`toggleListening` is never reached (`starting` stays set until the recognizer's end), so
the button cannot end the listening.

**`Growth`**: campaigns, deliveries, tickets and the numbers read off them. The calls look
at no state, so anything may follow anything: a deployment recorded during maintenance
sets the delivery back, a pipeline may be run again. `CountsEarned`: a publication has an
approval of its own, and what the dashboards count was earned; that a delivery is set
back concerns what the portal shows (above). `proposal_acceptance_rate`
is a quotient of two of the counts, may exceed 1, and is left out. *Bounds:* 2 items, 2
approvals and publications of each.

**`LeadIntake`**: a lead as a row, as a file after a failed insertion, in a mirror on its
way, and in the hands of a conversion. `LeadsHold`: a converted lead stays so while the
files live, and a copy that says converted names an engagement made from that lead.
Two conversions of one lead make two engagements, which the property allows and the
module says; a row inserted after hydration is not found until the next cold start.
*Bounds:* 2 leads, 2 conversions, 2 engagements, 1 restart, files in temporary storage or
on disk.

**`RateLimit`**: the calls of one key, against a bucket that is opened by the first of them
and lasts a window. The limit is per bucket and not per stretch of time: around the end
of one, calls of two buckets fall within one window, and a restarted instance (or another
one, which has its own memory) knows nothing of those before. `RateKept` says what is left: one
life of an instance admits at most twice the limit in any stretch as long as a window,
and refuses a call only if it has admitted as many as the limit within the last one.
*Bounds:* limit 2, window 2, time to 6, 3 calls counted per bucket, 2 lives; a stretch of time
can meet three buckets of two lives.

## 7. Proofs

Eight modules are checked by TLAPS to the last leaf. Every safety invariant and every
action property that a passing run checks is a theorem, for all values of the
constants, and so are the two refinements. They assume only the named assumptions on
the constants, which TLC evaluates in the runs; the composed modules `RuntimePartsMC` and
`AppPartsMC` are theorems too, by way of `PartsOfTheRuntime` and `PartsOfTheApp`: whatever
part runs, each part behaves as it does by itself.

| Module | Proves, for all constants |
|---|---|
| `IEPProofs` | typing, budgets, ownership of rows and locks, single runs, dependencies, lease exclusion, finality, refinement of `JobService`; every run counted once on a quiet bus |
| `LifecycleProofs` | typing, closure with learning, escalation earned, gates guarded; the stage and the block can be read off the log, every gate passed once and with its artifacts |
| `EngagementProofs` | typing, sound copies, payments accounted for, no approval that nobody gave; approvals kept, stages forward, repeated events contained |
| `GraphProofs` | both loops return what their reference definitions say, for every finite graph |
| `PartsProofs` | staleness follows the DNA, no dangling reference, the factory's backlog conserved, builds get their own artifacts until a failure |
| `RuntimeProofs` | refinement of `ExtensionContract`, what is invoked is wired, runs settle; typing of `RuntimePartsMC` |
| `PagesProofs` | what the portal and the consultants' pages show is so |
| `AppProofs` | access is earned, one microphone, numbers earned, leads hold, what the rate limit admits; screens and typing of `AppPartsMC` |

Some assumptions deserve a word. `DrainsAssumption` (finitely many calls of
`runUntilIdle()`) is there for the counting. `PagesAssumption` lets the pages be opened only
on sound records: those are what calls leave, which `CopiesAreSound` proves of every copy.
`GrowthAssumption` has `MaxUses` at least 1, a bound of the model.

*IEP.* The inductive invariant `IInv` joins typing with what the properties need
of one another. `SingleRun` is not inductive alone: that a second drain cannot
enter a running job needs `RunsInState` (the row of a run in progress says
running, or cancelled meanwhile), and that needs `DrainsConsistent`. Locks need
`LeaseHeld` (a run whose lease lasts owns the row, for exactly the time left),
since only a token match lets `Release` drop a lock. One lemma per group of
actions shows each preserves `IInv`; `FinalStates` and the refinement of
`JobService` (`ImplementsPromise`, for `Named = Unclonable = {}` and a quiet bus)
follow step by step under it. `RunsCountedOnce` (`BooksBalance`) is about
cardinalities: a step adds at most one drain to those in a handler, or takes one out
(`CountStep`), and the books move with it.

*Life cycle.* `CallAdds` says what each call appends to the log, and
`StepExtends` that a step only appends; then that an event once in the log stays
there. `ClosedMeansLearned` follows because both ways into the last stage ask
for the events. `EscalationEarned` needs that every counted failure is in the
log (`FailureLogged`): the counter is at most the number of failures logged for
that gate. `GatesGuarded` is by cases on the action that appends `gate.passed`.
The stage and the block are functions of the log that each appended event moves as the
call moves the variable; `GatesHaveEvidence` needs that the gates in the log lie before
the stage the project is at.

*Engagements.* `Good` is the set of sound records. One lemma per call says that it
leads from `Good` to `Good` (this is where the guards are used: `AdvancedGood`
needs what `assertFactoryEligible()` asked), and the inductive invariant says that
files, database, suspended requests and upserts on their way hold good records
only. `PaymentsAccounted` needs `PaymentInv`, which says the same of payments whose
webhook is still in progress. `ApprovalsDecided`, which is proved only, is the same argument with
"shows only approvals that were given" in the place of "good". The three action
properties go through the actions one by one: every call but `Resume` changes a file to
what a lemma says of the record in it, and the others leave warm files alone.

*Graphs.* The reference definitions are `Within`, a ball by rounds, and `Knotted`, a set of
tasks of which each waits for another one of them. `orderTasks()` keeps a sequence that respects the
dependencies, with counters equal to the dependencies still to come (`OrderInv`); what is
left when nothing is free is knotted, by taking a supposed order's first task of those
left (`Least`). `impact()` keeps a queue with levels that never fall and differ by at most
one (`Level`), and has seen exactly the ball around its start that the finished levels make
up (`Walk`). Induction over the rounds is by least counterexample (`LeastNat`): the
library's induction theorems take an operator, which the installed provers cannot
instantiate.

*Services, records, factory.* In `PlatformServices` a version is stored together with the
marks (`PutDnaKeeps`); `Upstream` is the least set closed under inputs and needs no
recursion. `BacklogConserved` needs a bijection: each step that fails leaves one queued
job and makes one loser, and no other step changes either count (`OneForOne`).
`OwnUntilFailure` needs that the queue is empty but for the job in hand (`OwnInv`), whence
the oldest job is the build's own, and that whatever the cache and the memory have was made
for the DNA it is filed under (`OwnCache`, `OwnMemory`).

*Extensions.* From validation on nobody can replace the module (`Late`), so what a call
took before its hook was made by the module that the extension has after it
(`CarriesWell`); exports that differ from the host's were written over others, which
`overrun` remembers. With this
`EffectMoves` shows that the end of an operation, whatever became of the extension
meanwhile, moves the state along the table or leaves it; the refinement follows.

*Agents, access.* `RowFits` counts the shutdowns of a run by the step it is at;
`RunningIsRun` names the run behind a record that runs. For the app, every copy of
a role (in an account, a token, an administration request) is of one the account has had
(`CopiesHeld`), and a request keeps what such a copy was worth (`RequestFits`).

*Pages.* A record grows (`Grown`): no call takes back an approval, a DNA, a quotation or a
step of the consulting, and lemmas show it of each (`AdvancedRecord`, `PackagedRecord`,
..). The invariant of the portal says that every view and every call on its way is of a
record that has grown into the present one (`StillSo`, `CallFits`), in whatever order they
arrive; of deliveries, that a finished one is finished still (`DeliveriesFit`), which is what
bounds the set-back. That of the consultants' pages says the same of every copy in a page, an answer or
the desk (`CopyFits`), unless the engagement was undone, which is what `Resume` records; it
also needs that a held record belongs to the call that waits for it (`HoldsFit`), so that
its answer is of the page's own engagement. `StageGrows` turns growth into the order of
the pipeline, and it is here that `Sound` must say that a record at the client's approval
has it.

*The rest of the app.* The dock: a recognizer beyond `count` is not made yet, and no other
than `current` is live and unstopped. The numbers: an item's publications, and one more if
it is approved, are at most its approvals (`Paired`), and each status has its evidence
(`StatusEarned`). The leads: the sequence of engagements made only grows, so every copy,
however old, names its own (`NamesItsOwn`, `OwnKept`). The rate limit: buckets of one life
are opened more than a window apart (`BucketsApart`), so a stretch of time meets two at most
(`TwoBuckets`), and each holds no more calls than the limit.

Out of the prover's reach, and left to TLC: liveness (`DrainsEnd`, `RunnableServed`), which
needs fairness and ENABLED. That the definitions the proofs start from are those of the
code is nothing a proof shows; the mutants of `PROJECT.json` are there for it.

## 8. Plan

Done, in this order: the IEP refining `JobService`; the project life cycle; the
engagements; the other parts of the runtime, with the extension runtime refining its
contract; the app around the engagements; proofs for all of them. What is left, by weight:

1. `PortalHolds` against `EngagementService` instead of a server that runs each call
   at once: the two share the record operations of `Engagement` already.
2. `runConsultingPipeline()`, which makes the modelled steps in one request and
   mirrors only at its end.

## 9. Not modelled

Text generation, rubrics, scores, prices, e-mail, files, logging, telemetry and the
command line: pure functions or plain I/O without an order that matters. The remaining
pages load a list once and show it, or post a form and load again.

In the IEP: the prompt cache, the cost figures, sessions and the replay
envelope, which control flow never reads; the lock's `renew()` and `isHeld()`,
which nobody calls. Two numbers are off in a way no property is about: the retry counter
misses the first retry of every job (`executor.js:145`), and the cache hits of a run are
differences of global counters across an `await` (`executor.js:65`).

In the life cycle: `supersede()` (no caller; `approve()` after it would revive the artifact,
`registry.js:65`), handlers other than the policy engine (one that throws leaves its
event delivered and the later handlers uncalled, `bus.js:19`), policies other than the
repository's one (one for every event would be evaluated on its own, `policy/engine.js:36`).

In the engagements: `runConsultingPipeline()`, the demo data, notifications, and the
configuration without a database, in which nothing is mirrored, and the governance
history. In the app: the accounts
themselves (Supabase's), redirects of pages, the audit log, tabs and filters, the lists
of documents and invoices and the activity timeline of the portal, the opening of the
dock's panel, and what is typed into forms. `runFullAnalysis()` of a business page and its
next steps show the page's own record, which the model has, and their texts, which it
leaves out. `PIPELINE_STAGES.match` has no reader.
