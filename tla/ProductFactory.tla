--------------------------- MODULE ProductFactory ---------------------------
(***************************************************************************)
(* The product factory (runtime/src/factory): build() turns a project's    *)
(* DNA into one artifact per builder.  For each builder in turn it         *)
(* schedules a job on the platform's shared queue, runs ONE step of that   *)
(* queue and takes the step's result for its own.  The pieces of the       *)
(* platform it goes through are here with the detail a build tells apart:  *)
(* the queue's order, the lock of the executor, the cache, project memory, *)
(* the cost ledger and the sessions.                                       *)
(*                                                                         *)
(* A handler of a builder is synchronous, so scheduling, dequeuing,        *)
(* locking and building are one step (Dispatch); the rest of Executor.run  *)
(* (Settle) and the continuation of build() (Accept, Throw) each follow an *)
(* await.  Nothing waits for a timer, so the lock, held across one await,  *)
(* never lapses.  Builds interleave freely, as concurrent callers do.      *)
(* They have the queue to themselves: other clients of the IEP, such as    *)
(* the SDK's IepClient, are not part of this module.                       *)
(***************************************************************************)
EXTENDS Naturals, Sequences, FiniteSets

CONSTANTS
    Builds,     \* calls of build()
    Projects,   \* project ids
    NoProject,
    Dnas,       \* normalised DNAs
    NoDna,
    Order,      \* BUILDER_ORDER
    Reads,      \* the prior artifact a builder's content is made from, or NoKey
    NoKey,
    Chokes,     \* the DNAs on which a builder throws (goals that are no array)
    Tries       \* maxAttempts of a job

Keys == {Order[i] : i \in DOMAIN Order}

ASSUME FactoryAssumption ==
    /\ NoDna \notin Dnas /\ NoProject \notin Projects /\ NoKey \notin Keys
    /\ Order \in Seq(Keys) /\ Order # <<>>
    /\ \A i, h \in DOMAIN Order : Order[i] = Order[h] => i = h
    /\ Reads \in [Keys -> Keys \cup {NoKey}]
    /\ \A i \in DOMAIN Order : Reads[Order[i]] # NoKey =>
           \E h \in 1 .. i - 1 : Order[h] = Reads[Order[i]]
    /\ Chokes \in [Keys -> SUBSET Dnas]
    /\ Tries \in Nat \ {0}

\* An artifact: its builder, the DNA it was built for, and the DNA whose
\* content reached it through the prior artifact it reads.
Artifact == [key : Keys, dna : Dnas, from : Dnas \cup {NoDna}]

NoArt == [key |-> NoKey, dna |-> NoDna, from |-> NoDna]

FactoryJobs == Builds \X Keys

VARIABLES
    want,      \* the DNA and the project each build was called with
    pc,        \* where each build stands
    at,        \* index in Order of the builder whose job it waits for
    ran,       \* the job that the step it waits for dequeued
    out,       \* what that step's handler returned, NoArt when it failed
    arts,      \* the artifacts it has accepted, by builder
    line,      \* #order of the queue: every priority is 100, so by age
    rows,      \* state and attempts of each job
    held,      \* locks held, by project and builder
    cache,     \* the artifact cached for a builder and a DNA
    memory,    \* project memory: the artifact of each builder
    ledger,    \* executions in the cost ledger
    sessions,  \* builds whose session is open
    deployed      \* what deploy() said of a product

factoryVars == <<want, pc, at, ran, out, arts, line, rows, held, cache, memory,
                 ledger, sessions, deployed>>

FactoryTypeOK ==
    /\ want \in [Builds -> [dna : Dnas \cup {NoDna}, project : Projects \cup {NoProject}]]
    /\ pc \in [Builds -> {"idle", "running", "settled", "done", "thrown"}]
    /\ at \in [Builds -> DOMAIN Order]
    /\ ran \in [Builds -> FactoryJobs]
    /\ out \in [Builds -> Artifact \cup {NoArt}]
    /\ arts \in [Builds -> [Keys -> Artifact \cup {NoArt}]]
    /\ line \in Seq(FactoryJobs)
    /\ rows \in [FactoryJobs ->
           [state : {"absent", "queued", "running", "succeeded", "dead"},
            attempts : Nat]]
    /\ held \subseteq Projects \X Keys
    /\ cache \in [Keys \X Dnas -> Artifact \cup {NoArt}]
    /\ memory \in [Projects \X Keys -> Artifact \cup {NoArt}]
    /\ ledger \in Nat
    /\ sessions \subseteq Builds
    /\ deployed \in [Builds -> {"unknown", "ready", "refused"}]

FactoryInit ==
    /\ want = [b \in Builds |-> [dna |-> NoDna, project |-> NoProject]]
    /\ pc = [b \in Builds |-> "idle"]
    /\ at = [b \in Builds |-> 1]
    /\ ran = [b \in Builds |-> <<b, Order[1]>>]
    /\ out = [b \in Builds |-> NoArt]
    /\ arts = [b \in Builds |-> [k \in Keys |-> NoArt]]
    /\ line = <<>>
    /\ rows = [j \in FactoryJobs |-> [state |-> "absent", attempts |-> 0]]
    /\ held = {}
    /\ cache = [c \in Keys \X Dnas |-> NoArt]
    /\ memory = [m \in Projects \X Keys |-> NoArt]
    /\ ledger = 0
    /\ sessions = {}
    /\ deployed = [b \in Builds |-> "unknown"]

-----------------------------------------------------------------------------
(* The builders: pure functions of the DNA and the artifact they read.     *)

\* What the content of artifact a passes on to the builder that reads it as
\* the artifact of key: a foreign one lacks the field and reads as empty.
Passed(a, key) == IF a.key = key THEN a.dna ELSE NoDna

Build(key, dna, prior) ==
    [key |-> key, dna |-> dna,
     from |-> IF Reads[key] = NoKey THEN NoDna ELSE Passed(prior[Reads[key]], Reads[key])]

\* What the builder makes of a DNA when every prior artifact is right.
Sound(key, dna) ==
    [key |-> key, dna |-> dna, from |-> IF Reads[key] = NoKey THEN NoDna ELSE dna]

-----------------------------------------------------------------------------
(* One step of the queue.                                                  *)

IsOldest(i, order, r) ==
    /\ r[order[i]].state = "queued"
    /\ \A h \in 1 .. i - 1 : r[order[h]].state # "queued"

\* fail() with retry: back to the queue until the attempts are spent.
Retried(row) ==
    [row EXCEPT !.state = IF row.attempts >= Tries THEN "dead" ELSE "queued"]

\* The resource Executor.run() locks for a job.
Lock(j) == <<want'[j[1]].project, j[2]>>

\* Mutant: the key of the cache names the builder alone.
CachedByBuilder(key, dna) ==
    IF \E d \in Dnas : cache[<<key, d>>] # NoArt
    THEN CHOOSE a \in Artifact : \E d \in Dnas : cache[<<key, d>>] = a ELSE NoArt

\* The key names the builder, the DNA and the keys of the prior artifacts,
\* which are those of the builders before it; not what they contain.
Cached(key, dna) == cache[<<key, dna>>]

\* The handler of a builder job and what it leaves in cache and memory.
Handle(b, j) ==
    LET dna == want'[j[1]].dna
        hit == Cached(j[2], dna)
        new == Build(j[2], dna, arts'[j[1]])
    IN  IF dna \in Chokes[j[2]]
        THEN /\ out' = [out EXCEPT ![b] = NoArt]
             /\ UNCHANGED <<cache, memory>>
        ELSE IF hit # NoArt
        THEN /\ out' = [out EXCEPT ![b] = hit]
             /\ UNCHANGED <<cache, memory>>
        ELSE /\ out' = [out EXCEPT ![b] = new]
             /\ cache' = [cache EXCEPT ![<<j[2], dna>>] = new]
             /\ memory' = [memory EXCEPT ![Lock(j)] = new]

\* schedule() and runUntilIdle({ maxSteps: 1 }) up to its first await: the
\* oldest queued job is started, or put back when its lock is held.
Dispatch(b, i) ==
    LET order == Append(line, <<b, Order[i]>>)
        r == [rows EXCEPT ![<<b, Order[i]>>] = [state |-> "queued", attempts |-> 0]]
    IN  \E n \in DOMAIN order :
            LET j == order[n]
                row == [state |-> "running", attempts |-> r[j].attempts + 1]
            IN  /\ IsOldest(n, order, r)
                /\ at' = [at EXCEPT ![b] = i]
                /\ line' = order
                /\ ran' = [ran EXCEPT ![b] = j]
                /\ IF Lock(j) \in held
                   THEN /\ pc' = [pc EXCEPT ![b] = "settled"]
                        /\ rows' = [r EXCEPT ![j] = Retried(row)]
                        /\ out' = [out EXCEPT ![b] = NoArt]
                        /\ UNCHANGED <<held, cache, memory>>
                   ELSE /\ pc' = [pc EXCEPT ![b] = "running"]
                        /\ rows' = [r EXCEPT ![j] = row]
                        /\ held' = held \cup {Lock(j)}
                        /\ Handle(b, j)

\* Executor.run() after the handler: the job is completed or put back, the
\* cost recorded, the lock released.
Settle(b) ==
    LET j == ran[b] IN
    /\ pc[b] = "running"
    /\ pc' = [pc EXCEPT ![b] = "settled"]
    /\ IF out[b] = NoArt
       THEN /\ rows' = [rows EXCEPT ![j] = Retried(rows[j])]
            /\ ledger' = ledger
       ELSE /\ rows' = [rows EXCEPT ![j].state = "succeeded"]
            /\ ledger' = ledger + 1
    /\ held' = held \ {<<want[j[1]].project, j[2]>>}
    /\ UNCHANGED <<want, at, ran, out, arts, line, cache, memory, sessions, deployed>>

-----------------------------------------------------------------------------
(* build().                                                                *)

Start(b, dna, project) ==
    /\ pc[b] = "idle"
    /\ want' = [want EXCEPT ![b] = [dna |-> dna, project |-> project]]
    /\ sessions' = sessions \cup {b}
    /\ UNCHANGED <<arts, ledger, deployed>>
    /\ Dispatch(b, 1)

\* Mutant: the failure of the step is not looked at.
AcceptsAny(b) == pc[b] = "settled"

\* The step's result is taken whichever job it was of.
Accepts(b) == pc[b] = "settled" /\ out[b] # NoArt

Accept(b) ==
    /\ Accepts(b)
    /\ arts' = [arts EXCEPT ![b][Order[at[b]]] = out[b]]
    /\ UNCHANGED <<want, ledger, deployed>>
    /\ \/ at[b] < Len(Order) /\ Dispatch(b, at[b] + 1) /\ UNCHANGED sessions
       \/ /\ at[b] = Len(Order)
          /\ pc' = [pc EXCEPT ![b] = "done"]
          /\ sessions' = sessions \ {b}
          /\ UNCHANGED <<at, ran, out, line, rows, held, cache, memory>>

\* The session stays open.
Fail(b) ==
    /\ pc[b] = "settled" /\ out[b] = NoArt
    /\ pc' = [pc EXCEPT ![b] = "thrown"]
    /\ UNCHANGED <<want, at, ran, out, arts, line, rows, held, cache, memory,
                   ledger, sessions, deployed>>

\* validate(): every slot filled, and the security slot with a passing score,
\* which only the artifact of the security builder has.
Valid(b) == \A k \in Keys : arts[b][k] # NoArt /\ (k = "security" => arts[b][k].key = k)

Deploy(b) ==
    /\ pc[b] = "done" /\ deployed[b] = "unknown"
    /\ deployed' = [deployed EXCEPT ![b] = IF Valid(b) THEN "ready" ELSE "refused"]
    /\ UNCHANGED <<want, pc, at, ran, out, arts, line, rows, held, cache, memory,
                   ledger, sessions>>

FactoryNext ==
    \E b \in Builds :
        \/ \E dna \in Dnas, p \in Projects : Start(b, dna, p)
        \/ Settle(b)
        \/ Accept(b)
        \/ Fail(b)
        \/ Deploy(b)

FactorySpec == FactoryInit /\ [][FactoryNext]_factoryVars

-----------------------------------------------------------------------------
(* Properties.                                                             *)

\* Some build has been handed a failed step.
Failure == \E b \in Builds : pc[b] \in {"settled", "thrown"} /\ out[b] = NoArt

\* Until the first failure every build takes the results of its own jobs, and
\* each is what its builder makes of its own DNA, also when the cache served
\* it: so two builds of one DNA (regenerate()) agree in every artifact, and
\* memory holds what some build of the project made.  After a failure the job
\* left in the queue shifts every later build onto other builds' results.
OwnUntilFailure ==
    ~Failure =>
        /\ \A b \in Builds, k \in Keys :
               arts[b][k] # NoArt => arts[b][k] = Sound(k, want[b].dna)
        /\ \A p \in Projects, k \in Keys : memory[<<p, k>>] # NoArt =>
               \E b \in Builds : /\ want[b] = [dna |-> memory[<<p, k>>].dna, project |-> p]
                                 /\ memory[<<p, k>>] = Sound(k, want[b].dna)

\* The jobs waiting in the queue are exactly those the failures left there:
\* one for every build handed a failed step, less those that are dead.  The
\* backlog, and with it the shift, never shrinks while builds succeed and
\* nobody else drains the queue.
BacklogConserved ==
    Cardinality({j \in FactoryJobs : rows[j].state = "queued"})
        + Cardinality({j \in FactoryJobs : rows[j].state = "dead"})
    = Cardinality({b \in Builds : pc[b] \in {"settled", "thrown"} /\ out[b] = NoArt})

=============================================================================
