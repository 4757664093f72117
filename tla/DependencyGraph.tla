--------------------------- MODULE DependencyGraph ---------------------------
(***************************************************************************)
(* Two loops over dependencies: orderTasks(), the DG-01 ordering of        *)
(* runtime/src/services/dependency-graph-service.js, and the breadth-first *)
(* impact() of runtime/src/storage/store.js that impact analysis walks     *)
(* with.  A step is one turn of the loop; the input, any task list or any  *)
(* graph over the given ids, is chosen at the start.                       *)
(***************************************************************************)
EXTENDS Naturals, Sequences, FiniteSets

CONSTANTS
    Tasks,     \* ids, numbers in the order of sort()
    External,  \* a dependency on no task of the list
    Depths     \* the values of maxDepth to try

ASSUME GraphAssumption ==
    /\ Tasks \subseteq Nat /\ External \notin Tasks
    /\ IsFiniteSet(Tasks)
    /\ Depths \subseteq Nat

VARIABLES
    loop,     \* which of the two runs: "order" or "impact"
    needs,    \* dependsOn of each task; the edges of each node
    waiting,  \* tempDeps: the dependencies not yet ordered
    ready,    \* the sorted list of tasks without any
    ordered,  \* tasks ordered; nodes hit
    front,    \* impact: the queue of nodes with their depths
    seen,     \* impact: the nodes expanded
    limit     \* impact: maxDepth

graphVars == <<loop, needs, waiting, ready, ordered, front, seen, limit>>

GraphTypeOK ==
    /\ loop \in {"order", "impact"}
    /\ needs \in [Tasks -> SUBSET (Tasks \cup {External})]
    /\ waiting \in [Tasks -> SUBSET Tasks]
    /\ ready \subseteq Tasks
    /\ ordered \in Seq(Tasks)
    /\ front \in Seq([id : Tasks, depth : Nat])
    /\ seen \subseteq Tasks
    /\ limit \in Depths \cup {0}

\* The dependencies on tasks that are in the list.
Known(t) == needs[t] \cap Tasks

Placed == {ordered[i] : i \in DOMAIN ordered}

-----------------------------------------------------------------------------
(* orderTasks().                                                           *)

OrderInit ==
    /\ loop = "order"
    /\ needs \in [Tasks -> SUBSET (Tasks \cup {External})]
    /\ waiting = [t \in Tasks |-> Known(t)]
    /\ ready = {t \in Tasks : Known(t) = {}}
    /\ ordered = <<>> /\ front = <<>> /\ seen = {} /\ limit = 0

\* Mutant: shift() from a list that is not sorted again.
IsAny(t) == t \in ready

IsFirst(t) == t \in ready /\ \A u \in ready : t <= u

\* A task is freed by the one that leaves it nothing to wait for.
Freed(t) == {u \in Tasks : t \in waiting[u] /\ waiting[u] = {t}}

OrderStep(t) ==
    /\ loop = "order" /\ IsFirst(t)
    /\ ordered' = Append(ordered, t)
    /\ waiting' = [u \in Tasks |-> waiting[u] \ {t}]
    /\ ready' = (ready \ {t}) \cup (Freed(t) \ (Placed \cup {t}))
    /\ UNCHANGED <<loop, needs, front, seen, limit>>

\* The loop has ended; fewer tasks than ids is the error DG-01.
OrderDone == loop = "order" /\ ready = {}

Cyclic == OrderDone /\ Len(ordered) # Cardinality(Tasks)

-----------------------------------------------------------------------------
(* impact() from one seed; edges are kept in the order of their targets.   *)

ImpactInit ==
    /\ loop = "impact"
    /\ needs \in [Tasks -> SUBSET Tasks]
    /\ waiting = [t \in Tasks |-> {}] /\ ready = {}
    /\ ordered = <<>> /\ seen = {}
    /\ limit \in Depths
    /\ \E s \in Tasks : front = <<[id |-> s, depth |-> 0]>>

\* The targets of node t that are pushed, one after the other.
Pushed(t, s, d) ==
    LET next == needs[t] \ s
        nth[i \in 1 .. Cardinality(next)] ==
            CHOOSE u \in next : Cardinality({v \in next : v < u}) = i - 1
    IN  [i \in 1 .. Cardinality(next) |-> [id |-> nth[i], depth |-> d]]

Skips(h) == h.id \in seen \/ h.depth > limit

ImpactStep ==
    /\ loop = "impact" /\ front # <<>>
    /\ LET h == Head(front) IN
       IF Skips(h)
       THEN /\ front' = Tail(front)
            /\ UNCHANGED <<ordered, seen>>
       ELSE /\ seen' = seen \cup {h.id}
            /\ ordered' = IF h.depth > 0 THEN Append(ordered, h.id) ELSE ordered
            /\ front' = Tail(front) \o Pushed(h.id, seen', h.depth + 1)
    /\ UNCHANGED <<loop, needs, waiting, ready, limit>>

ImpactDone == loop = "impact" /\ front = <<>>

GraphInit == OrderInit \/ ImpactInit

GraphNext == ImpactStep \/ \E t \in Tasks : OrderStep(t)

GraphSpec == GraphInit /\ [][GraphNext]_graphVars

-----------------------------------------------------------------------------
(* Properties.                                                             *)

\* Every task is preceded by what it depends on, and none is there twice.
Respectful ==
    \A i \in DOMAIN ordered :
        /\ Known(ordered[i]) \subseteq {ordered[h] : h \in 1 .. i - 1}
        /\ ordered[i] \notin {ordered[h] : h \in 1 .. i - 1}

\* Tasks of which each waits for another one of them.
Knotted(S) == S # {} /\ \A t \in S : Known(t) \cap S # {}

\* The order that orderTasks() returns puts every task behind what it depends
\* on, at each place the smallest id that may stand there, so that it is the
\* same for every run; and it throws exactly when the tasks hold a cycle.
OrderCorrect ==
    loop = "order" =>
        /\ Respectful
        /\ \A i \in DOMAIN ordered : \A t \in Tasks :
               /\ t \notin {ordered[h] : h \in 1 .. i}
               /\ Known(t) \subseteq {ordered[h] : h \in 1 .. i - 1}
               => ordered[i] < t
        /\ OrderDone => (Cyclic <=> \E S \in SUBSET Tasks : Knotted(S))

\* The nodes within d edges of the node that the walk began with.
Within(s, d) ==
    LET ball[n \in 0 .. d] ==
            IF n = 0 THEN {s} ELSE ball[n - 1] \cup UNION {needs[t] : t \in ball[n - 1]}
    IN  ball[d]

\* impact() hits each node within maxDepth of its seed exactly once, the seed
\* itself not, and nearer nodes before farther ones.
ImpactCorrect ==
    ImpactDone =>
        \E s \in Tasks :
            /\ seen \ Placed = {s}
            /\ Placed = Within(s, limit) \ {s}
            /\ \A i, h \in DOMAIN ordered : ordered[i] = ordered[h] => i = h
            /\ \A i, h \in DOMAIN ordered : \A d \in 0 .. limit :
                   i < h /\ ordered[h] \in Within(s, d) => ordered[i] \in Within(s, d)

\* Both loops return what they are asked for.
LoopsCorrect == OrderCorrect /\ ImpactCorrect

=============================================================================
