------------------------------- MODULE IEPMC -------------------------------
(***************************************************************************)
(* Instances of IEP for TLC.  "first" and "second" share a resource;       *)
(* "after" runs elsewhere, is the most urgent and waits for "first".       *)
(***************************************************************************)
EXTENDS IEP, TLC

CONSTANTS first, second, after, stray, d1, d2, shared, own

DrainSymmetry == Permutations(Drains)

\* The whole core: "after" has a payload that cannot be cloned, "stray" has a
\* type nobody registered.
AllJobs == {first, second, after, stray}
AllPriority == [j \in AllJobs |-> IF j = after THEN 2 ELSE 1]
AllDeps == [j \in AllJobs |-> IF j = after THEN {first} ELSE {}]
AllAttempts == [j \in AllJobs |-> IF j = first THEN 2 ELSE 1]
AllResources == [j \in AllJobs |-> IF j \in {first, second} THEN shared ELSE own]

\* Two jobs contending for one resource.
PairJobs == {first, second}
PairPriority == [j \in PairJobs |-> 1]
PairDeps == [j \in PairJobs |-> {}]
PairAttempts == [j \in PairJobs |-> IF j = first THEN 2 ELSE 1]
PairShared == [j \in PairJobs |-> shared]

\* The same with a third that waits for both.
ChainJobs == {first, second, after}
ChainPriority == [j \in ChainJobs |-> IF j = after THEN 2 ELSE 1]
ChainDeps == [j \in ChainJobs |-> IF j = after THEN {first} ELSE {}]
ChainAttempts == [j \in ChainJobs |-> IF j = first THEN 2 ELSE 1]
ChainResources == [j \in ChainJobs |-> IF j = after THEN own ELSE shared]

=============================================================================
