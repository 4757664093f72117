-------------------------- MODULE PlatformServices --------------------------
(***************************************************************************)
(* The services over a project's data (runtime/src/services, the SDK's     *)
(* clients): versions of its DNA, the artifacts of the registry and their  *)
(* projection into the dependency graph, and the set of artifacts that     *)
(* are stale.  The event bus delivers within emit(), so that a put and     *)
(* everything its subscribers do is one step.                              *)
(*                                                                         *)
(* A section node of the graph is "dna:goals" when an artifact's           *)
(* derives_from named it, and "dna:p:goals" when DnaService did: the two   *)
(* never meet, so a DNA's own nodes lead to no artifact and the query over *)
(* the registry is what finds them.                                        *)
(***************************************************************************)
EXTENDS Naturals

CONSTANTS
    Pids,      \* projects
    Arts,      \* artifact ids
    ProjectOf, \* the project of an artifact
    Sections,  \* sections of a DNA
    Derives,   \* derives_from of an artifact
    Inputs,    \* inputs of an artifact, of any project
    MaxDna     \* bound on the versions of one DNA

ASSUME ServicesAssumption ==
    /\ ProjectOf \in [Arts -> Pids]
    /\ Derives \in [Arts -> SUBSET Sections]
    /\ Inputs \in [Arts -> SUBSET Arts]
    /\ MaxDna \in Nat

VARIABLES
    versions,  \* records of each project's DNA: 1.0.0, 1.0.1, ...
    approved,  \* the versions approved
    created,   \* projects the state machine knows
    produced,  \* artifacts in the registry, and hence in the graph
    stale,     \* #stale of the dependency graph service
    settledAt  \* the version an artifact was produced or cleared under

servicesVars == <<versions, approved, created, produced, stale, settledAt>>

ServicesTypeOK ==
    /\ versions \in [Pids -> 0 .. MaxDna]
    /\ approved \in [Pids -> SUBSET (1 .. MaxDna)]
    /\ created \subseteq Pids
    /\ produced \subseteq Arts
    /\ stale \in [Pids -> SUBSET Arts]
    /\ settledAt \in [Arts -> 0 .. MaxDna]

ServicesInit ==
    /\ versions = [p \in Pids |-> 0]
    /\ approved = [p \in Pids |-> {}]
    /\ created = {} /\ produced = {}
    /\ stale = [p \in Pids |-> {}]
    /\ settledAt = [a \in Arts |-> 0]

-----------------------------------------------------------------------------
(* Impact analysis.                                                        *)

ArtsOf(p) == {a \in produced : ProjectOf[a] = p}

\* byDnaSection().
Deriving(p, s) == {a \in ArtsOf(p) : s \in Derives[a]}

\* projectToGraph() has an edge from each artifact of the registry to each of
\* its inputs; graph.impact() follows the edges from the artifact on: what every
\* set holds that they do not lead out of.  (The walk ends at depth 32, which no
\* chain of inputs here comes near.)
ClosedUnderInputs(S) == \A a \in S \cap produced : Inputs[a] \subseteq S

Upstream(a) ==
    {b \in Arts : \A S \in SUBSET Arts : a \in S /\ ClosedUnderInputs(S) => b \in S}

\* The artifacts that a walk from a bare section node hits, in any project:
\* those that derive from it, and what those were made from.
FromSection(s) == UNION {Upstream(a) : a \in {b \in produced : s \in Derives[b]}}

\* impact() from the whole DNA.
ImpactOfDna(p) == ArtsOf(p)

-----------------------------------------------------------------------------
(* Operations.                                                             *)

\* Mutant: only a change of an approved DNA is announced.
AnnouncedIfApproved(p) == versions[p] \in approved[p]

\* Every version after the first is announced, approved or not.
Announced(p) == versions[p] > 0

\* DnaService.put() of a valid DNA; a later version is announced, and the
\* dependency graph marks what it affects.
PutDna(p) ==
    /\ versions[p] < MaxDna
    /\ versions' = [versions EXCEPT ![p] = @ + 1]
    /\ stale' = IF Announced(p) THEN [stale EXCEPT ![p] = @ \cup ImpactOfDna(p)]
                ELSE stale
    /\ UNCHANGED <<approved, produced, settledAt>>

UpdateDna(p) == PutDna(p) /\ UNCHANGED created

\* ProjectClient.create(): the DNA is stored before the state machine is
\* asked, which throws for a project it knows; the version stays.
Create(p) == PutDna(p) /\ created' = created \cup {p}

Approve(p, v) ==
    /\ v \in 1 .. versions[p]
    /\ approved' = [approved EXCEPT ![p] = @ \cup {v}]
    /\ UNCHANGED <<versions, created, produced, stale, settledAt>>

\* ArtifactRegistry.put() for a project the state machine knows, with the
\* projection that artifact.produced sets off.
Produce(a) ==
    /\ ProjectOf[a] \in created /\ a \notin produced
    /\ produced' = produced \cup {a}
    /\ settledAt' = [settledAt EXCEPT ![a] = versions[ProjectOf[a]]]
    /\ UNCHANGED <<versions, approved, created, stale>>

\* impact() asked for directly, from the DNA or from a section.
AskImpact(p, s) ==
    /\ \/ stale' = [stale EXCEPT ![p] = @ \cup ImpactOfDna(p)]
       \/ stale' = [stale EXCEPT ![p] = @ \cup Deriving(p, s)]
       \/ stale' = [stale EXCEPT ![p] = @ \cup Deriving(p, s) \cup FromSection(s)]
    /\ UNCHANGED <<versions, approved, created, produced, settledAt>>

ClearStale(a) ==
    /\ a \in stale[ProjectOf[a]] /\ a \in produced
    /\ stale' = [stale EXCEPT ![ProjectOf[a]] = @ \ {a}]
    /\ settledAt' = [settledAt EXCEPT ![a] = versions[ProjectOf[a]]]
    /\ UNCHANGED <<versions, approved, created, produced>>

ServicesNext ==
    \/ \E p \in Pids :
          \/ UpdateDna(p) \/ Create(p)
          \/ \E v \in 1 .. MaxDna : Approve(p, v)
          \/ \E s \in Sections : AskImpact(p, s)
    \/ \E a \in Arts : Produce(a) \/ ClearStale(a)

ServicesSpec == ServicesInit /\ [][ServicesNext]_servicesVars

-----------------------------------------------------------------------------
(* Properties.                                                             *)

\* An artifact made, or last cleared, under an older version of its project's
\* DNA is marked stale, whichever of the writers stored the newer version
\* (also a creation that then failed), and a project has DNA from the start.
DnaDrivesStaleness ==
    /\ \A p \in created : versions[p] > 0
    /\ \A a \in produced :
           settledAt[a] < versions[ProjectOf[a]] => a \in stale[ProjectOf[a]]

=============================================================================
