----------------------------- MODULE PartsProofs -----------------------------
(***************************************************************************)
(* Three parts of the runtime.                                             *)
(*                                                                         *)
(* The services: whatever versions of a DNA are stored and whatever        *)
(* artifacts are produced, every artifact made before the newest version   *)
(* is told to be stale.  The records: no reference of a record is ever     *)
(* lost from the graph.  The factory: the queue's backlog is as long as    *)
(* the builds that failed are many, and while none has failed every build  *)
(* has its own artifacts.  For any projects, artifacts, records and        *)
(* builders, any number of builds and any number of attempts of a job.     *)
(***************************************************************************)
EXTENDS ProductFactory, PlatformServices, KnowledgeBase, FiniteSetTheorems, TLAPS


-----------------------------------------------------------------------------
(* The services over a project's DNA and artifacts.                        *)

\* Artifacts are of projects that the state machine knows, and those have DNA.
ServicesInv ==
    /\ ServicesTypeOK
    /\ DnaDrivesStaleness
    /\ \A a \in produced : ProjectOf[a] \in created

\* Impact analysis never names what is no artifact.
LEMMA ImpactTyped ==
    ASSUME ServicesTypeOK, NEW p \in Pids, NEW s \in Sections
    PROVE  /\ ImpactOfDna(p) \subseteq Arts
           /\ Deriving(p, s) \subseteq Arts
           /\ FromSection(s) \subseteq Arts
  BY DEF ServicesTypeOK, ImpactOfDna, ArtsOf, Deriving, FromSection, Upstream

\* A version stored is one of which its project's artifacts are told.
LEMMA PutDnaKeeps ==
    ASSUME ServicesInv, NEW p \in Pids, PutDna(p),
           created' = created \/ created' = created \cup {p}
    PROVE  ServicesInv'
  <1>1. /\ versions \in [Pids -> 0 .. MaxDna] /\ versions[p] < MaxDna
        /\ versions' = [versions EXCEPT ![p] = versions[p] + 1]
        /\ stale \in [Pids -> SUBSET Arts]
        /\ produced' = produced /\ settledAt' = settledAt /\ approved' = approved
        /\ created \subseteq Pids
        /\ settledAt \in [Arts -> 0 .. MaxDna] /\ produced \subseteq Arts
        /\ ProjectOf \in [Arts -> Pids]
        /\ MaxDna \in Nat
    BY ServicesAssumption DEF ServicesInv, ServicesTypeOK, PutDna
  <1>2. /\ versions' \in [Pids -> 0 .. MaxDna]
        /\ \A q \in Pids : versions'[q] = IF q = p THEN versions[q] + 1 ELSE versions[q]
    BY <1>1
  <1>3. ImpactOfDna(p) \subseteq Arts
    BY <1>1 DEF ImpactOfDna, ArtsOf
  <1>4. /\ stale' \in [Pids -> SUBSET Arts]
        /\ \A q \in Pids : stale[q] \subseteq stale'[q]
        /\ Announced(p) => ImpactOfDna(p) \subseteq stale'[p]
    BY <1>1, <1>3 DEF PutDna
  <1>5. ServicesTypeOK'
    BY <1>1, <1>2, <1>4 DEF ServicesInv, ServicesTypeOK
  <1>6. \A q \in created' : versions'[q] > 0
    BY <1>1, <1>2 DEF ServicesInv, DnaDrivesStaleness
  <1>7. ASSUME NEW a \in produced, settledAt[a] < versions'[ProjectOf[a]]
        PROVE  a \in stale'[ProjectOf[a]]
    <2>1. ProjectOf[a] \in created /\ ProjectOf[a] \in Pids
      BY <1>1 DEF ServicesInv
    <2>2. CASE ProjectOf[a] = p
      <3>1. versions[p] > 0
        BY <2>1, <2>2 DEF ServicesInv, DnaDrivesStaleness
      <3> QED
        BY <1>4, <2>2, <3>1 DEF Announced, ImpactOfDna, ArtsOf
    <2>3. CASE ProjectOf[a] # p
      <3>1. settledAt[a] < versions[ProjectOf[a]]
        BY <1>2, <1>7, <2>1, <2>3
      <3>2. a \in stale[ProjectOf[a]]
        BY <3>1 DEF ServicesInv, DnaDrivesStaleness
      <3> QED
        BY <1>4, <2>1, <3>2
    <2> QED
      BY <2>2, <2>3
  <1>8. DnaDrivesStaleness'
    BY <1>1, <1>6, <1>7 DEF DnaDrivesStaleness
  <1>9. \A a \in produced' : ProjectOf[a] \in created'
    BY <1>1 DEF ServicesInv
  <1> QED
    BY <1>5, <1>8, <1>9 DEF ServicesInv

LEMMA ServicesStep == ServicesInv /\ [ServicesNext]_servicesVars => ServicesInv'
  <1> SUFFICES ASSUME ServicesInv, [ServicesNext]_servicesVars PROVE ServicesInv'
    OBVIOUS
  <1>0. /\ versions \in [Pids -> 0 .. MaxDna]
        /\ approved \in [Pids -> SUBSET (1 .. MaxDna)]
        /\ created \subseteq Pids /\ produced \subseteq Arts
        /\ stale \in [Pids -> SUBSET Arts]
        /\ settledAt \in [Arts -> 0 .. MaxDna]
        /\ ProjectOf \in [Arts -> Pids]
    BY ServicesAssumption DEF ServicesInv, ServicesTypeOK
  <1>1. ASSUME NEW p \in Pids, UpdateDna(p) \/ Create(p) PROVE ServicesInv'
    BY <1>1, PutDnaKeeps DEF UpdateDna, Create
  <1>2. ASSUME NEW p \in Pids, NEW v \in 1 .. MaxDna, Approve(p, v) PROVE ServicesInv'
    <2>1. approved' \in [Pids -> SUBSET (1 .. MaxDna)]
      BY <1>0, <1>2 DEF Approve
    <2> QED
      BY <1>2, <2>1 DEF Approve, ServicesInv, ServicesTypeOK, DnaDrivesStaleness
  <1>3. ASSUME NEW p \in Pids, NEW s \in Sections, AskImpact(p, s) PROVE ServicesInv'
    <2>1. /\ stale' \in [Pids -> SUBSET Arts]
          /\ \A q \in Pids : stale[q] \subseteq stale'[q]
      <3> PICK d, f, g : d = ImpactOfDna(p) /\ f = Deriving(p, s) /\ g = FromSection(s)
        OBVIOUS
      <3>1. d \subseteq Arts /\ f \subseteq Arts /\ g \subseteq Arts
        BY ImpactTyped DEF ServicesInv
      <3>2. \/ stale' = [stale EXCEPT ![p] = stale[p] \cup d]
            \/ stale' = [stale EXCEPT ![p] = stale[p] \cup f]
            \/ stale' = [stale EXCEPT ![p] = stale[p] \cup f \cup g]
        BY <1>3 DEF AskImpact
      <3> QED
        BY <1>0, <3>1, <3>2
    <2> QED
      BY <1>0, <1>3, <2>1 DEF AskImpact, ServicesInv, ServicesTypeOK, DnaDrivesStaleness
  <1>4. ASSUME NEW a \in Arts, Produce(a) PROVE ServicesInv'
    <2>1. /\ produced' = produced \cup {a} /\ a \notin produced
          /\ ProjectOf[a] \in created /\ ProjectOf[a] \in Pids
          /\ settledAt' = [settledAt EXCEPT ![a] = versions[ProjectOf[a]]]
          /\ UNCHANGED <<versions, approved, created, stale>>
      BY <1>0, <1>4 DEF Produce
    <2>2. versions[ProjectOf[a]] \in 0 .. MaxDna
      BY <1>0, <2>1
    <2>3. ServicesTypeOK'
      BY <1>0, <2>1, <2>2 DEF ServicesTypeOK
    <2>4. ASSUME NEW b \in produced', settledAt'[b] < versions[ProjectOf[b]]
          PROVE  b \in stale[ProjectOf[b]]
      <3>1. b # a
        BY <1>0, <2>1, <2>2, <2>4
      <3> QED
        BY <1>0, <2>1, <2>4, <3>1 DEF ServicesInv, DnaDrivesStaleness
    <2> QED
      BY <2>1, <2>3, <2>4 DEF ServicesInv, DnaDrivesStaleness
  <1>5. ASSUME NEW a \in Arts, ClearStale(a) PROVE ServicesInv'
    <2>1. /\ a \in produced /\ ProjectOf[a] \in Pids
          /\ stale' = [stale EXCEPT ![ProjectOf[a]] = stale[ProjectOf[a]] \ {a}]
          /\ settledAt' = [settledAt EXCEPT ![a] = versions[ProjectOf[a]]]
          /\ UNCHANGED <<versions, approved, created, produced>>
      BY <1>0, <1>5 DEF ClearStale
    <2>2. versions[ProjectOf[a]] \in 0 .. MaxDna
      BY <1>0, <2>1
    <2>3. ServicesTypeOK'
      BY <1>0, <2>1, <2>2 DEF ServicesTypeOK
    <2>4. ASSUME NEW b \in produced, settledAt'[b] < versions[ProjectOf[b]]
          PROVE  b \in stale'[ProjectOf[b]]
      <3>1. b # a
        BY <1>0, <2>1, <2>2, <2>4
      <3>2. b \in stale[ProjectOf[b]]
        BY <1>0, <2>1, <2>4, <3>1 DEF ServicesInv, DnaDrivesStaleness
      <3> QED
        BY <1>0, <2>1, <3>1, <3>2
    <2> QED
      BY <2>1, <2>3, <2>4 DEF ServicesInv, DnaDrivesStaleness
  <1>6. CASE UNCHANGED servicesVars
    BY <1>6 DEF servicesVars, ServicesInv, ServicesTypeOK, DnaDrivesStaleness
  <1> QED
    BY <1>1, <1>2, <1>3, <1>4, <1>5, <1>6 DEF ServicesNext

LEMMA ServicesAlways == ServicesSpec => []ServicesInv
  <1>1. ServicesInit => ServicesInv
    BY ServicesAssumption
       DEF ServicesInit, ServicesInv, ServicesTypeOK, DnaDrivesStaleness
  <1> QED
    BY <1>1, ServicesStep, PTL DEF ServicesSpec

\* Every store of the services keeps its type, whatever is stored, produced, settled
\* and approved.
THEOREM ServicesTyped == ServicesSpec => []ServicesTypeOK
  <1>1. ServicesInv => ServicesTypeOK
    BY DEF ServicesInv
  <1> QED
    BY <1>1, ServicesAlways, PTL

\* An artifact settled before the newest version of its project's DNA is told to be
\* stale: storing a version marks all that the impact analysis finds.
THEOREM StalenessFollowsDna == ServicesSpec => []DnaDrivesStaleness
  <1>1. ServicesInv => DnaDrivesStaleness
    BY DEF ServicesInv
  <1> QED
    BY <1>1, ServicesAlways, PTL

-----------------------------------------------------------------------------
(* The records of the platform.                                            *)

RecordsInv == KnowledgeTypeOK /\ ReferencesResolve

LEMMA RefsRecords == \A kind : Refs(kind) \subseteq Records
  BY DEF Refs, RuleRefs, DecisionRefs, CapabilityRefs, PatternRefs, KnowledgeRefs, Of

LEMMA PutKeeps ==
    ASSUME RecordsInv, NEW r \in Records, NEW refs \in SUBSET Refs(r[1]), Put(r, refs)
    PROVE  RecordsInv'
  <1>1. /\ refs \subseteq Records /\ refs # NoDoc
        /\ docs \in [Records -> {NoDoc} \cup SUBSET Records]
        /\ docs' = [docs EXCEPT ![r] = refs]
        /\ nodes' = nodes \cup {r} \cup refs
        /\ edges' = edges \cup EdgesOf(r, refs, nodes \cup {r} \cup refs)
        /\ binding' = binding
    BY RefsRecords, KnowledgeAssumption
       DEF RecordsInv, KnowledgeTypeOK, Put, NodesOf
  <1>2. /\ docs' \in [Records -> {NoDoc} \cup SUBSET Records]
        /\ \A s \in Records : docs'[s] = IF s = r THEN refs ELSE docs[s]
    BY <1>1
  <1>3. Stored' = Stored \cup {r}
    BY <1>1, <1>2 DEF Stored
  <1>4. EdgesOf(r, refs, nodes \cup {r} \cup refs) = {r} \X refs
    BY DEF EdgesOf
  <1>5. edges' = edges \cup ({r} \X refs)
    BY <1>1, <1>4
  <1>6. KnowledgeTypeOK'
    <2>1. nodes' \subseteq Records /\ edges' \subseteq Records \X Records
      BY <1>1, <1>5 DEF RecordsInv, KnowledgeTypeOK
    <2>2. indexed' \subseteq Stored'
      BY <1>3 DEF RecordsInv, KnowledgeTypeOK, Put
    <2>3. binding' \subseteq Of("rule") \cap Stored'
      BY <1>1, <1>3 DEF RecordsInv, KnowledgeTypeOK
    <2> QED
      BY <1>2, <2>1, <2>2, <2>3 DEF KnowledgeTypeOK, Of
  <1>7. ASSUME NEW s \in Stored'
        PROVE  s \in nodes' /\ \A t \in docs'[s] : <<s, t>> \in edges'
    <2>1. CASE s = r
      <3>1. s \in nodes' /\ docs'[s] = refs
        BY <1>1, <1>2, <2>1
      <3>2. \A t \in refs : <<s, t>> \in {r} \X refs
        BY <2>1
      <3> QED
        BY <1>5, <3>1, <3>2
    <2>2. CASE s # r
      <3>1. s \in Stored /\ s \in Records /\ docs'[s] = docs[s]
        BY <1>2, <1>3, <2>2 DEF Stored
      <3> QED
        BY <1>1, <3>1 DEF RecordsInv, ReferencesResolve
    <2> QED
      BY <2>1, <2>2
  <1>8. \A e \in edges' : e[1] \in nodes' /\ e[2] \in nodes'
    BY <1>1, <1>5 DEF RecordsInv, ReferencesResolve
  <1> QED
    BY <1>6, <1>7, <1>8 DEF RecordsInv, ReferencesResolve

LEMMA RecordsStep == RecordsInv /\ [KnowledgeNext]_knowledgeVars => RecordsInv'
  <1> SUFFICES ASSUME RecordsInv, [KnowledgeNext]_knowledgeVars PROVE RecordsInv'
    OBVIOUS
  <1>1. ASSUME NEW r \in Records, NEW refs \in SUBSET Refs(r[1]), Put(r, refs)
        PROVE  RecordsInv'
    BY <1>1, PutKeeps
  <1>2. ASSUME NEW kind \in Kinds, NEW entries \in SUBSET Of(kind), Retrieve(kind, entries)
        PROVE  RecordsInv'
    <2>1. /\ binding' \subseteq Of("rule") \cap Stored
          /\ UNCHANGED <<docs, nodes, edges, indexed>>
      <3> PICK rules : rules = Bound(kind, entries)
        OBVIOUS
      <3>1. \A r \in rules \cap Stored : r[1] = "rule"
        <4>1. CASE kind = "rule"
          BY <4>1 DEF Bound, Of
        <4>2. CASE kind = "decision"
          BY <4>2 DEF Bound
        <4>3. CASE kind \notin {"rule", "decision"}
          BY <4>3 DEF Bound, Of
        <4> QED
          BY <4>1, <4>2, <4>3
      <3>2. binding' = Applicable(rules)
        BY <1>2 DEF Retrieve
      <3>3. \A r \in rules \cap Stored : r \in Of("rule")
        BY <3>1 DEF Of, Stored
      <3>4. UNCHANGED <<docs, nodes, edges, indexed>>
        BY <1>2 DEF Retrieve
      <3> QED
        BY <3>2, <3>3, <3>4 DEF Applicable
    <2> QED
      BY <2>1 DEF RecordsInv, KnowledgeTypeOK, ReferencesResolve, Stored, Of
  <1>3. CASE UNCHANGED knowledgeVars
    BY <1>3 DEF knowledgeVars, RecordsInv, KnowledgeTypeOK, ReferencesResolve, Stored, Of
  <1> QED
    BY <1>1, <1>2, <1>3 DEF KnowledgeNext

LEMMA RecordsAlways == KnowledgeSpec => []RecordsInv
  <1>1. KnowledgeInit => RecordsInv
    BY DEF KnowledgeInit, RecordsInv, KnowledgeTypeOK, ReferencesResolve, Stored
  <1> QED
    BY <1>1, RecordsStep, PTL DEF KnowledgeSpec

\* Every store of the records keeps its type, whatever is put and retrieved.
THEOREM RecordsTyped == KnowledgeSpec => []KnowledgeTypeOK
  <1>1. RecordsInv => KnowledgeTypeOK
    BY DEF RecordsInv
  <1> QED
    BY <1>1, RecordsAlways, PTL

\* Every stored record is in the graph with an edge to each record it refers to, and no
\* edge dangles, for any records and any order of puts.
THEOREM ReferencesAlwaysResolve == KnowledgeSpec => []ReferencesResolve
  <1>1. RecordsInv => ReferencesResolve
    BY DEF RecordsInv
  <1> QED
    BY <1>1, RecordsAlways, PTL

-----------------------------------------------------------------------------
(* The product factory: where builds, jobs and the queue stand.            *)

\* A build that has been handed a failed step.
Failed(b) == pc[b] \in {"settled", "thrown"} /\ out[b] = NoArt

Called == [dna : Dnas, project : Projects]

\* What a build was called with, and which of its jobs there are yet.
CalledWith ==
    \A b \in Builds :
        IF pc[b] = "idle"
        THEN /\ want[b] = [dna |-> NoDna, project |-> NoProject]
             /\ arts[b] = [k \in Keys |-> NoArt]
        ELSE want[b] \in Called

Unscheduled ==
    \A b \in Builds, h \in DOMAIN Order :
        pc[b] = "idle" \/ h > at[b] => rows[<<b, Order[h]>>].state = "absent"

\* A job runs in one build's step, and is put back or completed from there only.
OneRunner ==
    /\ \A b \in Builds : pc[b] = "running" => rows[ran[b]].state = "running"
    /\ \A b, c \in Builds :
          pc[b] = "running" /\ pc[c] = "running" /\ ran[b] = ran[c] => b = c

FactoryInv == FactoryTypeOK /\ CalledWith /\ Unscheduled /\ OneRunner

RowType == [state : {"absent", "queued", "running", "succeeded", "dead"}, attempts : Nat]

\* The rows once the build has scheduled its job, and the row of a job started.
Enqueued(b, i) == [rows EXCEPT ![<<b, Order[i]>>] = [state |-> "queued", attempts |-> 0]]

Claimed(r, j) == [state |-> "running", attempts |-> r[j].attempts + 1]

LEMMA RetriedRow ==
    ASSUME NEW row \in RowType
    PROVE  Retried(row) \in RowType /\ Retried(row).state \in {"queued", "dead"}
  BY DEF Retried, RowType

\* The order of the builders names each once, and all of Keys.
LEMMA OrderKeys ==
    /\ \A i \in DOMAIN Order : Order[i] \in Keys
    /\ \A k \in Keys : \E i \in DOMAIN Order : k = Order[i]
    /\ DOMAIN Order = 1 .. Len(Order) /\ Len(Order) \in Nat /\ 1 \in DOMAIN Order
    /\ NoArt \notin Artifact
  <1>1. DOMAIN Order = 1 .. Len(Order) /\ Len(Order) \in Nat /\ Order # <<>>
    BY FactoryAssumption
  <1>2. 1 \in DOMAIN Order
    BY <1>1, FactoryAssumption
  <1>3. NoArt \notin Artifact
    BY FactoryAssumption DEF NoArt, Artifact
  <1> QED
    BY <1>1, <1>2, <1>3 DEF Keys

\* A job that is there is of a build that was called.
LEMMA JobOfCalled ==
    ASSUME FactoryInv, NEW j \in FactoryJobs, rows[j].state # "absent"
    PROVE  j[1] \in Builds /\ pc[j[1]] # "idle" /\ want[j[1]] \in Called
  <1>1. j[1] \in Builds /\ j[2] \in Keys /\ j = <<j[1], j[2]>>
    BY DEF FactoryJobs
  <1>2. PICK h \in DOMAIN Order : j[2] = Order[h]
    BY <1>1, OrderKeys
  <1>3. pc[j[1]] # "idle"
    BY <1>1, <1>2 DEF FactoryInv, Unscheduled
  <1> QED
    BY <1>1, <1>3 DEF FactoryInv, CalledWith

\* What Dispatch does: the build's own job is scheduled, a queued job j is taken, and
\* it is put back, its lock being held, or it is run.
LEMMA DispatchStep ==
    ASSUME FactoryTypeOK, NEW b \in Builds, NEW i \in DOMAIN Order, Dispatch(b, i),
           rows[<<b, Order[i]>>].state = "absent"
    PROVE  \E j \in FactoryJobs :
              /\ j = <<b, Order[i]>> \/ rows[j].state = "queued"
              /\ at' = [at EXCEPT ![b] = i]
              /\ ran' = [ran EXCEPT ![b] = j]
              /\ line' \in Seq(FactoryJobs)
              /\ rows' \in [FactoryJobs -> RowType]
              /\ \A k \in FactoryJobs : k # j /\ k # <<b, Order[i]>> => rows'[k] = rows[k]
              /\ j # <<b, Order[i]>> => rows'[<<b, Order[i]>>].state = "queued"
              /\ \/ /\ pc' = [pc EXCEPT ![b] = "settled"]
                    /\ rows'[j].state \in {"queued", "dead"}
                    /\ out' = [out EXCEPT ![b] = NoArt]
                    /\ UNCHANGED <<held, cache, memory>>
                 \/ /\ pc' = [pc EXCEPT ![b] = "running"]
                    /\ rows'[j].state = "running"
                    /\ held' = held \cup {Lock(j)}
                    /\ Handle(b, j)
  <1> PICK own : own = <<b, Order[i]>>
    OBVIOUS
  <1> PICK order : order = Append(line, own)
    OBVIOUS
  <1> PICK r : r = Enqueued(b, i)
    OBVIOUS
  <1>0. own \in FactoryJobs /\ rows \in [FactoryJobs -> RowType]
    BY OrderKeys DEF FactoryJobs, FactoryTypeOK, RowType
  <1>1. order \in Seq(FactoryJobs)
    BY <1>0 DEF FactoryTypeOK
  <1>2. /\ r \in [FactoryJobs -> RowType]
        /\ r[own].state = "queued"
        /\ \A k \in FactoryJobs : k # own => r[k] = rows[k]
    BY <1>0 DEF Enqueued, RowType
  <1>3. PICK n \in DOMAIN order :
           /\ IsOldest(n, order, r)
           /\ at' = [at EXCEPT ![b] = i]
           /\ line' = order
           /\ ran' = [ran EXCEPT ![b] = order[n]]
           /\ IF Lock(order[n]) \in held
              THEN /\ pc' = [pc EXCEPT ![b] = "settled"]
                   /\ rows' = [r EXCEPT ![order[n]] = Retried(Claimed(r, order[n]))]
                   /\ out' = [out EXCEPT ![b] = NoArt]
                   /\ UNCHANGED <<held, cache, memory>>
              ELSE /\ pc' = [pc EXCEPT ![b] = "running"]
                   /\ rows' = [r EXCEPT ![order[n]] = Claimed(r, order[n])]
                   /\ held' = held \cup {Lock(order[n])}
                   /\ Handle(b, order[n])
    BY DEF Dispatch, Enqueued, Claimed
  <1> PICK j : j = order[n]
    OBVIOUS
  <1>4. j \in FactoryJobs /\ r[j].state = "queued"
    BY <1>1, <1>3 DEF IsOldest
  <1>5. Claimed(r, j) \in RowType /\ Claimed(r, j).state = "running"
    BY <1>2, <1>4 DEF Claimed, RowType
  <1> PICK t : t = Claimed(r, j)
    OBVIOUS
  <1>6. Retried(t) \in RowType /\ Retried(t).state \in {"queued", "dead"}
    BY <1>5, RetriedRow
  <1>7. j = own \/ rows[j].state = "queued"
    BY <1>2, <1>4
  <1>8. \E w \in RowType :
           /\ rows' = [r EXCEPT ![j] = w]
           /\ \/ /\ pc' = [pc EXCEPT ![b] = "settled"]
                 /\ w.state \in {"queued", "dead"}
                 /\ out' = [out EXCEPT ![b] = NoArt]
                 /\ UNCHANGED <<held, cache, memory>>
              \/ /\ pc' = [pc EXCEPT ![b] = "running"]
                 /\ w.state = "running"
                 /\ held' = held \cup {Lock(j)}
                 /\ Handle(b, j)
    <2>1. CASE Lock(j) \in held
      BY <1>3, <1>6, <2>1
    <2>2. CASE Lock(j) \notin held
      BY <1>3, <1>5, <2>2
    <2> QED
      BY <2>1, <2>2
  <1>9. PICK w \in RowType :
           /\ rows' = [r EXCEPT ![j] = w]
           /\ \/ /\ pc' = [pc EXCEPT ![b] = "settled"]
                 /\ w.state \in {"queued", "dead"}
                 /\ out' = [out EXCEPT ![b] = NoArt]
                 /\ UNCHANGED <<held, cache, memory>>
              \/ /\ pc' = [pc EXCEPT ![b] = "running"]
                 /\ w.state = "running"
                 /\ held' = held \cup {Lock(j)}
                 /\ Handle(b, j)
    BY <1>8
  <1>10. /\ rows' \in [FactoryJobs -> RowType]
         /\ rows'[j] = w
         /\ \A k \in FactoryJobs : k # j /\ k # own => rows'[k] = rows[k]
         /\ j # own => rows'[own].state = "queued"
    BY <1>0, <1>2, <1>4, <1>9
  <1>11. /\ at' = [at EXCEPT ![b] = i]
         /\ ran' = [ran EXCEPT ![b] = j]
         /\ line' \in Seq(FactoryJobs)
    BY <1>1, <1>3
  <1> QED
    BY <1>4, <1>7, <1>9, <1>10, <1>11

\* What the handler of a job leaves is typed.
LEMMA HandleTyped ==
    ASSUME FactoryTypeOK, NEW b \in Builds, NEW j \in FactoryJobs, Handle(b, j),
           want'[j[1]] \in Called, arts' \in [Builds -> [Keys -> Artifact \cup {NoArt}]]
    PROVE  /\ \E v \in Artifact \cup {NoArt} : out' = [out EXCEPT ![b] = v]
           /\ cache' \in [Keys \X Dnas -> Artifact \cup {NoArt}]
           /\ memory' \in [Projects \X Keys -> Artifact \cup {NoArt}]
  <1> PICK dna, k, prior, p : /\ dna = want'[j[1]].dna /\ k = j[2]
                              /\ prior = arts'[j[1]] /\ p = want'[j[1]].project
    OBVIOUS
  <1>1. /\ dna \in Dnas /\ k \in Keys /\ p \in Projects
        /\ prior \in [Keys -> Artifact \cup {NoArt}]
    BY DEF Called, FactoryJobs
  <1>2. /\ cache \in [Keys \X Dnas -> Artifact \cup {NoArt}]
        /\ memory \in [Projects \X Keys -> Artifact \cup {NoArt}]
    BY DEF FactoryTypeOK
  <1>3. Build(k, dna, prior) \in Artifact
    <2>1. Reads[k] \in Keys \cup {NoKey}
      BY <1>1, FactoryAssumption
    <2>2. Reads[k] # NoKey => Passed(prior[Reads[k]], Reads[k]) \in Dnas \cup {NoDna}
      <3>1. \A a \in Artifact \cup {NoArt} : a.dna \in Dnas \cup {NoDna}
        BY DEF Artifact, NoArt
      <3> QED
        BY <1>1, <2>1, <3>1 DEF Passed
    <2> QED
      BY <1>1, <2>1, <2>2 DEF Build, Artifact
  <1>4. cache[<<k, dna>>] \in Artifact \cup {NoArt}
    BY <1>1, <1>2
  <1> PICK new, hit : new = Build(k, dna, prior) /\ hit = cache[<<k, dna>>]
    OBVIOUS
  <1>5. \/ /\ out' = [out EXCEPT ![b] = NoArt]
           /\ UNCHANGED <<cache, memory>>
        \/ /\ out' = [out EXCEPT ![b] = hit]
           /\ UNCHANGED <<cache, memory>>
        \/ /\ out' = [out EXCEPT ![b] = new]
           /\ cache' = [cache EXCEPT ![<<k, dna>>] = new]
           /\ memory' = [memory EXCEPT ![<<p, k>>] = new]
    BY DEF Handle, Cached, Lock
  <1>6. \E v \in Artifact \cup {NoArt} : out' = [out EXCEPT ![b] = v]
    <2>1. /\ NoArt \in Artifact \cup {NoArt} /\ hit \in Artifact \cup {NoArt}
          /\ new \in Artifact \cup {NoArt}
      BY <1>3, <1>4
    <2> QED
      BY <1>5, <2>1
  <1>7. cache' \in [Keys \X Dnas -> Artifact \cup {NoArt}]
    BY <1>1, <1>2, <1>3, <1>5
  <1>8. memory' \in [Projects \X Keys -> Artifact \cup {NoArt}]
    BY <1>1, <1>2, <1>3, <1>5
  <1> QED
    BY <1>6, <1>7, <1>8


\* What holds of a step of build() that dispatches, whether it is the first or not.
Scheduling(b, i) ==
    /\ Dispatch(b, i)
    /\ pc[b] # "running" /\ ~Failed(b)
    /\ \A h \in DOMAIN Order : h >= i => rows[<<b, Order[h]>>].state = "absent"
    /\ want' \in [Builds -> [dna : Dnas \cup {NoDna}, project : Projects \cup {NoProject}]]
    /\ want'[b] \in Called
    /\ \A c \in Builds : c # b \/ pc[c] # "idle" => want'[c] = want[c]
    /\ arts' \in [Builds -> [Keys -> Artifact \cup {NoArt}]]
    /\ \A c \in Builds : c # b => arts'[c] = arts[c]
    /\ sessions' \subseteq Builds
    /\ ledger' = ledger
    /\ deployed' = deployed

LEMMA StartSchedules ==
    ASSUME FactoryInv, NEW b \in Builds, NEW dna \in Dnas, NEW p \in Projects,
           Start(b, dna, p)
    PROVE  Scheduling(b, 1)
  <1>1. /\ pc[b] = "idle"
        /\ want \in [Builds -> [dna : Dnas \cup {NoDna}, project : Projects \cup {NoProject}]]
        /\ want' = [want EXCEPT ![b] = [dna |-> dna, project |-> p]]
        /\ sessions' = sessions \cup {b} /\ sessions \subseteq Builds
        /\ arts' = arts /\ ledger' = ledger /\ deployed' = deployed
        /\ Dispatch(b, 1)
        /\ arts \in [Builds -> [Keys -> Artifact \cup {NoArt}]]
    BY DEF Start, FactoryInv, FactoryTypeOK
  <1>2. \A h \in DOMAIN Order : rows[<<b, Order[h]>>].state = "absent"
    BY <1>1 DEF FactoryInv, Unscheduled
  <1>3. want'[b] = [dna |-> dna, project |-> p]
    BY <1>1
  <1>4. want'[b] \in Called
    BY <1>3 DEF Called
  <1>5. /\ want' \in [Builds -> [dna : Dnas \cup {NoDna}, project : Projects \cup {NoProject}]]
        /\ \A c \in Builds : c # b \/ pc[c] # "idle" => want'[c] = want[c]
    BY <1>1
  <1> QED
    BY <1>1, <1>2, <1>4, <1>5 DEF Scheduling, Failed

LEMMA AcceptSchedules ==
    ASSUME FactoryInv, NEW b \in Builds, Accepts(b),
           arts' = [arts EXCEPT ![b][Order[at[b]]] = out[b]],
           UNCHANGED <<want, ledger, deployed, sessions>>,
           at[b] < Len(Order), Dispatch(b, at[b] + 1)
    PROVE  at[b] + 1 \in DOMAIN Order /\ Scheduling(b, at[b] + 1)
  <1>1. /\ pc[b] = "settled" /\ out[b] # NoArt
        /\ at[b] \in DOMAIN Order /\ out[b] \in Artifact \cup {NoArt}
        /\ arts \in [Builds -> [Keys -> Artifact \cup {NoArt}]]
        /\ sessions \subseteq Builds
        /\ want \in [Builds -> [dna : Dnas \cup {NoDna}, project : Projects \cup {NoProject}]]
    BY DEF Accepts, FactoryInv, FactoryTypeOK
  <1>2. at[b] + 1 \in DOMAIN Order /\ Order[at[b]] \in Keys
    BY <1>1, OrderKeys
  <1>3. \A h \in DOMAIN Order : h >= at[b] + 1 => rows[<<b, Order[h]>>].state = "absent"
    BY <1>1, OrderKeys DEF FactoryInv, Unscheduled
  <1>4. want[b] \in Called
    BY <1>1 DEF FactoryInv, CalledWith
  <1>5. arts' = [arts EXCEPT ![b] = [arts[b] EXCEPT ![Order[at[b]]] = out[b]]]
    BY <1>1
  <1>6. /\ arts' \in [Builds -> [Keys -> Artifact \cup {NoArt}]]
        /\ \A c \in Builds : c # b => arts'[c] = arts[c]
    BY <1>1, <1>2, <1>5
  <1> QED
    BY <1>1, <1>2, <1>3, <1>4, <1>6 DEF Scheduling, Failed

LEMMA ScheduleInv ==
    ASSUME FactoryInv, NEW b \in Builds, NEW i \in DOMAIN Order, Scheduling(b, i)
    PROVE  FactoryInv'
  <1> PICK own : own = <<b, Order[i]>>
    OBVIOUS
  <1>0. /\ own \in FactoryJobs /\ rows[own].state = "absent" /\ FactoryTypeOK
        /\ Dispatch(b, i)
    BY OrderKeys DEF FactoryJobs, Scheduling, FactoryInv
  <1>1. PICK j \in FactoryJobs :
           /\ j = own \/ rows[j].state = "queued"
           /\ at' = [at EXCEPT ![b] = i]
           /\ ran' = [ran EXCEPT ![b] = j]
           /\ line' \in Seq(FactoryJobs)
           /\ rows' \in [FactoryJobs -> RowType]
           /\ \A k \in FactoryJobs : k # j /\ k # own => rows'[k] = rows[k]
           /\ j # own => rows'[own].state = "queued"
           /\ \/ /\ pc' = [pc EXCEPT ![b] = "settled"]
                 /\ rows'[j].state \in {"queued", "dead"}
                 /\ out' = [out EXCEPT ![b] = NoArt]
                 /\ UNCHANGED <<held, cache, memory>>
              \/ /\ pc' = [pc EXCEPT ![b] = "running"]
                 /\ rows'[j].state = "running"
                 /\ held' = held \cup {Lock(j)}
                 /\ Handle(b, j)
    BY <1>0, DispatchStep
  <1>2. want'[j[1]] \in Called /\ j[2] \in Keys
    <2>1. CASE j = own
      BY <1>0, <2>1, OrderKeys DEF Scheduling
    <2>2. CASE j # own
      <3>1. j[1] \in Builds /\ pc[j[1]] # "idle" /\ want[j[1]] \in Called
        BY <1>1, <2>2, JobOfCalled
      <3> QED
        BY <3>1 DEF Scheduling, FactoryJobs
    <2> QED
      BY <2>1, <2>2
  <1>3. /\ \E v \in Artifact \cup {NoArt} : out' = [out EXCEPT ![b] = v]
        /\ cache' \in [Keys \X Dnas -> Artifact \cup {NoArt}]
        /\ memory' \in [Projects \X Keys -> Artifact \cup {NoArt}]
        /\ held' \subseteq Projects \X Keys
    <2>1. CASE UNCHANGED <<held, cache, memory>> /\ out' = [out EXCEPT ![b] = NoArt]
      BY <1>0, <2>1 DEF FactoryTypeOK
    <2>2. CASE held' = held \cup {Lock(j)} /\ Handle(b, j)
      <3>1. Lock(j) \in Projects \X Keys
        BY <1>2 DEF Lock, Called
      <3>2. held' \subseteq Projects \X Keys
        BY <1>0, <2>2, <3>1 DEF FactoryTypeOK
      <3> QED
        BY <1>0, <1>2, <2>2, <3>2, HandleTyped DEF Scheduling
    <2> QED
      BY <1>1, <2>1, <2>2
  <1>4. PICK v \in Artifact \cup {NoArt} : out' = [out EXCEPT ![b] = v]
    BY <1>3
  <1>5. /\ pc \in [Builds -> {"idle", "running", "settled", "done", "thrown"}]
        /\ at \in [Builds -> DOMAIN Order]
        /\ ran \in [Builds -> FactoryJobs]
        /\ out \in [Builds -> Artifact \cup {NoArt}]
        /\ pc' = [pc EXCEPT ![b] = pc'[b]]
        /\ pc'[b] \in {"running", "settled"}
    BY <1>0, <1>1 DEF FactoryTypeOK
  <1>6. FactoryTypeOK'
    <2>1. /\ pc' \in [Builds -> {"idle", "running", "settled", "done", "thrown"}]
          /\ at' \in [Builds -> DOMAIN Order]
          /\ ran' \in [Builds -> FactoryJobs]
          /\ out' \in [Builds -> Artifact \cup {NoArt}]
      BY <1>1, <1>4, <1>5
    <2>2. /\ ledger' \in Nat
          /\ deployed' \in [Builds -> {"unknown", "ready", "refused"}]
      BY <1>0 DEF FactoryTypeOK, Scheduling
    <2> QED
      BY <1>1, <1>3, <2>1, <2>2 DEF FactoryTypeOK, RowType, Scheduling
  <1>7. /\ \A c \in Builds : c # b => pc'[c] = pc[c] /\ at'[c] = at[c] /\ ran'[c] = ran[c]
        /\ at'[b] = i /\ ran'[b] = j
    BY <1>1, <1>5
  <1>8. CalledWith'
    BY <1>5, <1>7 DEF CalledWith, Scheduling, FactoryInv
  <1>9. Unscheduled'
    <2> SUFFICES ASSUME NEW c \in Builds, NEW h \in DOMAIN Order,
                        pc'[c] = "idle" \/ h > at'[c]
                 PROVE  rows'[<<c, Order[h]>>].state = "absent"
      BY DEF Unscheduled
    <2> PICK k : k = <<c, Order[h]>>
      OBVIOUS
    <2>1. rows[k].state = "absent" /\ k # own
      <3>1. CASE c = b
        <4>1. h > i /\ h >= i
          BY <1>5, <1>7, <3>1, OrderKeys
        <4>2. Order[h] # Order[i]
          BY <4>1, OrderKeys, FactoryAssumption
        <4> QED
          BY <3>1, <4>1, <4>2 DEF Scheduling
      <3>2. CASE c # b
        BY <1>7, <3>2 DEF FactoryInv, Unscheduled
      <3> QED
        BY <3>1, <3>2
    <2>2. k \in FactoryJobs
      BY OrderKeys DEF FactoryJobs
    <2>3. k # j
      BY <1>1, <2>1
    <2> QED
      BY <1>1, <2>1, <2>2, <2>3
  <1>10. OneRunner'
    <2>1. \A c \in Builds : c # b /\ pc'[c] = "running" =>
             rows[ran[c]].state = "running" /\ ran'[c] = ran[c]
      BY <1>7 DEF FactoryInv, OneRunner
    <2>2. \A c \in Builds : c # b /\ pc'[c] = "running" =>
             /\ ran[c] \in FactoryJobs /\ ran[c] # j /\ ran[c] # own
             /\ rows'[ran[c]].state = "running"
      BY <1>0, <1>1, <1>5, <2>1
    <2>3. pc'[b] = "running" => rows'[ran'[b]].state = "running"
      BY <1>1, <1>5, <1>7
    <2> QED
      BY <1>7, <2>1, <2>2, <2>3 DEF FactoryInv, OneRunner
  <1> QED
    BY <1>6, <1>8, <1>9, <1>10 DEF FactoryInv

\* The rows that a build's step leaves when it settles.
LEMMA SettleRows ==
    ASSUME FactoryInv, NEW b \in Builds, Settle(b)
    PROVE  /\ ran[b] \in FactoryJobs /\ rows[ran[b]].state = "running"
           /\ rows' \in [FactoryJobs -> RowType]
           /\ \A k \in FactoryJobs : k # ran[b] => rows'[k] = rows[k]
           /\ out[b] = NoArt => rows'[ran[b]].state \in {"queued", "dead"}
           /\ out[b] # NoArt => rows'[ran[b]].state = "succeeded"
  <1> PICK j : j = ran[b]
    OBVIOUS
  <1>1. /\ j \in FactoryJobs /\ rows \in [FactoryJobs -> RowType]
        /\ rows[j].state = "running"
    BY DEF FactoryInv, FactoryTypeOK, OneRunner, RowType, Settle
  <1>2. rows[j] \in RowType
    BY <1>1
  <1>3. CASE out[b] = NoArt
    <2>1. rows' = [rows EXCEPT ![j] = Retried(rows[j])]
      BY <1>3 DEF Settle
    <2>2. Retried(rows[j]) \in RowType /\ Retried(rows[j]).state \in {"queued", "dead"}
      BY <1>2, RetriedRow
    <2> QED
      BY <1>1, <1>3, <2>1, <2>2
  <1>4. CASE out[b] # NoArt
    <2>1. rows' = [rows EXCEPT ![j] = [rows[j] EXCEPT !.state = "succeeded"]]
      BY <1>4 DEF Settle
    <2>2. /\ [rows[j] EXCEPT !.state = "succeeded"] \in RowType
          /\ [rows[j] EXCEPT !.state = "succeeded"].state = "succeeded"
      BY <1>2 DEF RowType
    <2> QED
      BY <1>1, <1>4, <2>1, <2>2
  <1> QED
    BY <1>1, <1>3, <1>4

LEMMA SettleInv ==
    ASSUME FactoryInv, NEW b \in Builds, Settle(b)
    PROVE  FactoryInv'
  <1>1. /\ pc[b] = "running" /\ pc' = [pc EXCEPT ![b] = "settled"]
        /\ UNCHANGED <<want, at, ran, out, arts, line, cache, memory, sessions, deployed>>
        /\ held' \subseteq held /\ ledger' \in {ledger, ledger + 1}
    BY DEF Settle
  <1>2. /\ pc' \in [Builds -> {"idle", "running", "settled", "done", "thrown"}]
        /\ \A c \in Builds : c # b => pc'[c] = pc[c]
        /\ pc'[b] = "settled"
    BY <1>1 DEF FactoryInv, FactoryTypeOK
  <1>3. FactoryTypeOK'
    BY <1>1, <1>2, SettleRows DEF FactoryInv, FactoryTypeOK, RowType
  <1>4. CalledWith'
    BY <1>1, <1>2 DEF FactoryInv, CalledWith
  <1>5. Unscheduled'
    <2> SUFFICES ASSUME NEW c \in Builds, NEW h \in DOMAIN Order,
                        pc'[c] = "idle" \/ h > at[c]
                 PROVE  rows'[<<c, Order[h]>>].state = "absent"
      BY <1>1 DEF Unscheduled
    <2>1. rows[<<c, Order[h]>>].state = "absent"
      BY <1>1, <1>2 DEF FactoryInv, Unscheduled
    <2>2. <<c, Order[h]>> \in FactoryJobs /\ <<c, Order[h]>> # ran[b]
      BY <2>1, SettleRows, OrderKeys DEF FactoryJobs
    <2> QED
      BY <2>1, <2>2, SettleRows
  <1>6. OneRunner'
    <2>1. \A c \in Builds : pc'[c] = "running" =>
             /\ c # b /\ pc[c] = "running" /\ ran[c] # ran[b] /\ ran[c] \in FactoryJobs
             /\ rows[ran[c]].state = "running"
      BY <1>1, <1>2 DEF FactoryInv, FactoryTypeOK, OneRunner
    <2>2. \A c \in Builds : pc'[c] = "running" => rows'[ran[c]].state = "running"
      BY <2>1, SettleRows
    <2> QED
      BY <1>1, <2>1, <2>2 DEF FactoryInv, OneRunner
  <1> QED
    BY <1>3, <1>4, <1>5, <1>6 DEF FactoryInv

\* The steps that leave the queue alone.
LEMMA QuietInv ==
    ASSUME FactoryInv, NEW b \in Builds,
           UNCHANGED <<want, at, ran, out, line, rows, held, cache, memory, ledger>>,
           pc[b] # "idle", pc' = [pc EXCEPT ![b] = pc'[b]],
           pc'[b] \in {"done", "thrown"},
           arts' \in [Builds -> [Keys -> Artifact \cup {NoArt}]],
           \A c \in Builds : c # b => arts'[c] = arts[c],
           sessions' \subseteq Builds,
           deployed' \in [Builds -> {"unknown", "ready", "refused"}]
    PROVE  FactoryInv'
  <1>0. pc \in [Builds -> {"idle", "running", "settled", "done", "thrown"}]
    BY DEF FactoryInv, FactoryTypeOK
  <1> PICK v : v = pc'[b]
    OBVIOUS
  <1>1. /\ pc' \in [Builds -> {"idle", "running", "settled", "done", "thrown"}]
        /\ \A c \in Builds : c # b => pc'[c] = pc[c]
    <2>1. pc' = [pc EXCEPT ![b] = v] /\ v \in {"done", "thrown"}
      OBVIOUS
    <2> QED
      BY <1>0, <2>1
  <1>2. FactoryTypeOK'
    BY <1>1 DEF FactoryInv, FactoryTypeOK
  <1>3. CalledWith'
    BY <1>1 DEF FactoryInv, CalledWith
  <1>4. Unscheduled'
    BY <1>1 DEF FactoryInv, Unscheduled
  <1>5. OneRunner'
    BY <1>1 DEF FactoryInv, OneRunner
  <1> QED
    BY <1>2, <1>3, <1>4, <1>5 DEF FactoryInv

\* Accepting the last artifact.
LEMMA FinishQuiet ==
    ASSUME FactoryInv, NEW b \in Builds, Accepts(b),
           arts' = [arts EXCEPT ![b][Order[at[b]]] = out[b]]
    PROVE  /\ arts' \in [Builds -> [Keys -> Artifact \cup {NoArt}]]
           /\ \A c \in Builds : c # b => arts'[c] = arts[c]
           /\ \A k \in Keys : arts'[b][k] = IF k = Order[at[b]] THEN out[b] ELSE arts[b][k]
  <1>1. /\ at[b] \in DOMAIN Order /\ out[b] \in Artifact \cup {NoArt}
        /\ arts \in [Builds -> [Keys -> Artifact \cup {NoArt}]]
        /\ Order[at[b]] \in Keys
    BY OrderKeys DEF FactoryInv, FactoryTypeOK
  <1>2. arts' = [arts EXCEPT ![b] = [arts[b] EXCEPT ![Order[at[b]]] = out[b]]]
    BY <1>1
  <1> QED
    BY <1>1, <1>2

\* The kinds of steps.
LEMMA FactoryStep ==
    ASSUME FactoryInv, FactoryNext
    PROVE  \E b \in Builds :
              \/ \E dna \in Dnas, p \in Projects : Start(b, dna, p) /\ Scheduling(b, 1)
              \/ Settle(b)
              \/ /\ Accept(b) /\ at[b] + 1 \in DOMAIN Order
                 /\ Scheduling(b, at[b] + 1) /\ at[b] < Len(Order)
              \/ /\ Accept(b) /\ at[b] = Len(Order) /\ pc' = [pc EXCEPT ![b] = "done"]
                 /\ UNCHANGED <<want, ledger, deployed>>
                 /\ sessions' = sessions \ {b}
                 /\ UNCHANGED <<at, ran, out, line, rows, held, cache, memory>>
              \/ Fail(b)
              \/ Deploy(b)
  <1>1. ASSUME NEW b \in Builds, Accept(b)
        PROVE  \/ /\ at[b] + 1 \in DOMAIN Order
                  /\ Scheduling(b, at[b] + 1) /\ at[b] < Len(Order)
               \/ /\ at[b] = Len(Order) /\ pc' = [pc EXCEPT ![b] = "done"]
                  /\ UNCHANGED <<want, ledger, deployed>>
                  /\ sessions' = sessions \ {b}
                  /\ UNCHANGED <<at, ran, out, line, rows, held, cache, memory>>
    BY <1>1, AcceptSchedules DEF Accept
  <1> QED
    BY <1>1, StartSchedules DEF FactoryNext

LEMMA FactoryAlways == FactoryInv /\ [FactoryNext]_factoryVars => FactoryInv'
  <1> SUFFICES ASSUME FactoryInv, [FactoryNext]_factoryVars PROVE FactoryInv'
    OBVIOUS
  <1>0. 1 \in DOMAIN Order
    BY OrderKeys
  <1>1. ASSUME NEW b \in Builds, Accept(b), pc' = [pc EXCEPT ![b] = "done"],
               UNCHANGED <<want, ledger, deployed>>, sessions' = sessions \ {b},
               UNCHANGED <<at, ran, out, line, rows, held, cache, memory>>
        PROVE  FactoryInv'
    <2>1. Accepts(b) /\ arts' = [arts EXCEPT ![b][Order[at[b]]] = out[b]]
      BY <1>1 DEF Accept
    <2>2. pc[b] # "idle" /\ pc' = [pc EXCEPT ![b] = pc'[b]] /\ pc'[b] = "done"
      BY <1>1, <2>1 DEF Accepts, FactoryInv, FactoryTypeOK
    <2>3. sessions' \subseteq Builds /\ deployed' \in [Builds -> {"unknown", "ready", "refused"}]
      BY <1>1 DEF FactoryInv, FactoryTypeOK
    <2> QED
      BY <1>1, <2>1, <2>2, <2>3, FinishQuiet, QuietInv
  <1>2. ASSUME NEW b \in Builds, Fail(b) PROVE FactoryInv'
    <2>1. /\ pc[b] = "settled" /\ pc' = [pc EXCEPT ![b] = "thrown"]
          /\ UNCHANGED <<want, at, ran, out, arts, line, rows, held, cache, memory,
                         ledger, sessions, deployed>>
      BY <1>2 DEF Fail
    <2>2. pc' = [pc EXCEPT ![b] = pc'[b]] /\ pc'[b] = "thrown"
      BY <2>1 DEF FactoryInv, FactoryTypeOK
    <2>3. /\ arts' \in [Builds -> [Keys -> Artifact \cup {NoArt}]]
          /\ sessions' \subseteq Builds
          /\ deployed' \in [Builds -> {"unknown", "ready", "refused"}]
      BY <2>1 DEF FactoryInv, FactoryTypeOK
    <2> QED
      BY <2>1, <2>2, <2>3, QuietInv
  <1>3. ASSUME NEW b \in Builds, Deploy(b) PROVE FactoryInv'
    <2>1. deployed' \in [Builds -> {"unknown", "ready", "refused"}]
      BY <1>3 DEF Deploy, FactoryInv, FactoryTypeOK
    <2>2. UNCHANGED <<want, pc, at, ran, out, arts, line, rows, held, cache, memory,
                      ledger, sessions>>
      BY <1>3 DEF Deploy
    <2> QED
      BY <2>1, <2>2 DEF FactoryInv, FactoryTypeOK, CalledWith, Unscheduled, OneRunner
  <1>4. CASE UNCHANGED factoryVars
    BY <1>4 DEF factoryVars, FactoryInv, FactoryTypeOK, CalledWith, Unscheduled, OneRunner
  <1>5. CASE FactoryNext
    BY <1>0, <1>1, <1>2, <1>3, <1>5, FactoryStep, ScheduleInv, SettleInv
  <1> QED
    BY <1>4, <1>5

LEMMA FactoryHolds == FactorySpec => []FactoryInv
  <1>1. FactoryInit => FactoryInv
    <2> SUFFICES ASSUME FactoryInit PROVE FactoryInv
      OBVIOUS
    <2>1. FactoryTypeOK
      <3>1. /\ \A b \in Builds : <<b, Order[1]>> \in FactoryJobs
            /\ 1 \in DOMAIN Order
        BY OrderKeys DEF FactoryJobs
      <3>2. <<>> \in Seq(FactoryJobs)
        OBVIOUS
      <3> QED
        BY <3>1, <3>2 DEF FactoryInit, FactoryTypeOK
    <2>2. CalledWith
      BY DEF FactoryInit, CalledWith
    <2>3. Unscheduled
      BY OrderKeys DEF FactoryInit, Unscheduled, FactoryJobs
    <2>4. OneRunner
      BY DEF FactoryInit, OneRunner
    <2> QED
      BY <2>1, <2>2, <2>3, <2>4 DEF FactoryInv
  <1> QED
    BY <1>1, FactoryAlways, PTL DEF FactorySpec


-----------------------------------------------------------------------------
(* The backlog of the queue.                                               *)

Backlog == {j \in FactoryJobs : rows[j].state \in {"queued", "dead"}}

Losers == {b \in Builds : Failed(b)}

\* As many jobs were left behind as builds were handed a failed step; both are
\* finitely many, however many builds there are.
CountInv ==
    /\ IsFiniteSet(Backlog) /\ IsFiniteSet(Losers)
    /\ Cardinality(Backlog) = Cardinality(Losers)

\* The backlog and the failures grow together.
LEMMA BothGrow ==
    ASSUME CountInv, NEW j, NEW b, j \notin Backlog, b \notin Losers,
           Backlog' = Backlog \cup {j}, Losers' = Losers \cup {b}
    PROVE  CountInv'
  <1>1. /\ IsFiniteSet(Backlog \cup {j})
        /\ Cardinality(Backlog \cup {j}) = Cardinality(Backlog) + 1
    BY FS_AddElement DEF CountInv
  <1>2. /\ IsFiniteSet(Losers \cup {b})
        /\ Cardinality(Losers \cup {b}) = Cardinality(Losers) + 1
    BY FS_AddElement DEF CountInv
  <1> QED
    BY <1>1, <1>2 DEF CountInv

\* One job joins the backlog and another leaves it.
LEMMA OneForOne ==
    ASSUME CountInv, NEW j, NEW k, k \notin Backlog, j \in Backlog \cup {k},
           Backlog' = (Backlog \cup {k}) \ {j}, Losers' = Losers
    PROVE  CountInv'
  <1>1. /\ IsFiniteSet(Backlog \cup {k})
        /\ Cardinality(Backlog \cup {k}) = Cardinality(Backlog) + 1
    BY FS_AddElement DEF CountInv
  <1>2. /\ IsFiniteSet((Backlog \cup {k}) \ {j})
        /\ Cardinality((Backlog \cup {k}) \ {j}) = Cardinality(Backlog \cup {k}) - 1
    BY <1>1, FS_RemoveElement
  <1>3. Cardinality(Backlog) \in Nat
    BY FS_CardinalityType DEF CountInv
  <1> QED
    BY <1>1, <1>2, <1>3 DEF CountInv

LEMMA ScheduleCount ==
    ASSUME FactoryInv, CountInv, NEW b \in Builds, NEW i \in DOMAIN Order, Scheduling(b, i)
    PROVE  CountInv'
  <1> PICK own : own = <<b, Order[i]>>
    OBVIOUS
  <1>0. /\ own \in FactoryJobs /\ rows[own].state = "absent" /\ FactoryTypeOK
        /\ Dispatch(b, i)
    BY OrderKeys DEF FactoryJobs, Scheduling, FactoryInv
  <1>1. PICK j \in FactoryJobs :
           /\ j = own \/ rows[j].state = "queued"
           /\ rows' \in [FactoryJobs -> RowType]
           /\ \A k \in FactoryJobs : k # j /\ k # own => rows'[k] = rows[k]
           /\ j # own => rows'[own].state = "queued"
           /\ \/ /\ pc' = [pc EXCEPT ![b] = "settled"]
                 /\ rows'[j].state \in {"queued", "dead"}
                 /\ out' = [out EXCEPT ![b] = NoArt]
              \/ /\ pc' = [pc EXCEPT ![b] = "running"]
                 /\ rows'[j].state = "running"
                 /\ Handle(b, j)
    BY <1>0, DispatchStep
  <1>2. own \notin Backlog /\ j \in Backlog \cup {own}
    BY <1>0, <1>1 DEF Backlog
  <1>3. /\ pc \in [Builds -> {"idle", "running", "settled", "done", "thrown"}]
        /\ out \in [Builds -> Artifact \cup {NoArt}]
    BY <1>0 DEF FactoryTypeOK
  <1>4. b \notin Losers
    BY DEF Losers, Scheduling
  <1>5. CASE pc' = [pc EXCEPT ![b] = "settled"] /\ rows'[j].state \in {"queued", "dead"}
             /\ out' = [out EXCEPT ![b] = NoArt]
    <2>1. \A k \in FactoryJobs : k \in Backlog' <=> k \in Backlog \/ k = own
      BY <1>0, <1>1, <1>2, <1>5 DEF Backlog
    <2>2. Backlog' = Backlog \cup {own}
      BY <1>0, <2>1 DEF Backlog
    <2>3. Losers' = Losers \cup {b}
      BY <1>3, <1>5 DEF Losers, Failed
    <2> QED
      BY <1>2, <1>4, <2>2, <2>3, BothGrow
  <1>6. CASE pc' = [pc EXCEPT ![b] = "running"] /\ rows'[j].state = "running" /\ Handle(b, j)
    <2>1. \A k \in FactoryJobs : k \in Backlog' <=> (k \in Backlog \/ k = own) /\ k # j
      BY <1>0, <1>1, <1>2, <1>6 DEF Backlog
    <2>2. Backlog' = (Backlog \cup {own}) \ {j}
      BY <1>0, <2>1 DEF Backlog
    <2>3. \A c \in Builds : c # b => pc'[c] = pc[c] /\ out'[c] = out[c]
      <3>1. \A c \in Builds : c # b => pc'[c] = pc[c]
        BY <1>3, <1>6
      <3>2. \E v : out' = [out EXCEPT ![b] = v]
        BY <1>6 DEF Handle
      <3> QED
        BY <1>3, <3>1, <3>2
    <2>4. pc'[b] = "running"
      BY <1>3, <1>6
    <2>5. Losers' = Losers
      BY <1>4, <2>3, <2>4 DEF Losers, Failed
    <2> QED
      BY <1>2, <2>2, <2>5, OneForOne
  <1> QED
    BY <1>1, <1>5, <1>6

LEMMA SettleCount ==
    ASSUME FactoryInv, CountInv, NEW b \in Builds, Settle(b)
    PROVE  CountInv'
  <1> PICK j : j = ran[b]
    OBVIOUS
  <1>1. /\ j \in FactoryJobs /\ rows[j].state = "running"
        /\ \A k \in FactoryJobs : k # j => rows'[k] = rows[k]
        /\ out[b] = NoArt => rows'[j].state \in {"queued", "dead"}
        /\ out[b] # NoArt => rows'[j].state = "succeeded"
    BY SettleRows
  <1>2. /\ pc[b] = "running" /\ out' = out
        /\ pc'[b] = "settled"
        /\ \A c \in Builds : c # b => pc'[c] = pc[c]
    BY DEF Settle, FactoryInv, FactoryTypeOK
  <1>3. j \notin Backlog /\ b \notin Losers
    BY <1>1, <1>2 DEF Backlog, Losers, Failed
  <1>4. CASE out[b] = NoArt
    <2>1. Backlog' = Backlog \cup {j}
      BY <1>1, <1>4 DEF Backlog
    <2>2. Losers' = Losers \cup {b}
      BY <1>2, <1>4 DEF Losers, Failed
    <2> QED
      BY <1>3, <2>1, <2>2, BothGrow
  <1>5. CASE out[b] # NoArt
    <2>1. Backlog' = Backlog
      BY <1>1, <1>3, <1>5 DEF Backlog
    <2>2. Losers' = Losers
      BY <1>2, <1>5 DEF Losers, Failed
    <2> QED
      BY <2>1, <2>2 DEF CountInv
  <1> QED
    BY <1>4, <1>5

LEMMA CountAlways == FactoryInv /\ CountInv /\ [FactoryNext]_factoryVars => CountInv'
  <1> SUFFICES ASSUME FactoryInv, CountInv, [FactoryNext]_factoryVars PROVE CountInv'
    OBVIOUS
  <1>0. 1 \in DOMAIN Order /\ FactoryTypeOK
    BY OrderKeys DEF FactoryInv
  <1>1. ASSUME NEW b \in Builds, Accept(b), pc' = [pc EXCEPT ![b] = "done"],
               UNCHANGED <<at, ran, out, line, rows, held, cache, memory>>
        PROVE  CountInv'
    <2>1. /\ Accepts(b) /\ pc'[b] = "done" /\ \A c \in Builds : c # b => pc'[c] = pc[c]
      BY <1>0, <1>1 DEF Accept, FactoryTypeOK
    <2>2. Losers' = Losers
      BY <1>1, <2>1 DEF Losers, Failed, Accepts
    <2>3. Backlog' = Backlog
      BY <1>1 DEF Backlog
    <2> QED
      BY <2>2, <2>3 DEF CountInv
  <1>2. ASSUME NEW b \in Builds, Fail(b) PROVE CountInv'
    <2>1. /\ pc[b] = "settled" /\ out[b] = NoArt /\ out' = out /\ rows' = rows
          /\ pc'[b] = "thrown" /\ \A c \in Builds : c # b => pc'[c] = pc[c]
      BY <1>0, <1>2 DEF Fail, FactoryTypeOK
    <2>2. Losers' = Losers
      BY <2>1 DEF Losers, Failed
    <2>3. Backlog' = Backlog
      BY <2>1 DEF Backlog
    <2> QED
      BY <2>2, <2>3 DEF CountInv
  <1>3. ASSUME NEW b \in Builds, Deploy(b) PROVE CountInv'
    BY <1>3 DEF Deploy, CountInv, Backlog, Losers, Failed
  <1>4. CASE UNCHANGED factoryVars
    BY <1>4 DEF factoryVars, CountInv, Backlog, Losers, Failed
  <1>5. CASE FactoryNext
    BY <1>0, <1>1, <1>2, <1>3, <1>5, FactoryStep, ScheduleCount, SettleCount
  <1> QED
    BY <1>4, <1>5

\* Every variable of the factory keeps its type, however many builds interleave.
THEOREM FactoryTyped == FactorySpec => []FactoryTypeOK
  <1>1. FactoryInv => FactoryTypeOK
    BY DEF FactoryInv
  <1> QED
    BY <1>1, FactoryHolds, PTL

\* A failed step of a build leaves one job behind, in the queue or dead, and a build
\* that succeeds takes none away: as long as builds alone use the queue, the backlog is
\* as long as the failures are many.
THEOREM BacklogIsConserved == FactorySpec => []BacklogConserved
  <1>1. FactoryInit => CountInv
    <2> SUFFICES ASSUME FactoryInit PROVE CountInv
      OBVIOUS
    <2>1. Backlog = {} /\ Losers = {}
      BY DEF FactoryInit, Backlog, Losers, Failed
    <2> QED
      BY <2>1, FS_EmptySet DEF CountInv
  <1>2. CountInv => BacklogConserved
    <2> SUFFICES ASSUME CountInv PROVE BacklogConserved
      OBVIOUS
    <2> PICK Q, D : /\ Q = {j \in FactoryJobs : rows[j].state = "queued"}
                    /\ D = {j \in FactoryJobs : rows[j].state = "dead"}
      OBVIOUS
    <2>1. Backlog = Q \cup D /\ Q \cap D = {}
      BY DEF Backlog
    <2>2. IsFiniteSet(Q) /\ IsFiniteSet(D)
      BY <2>1, FS_Subset DEF CountInv
    <2>3. Cardinality(Q \cup D) = Cardinality(Q) + Cardinality(D) - Cardinality(Q \cap D)
      BY <2>2, FS_Union
    <2>4. /\ Cardinality(Q \cap D) = 0
          /\ Cardinality(Q) \in Nat /\ Cardinality(D) \in Nat
      BY <2>1, <2>2, FS_EmptySet, FS_CardinalityType
    <2>5. Cardinality(Q) + Cardinality(D) = Cardinality(Losers)
      BY <2>1, <2>3, <2>4 DEF CountInv
    <2> QED
      BY <2>5 DEF BacklogConserved, Losers, Failed
  <1> QED
    BY <1>1, <1>2, CountAlways, FactoryHolds, PTL DEF FactorySpec


-----------------------------------------------------------------------------
(* While nothing has failed.                                               *)

\* No job waits, a build's step runs the build's own job, and everything made is
\* what its builder makes of the right DNA.
NoneWaits == \A j \in FactoryJobs : rows[j].state # "queued"

OwnStep ==
    \A b \in Builds : pc[b] \in {"running", "settled"} =>
        /\ ran[b] = <<b, Order[at[b]]>>
        /\ out[b] # NoArt => out[b] = Sound(Order[at[b]], want[b].dna)

OwnPrefix ==
    \A b \in Builds, h \in DOMAIN Order :
        \/ pc[b] \in {"running", "settled"} /\ h < at[b]
        \/ pc[b] = "done"
        => arts[b][Order[h]] = Sound(Order[h], want[b].dna)

OwnCache ==
    \A k \in Keys, d \in Dnas : cache[<<k, d>>] # NoArt => cache[<<k, d>>] = Sound(k, d)

OwnArts ==
    \A b \in Builds, k \in Keys : arts[b][k] # NoArt => arts[b][k] = Sound(k, want[b].dna)

OwnMemory ==
    \A p \in Projects, k \in Keys : memory[<<p, k>>] # NoArt =>
        \E b \in Builds : /\ want[b] = [dna |-> memory[<<p, k>>].dna, project |-> p]
                          /\ memory[<<p, k>>] = Sound(k, want[b].dna)

OwnInv ==
    ~Failure => NoneWaits /\ OwnStep /\ OwnPrefix /\ OwnCache /\ OwnArts /\ OwnMemory

\* A builder given the right prior artifacts makes the right one.
LEMMA BuildSound ==
    ASSUME NEW i \in DOMAIN Order, NEW dna, NEW prior,
           \A h \in DOMAIN Order : h < i => prior[Order[h]] = Sound(Order[h], dna)
    PROVE  Build(Order[i], dna, prior) = Sound(Order[i], dna)
  <1> PICK k : k = Order[i]
    OBVIOUS
  <1>1. CASE Reads[k] = NoKey
    BY <1>1 DEF Build, Sound
  <1>2. CASE Reads[k] # NoKey
    <2>1. PICK h \in 1 .. i - 1 : Order[h] = Reads[k]
      BY <1>2, FactoryAssumption
    <2>2. h \in DOMAIN Order /\ h < i
      BY OrderKeys
    <2>3. prior[Reads[k]] = Sound(Reads[k], dna)
      BY <2>1, <2>2
    <2>4. Passed(prior[Reads[k]], Reads[k]) = dna
      BY <2>3 DEF Passed, Sound
    <2> QED
      BY <1>2, <2>4 DEF Build, Sound
  <1> QED
    BY <1>1, <1>2

\* What the handler makes of a build's own job.
LEMMA HandleOwn ==
    ASSUME FactoryTypeOK, NEW b \in Builds, NEW i \in DOMAIN Order,
           Handle(b, <<b, Order[i]>>), want'[b] \in Called, OwnCache,
           \A h \in DOMAIN Order :
              h < i => arts'[b][Order[h]] = Sound(Order[h], want'[b].dna)
    PROVE  /\ OwnCache'
           /\ \/ out' = [out EXCEPT ![b] = NoArt] /\ memory' = memory
              \/ /\ out' = [out EXCEPT ![b] = Sound(Order[i], want'[b].dna)]
                 /\ \/ memory' = memory
                    \/ memory' = [memory EXCEPT ![<<want'[b].project, Order[i]>>] =
                                                   Sound(Order[i], want'[b].dna)]
  <1> PICK dna, k, prior, p : /\ dna = want'[b].dna /\ k = Order[i]
                              /\ prior = arts'[b] /\ p = want'[b].project
    OBVIOUS
  <1>1. dna \in Dnas /\ k \in Keys /\ p \in Projects
    BY OrderKeys DEF Called
  <1>2. cache \in [Keys \X Dnas -> Artifact \cup {NoArt}]
    BY DEF FactoryTypeOK
  <1>3. Build(k, dna, prior) = Sound(k, dna)
    BY BuildSound
  <1> PICK new, hit : new = Build(k, dna, prior) /\ hit = cache[<<k, dna>>]
    OBVIOUS
  <1>4. \/ /\ out' = [out EXCEPT ![b] = NoArt]
           /\ UNCHANGED <<cache, memory>>
        \/ /\ hit # NoArt
           /\ out' = [out EXCEPT ![b] = hit]
           /\ UNCHANGED <<cache, memory>>
        \/ /\ out' = [out EXCEPT ![b] = new]
           /\ cache' = [cache EXCEPT ![<<k, dna>>] = new]
           /\ memory' = [memory EXCEPT ![<<p, k>>] = new]
    <2> PICK j : j = <<b, k>>
      OBVIOUS
    <2>1. j[1] = b /\ j[2] = k /\ Lock(j) = <<p, k>>
      BY DEF Lock
    <2>2. Handle(b, j)
      OBVIOUS
    <2>3. CASE dna \in Chokes[k]
      BY <2>1, <2>2, <2>3 DEF Handle
    <2>4. CASE dna \notin Chokes[k] /\ hit # NoArt
      BY <2>1, <2>2, <2>4 DEF Handle, Cached
    <2>5. CASE dna \notin Chokes[k] /\ hit = NoArt
      BY <2>1, <2>2, <2>5 DEF Handle, Cached
    <2> QED
      BY <2>3, <2>4, <2>5
  <1>5. hit # NoArt => hit = Sound(k, dna)
    BY <1>1 DEF OwnCache
  <1>6. ASSUME cache' = cache
        PROVE  OwnCache'
    BY <1>6 DEF OwnCache
  <1>7. ASSUME cache' = [cache EXCEPT ![<<k, dna>>] = new]
        PROVE  OwnCache'
    <2>1. \A l \in Keys, d \in Dnas :
             cache'[<<l, d>>] = IF l = k /\ d = dna THEN new ELSE cache[<<l, d>>]
      <3> TAKE l \in Keys, d \in Dnas
      <3>1. <<l, d>> \in Keys \X Dnas /\ DOMAIN cache = Keys \X Dnas
        BY <1>2
      <3>2. <<l, d>> = <<k, dna>> <=> l = k /\ d = dna
        OBVIOUS
      <3> QED
        BY <1>7, <3>1, <3>2
    <2> QED
      BY <1>3, <2>1 DEF OwnCache
  <1>8. OwnCache'
    BY <1>4, <1>6, <1>7
  <1> QED
    BY <1>3, <1>4, <1>5, <1>8, Zenon

LEMMA ScheduleOwn ==
    ASSUME FactoryInv, OwnInv, NEW b \in Builds, NEW i \in DOMAIN Order, Scheduling(b, i),
           ~Failure =>
              /\ \A h \in DOMAIN Order :
                    h < i => arts'[b][Order[h]] = Sound(Order[h], want'[b].dna)
              /\ \A k \in Keys :
                    arts'[b][k] # NoArt => arts'[b][k] = Sound(k, want'[b].dna)
    PROVE  OwnInv'
  <1> SUFFICES ASSUME ~Failure'
               PROVE  (NoneWaits /\ OwnStep /\ OwnPrefix /\ OwnCache /\ OwnArts /\ OwnMemory)'
    BY DEF OwnInv
  <1> PICK own : own = <<b, Order[i]>>
    OBVIOUS
  <1>0. /\ own \in FactoryJobs /\ rows[own].state = "absent" /\ FactoryTypeOK
        /\ Dispatch(b, i)
    BY OrderKeys DEF FactoryJobs, Scheduling, FactoryInv
  <1>1. PICK j \in FactoryJobs :
           /\ j = own \/ rows[j].state = "queued"
           /\ at' = [at EXCEPT ![b] = i]
           /\ ran' = [ran EXCEPT ![b] = j]
           /\ \A k \in FactoryJobs : k # j /\ k # own => rows'[k] = rows[k]
           /\ \/ /\ pc' = [pc EXCEPT ![b] = "settled"]
                 /\ out' = [out EXCEPT ![b] = NoArt]
                 /\ UNCHANGED <<held, cache, memory>>
              \/ /\ pc' = [pc EXCEPT ![b] = "running"]
                 /\ rows'[j].state = "running"
                 /\ Handle(b, j)
    BY <1>0, DispatchStep
  <1>2. /\ pc \in [Builds -> {"idle", "running", "settled", "done", "thrown"}]
        /\ out \in [Builds -> Artifact \cup {NoArt}]
        /\ at \in [Builds -> DOMAIN Order]
        /\ ran \in [Builds -> FactoryJobs]
        /\ memory \in [Projects \X Keys -> Artifact \cup {NoArt}]
    BY <1>0 DEF FactoryTypeOK
  <1>3. \A c \in Builds : c # b =>
           pc'[c] = pc[c] /\ out'[c] = out[c] /\ at'[c] = at[c] /\ ran'[c] = ran[c]
    <2>1. \E v : out' = [out EXCEPT ![b] = v]
      BY <1>1 DEF Handle
    <2> QED
      BY <1>1, <1>2, <2>1
  <1>4. ~Failure
    BY <1>3 DEF Failure, Scheduling, Failed
  <1>5. NoneWaits /\ OwnStep /\ OwnPrefix /\ OwnCache /\ OwnArts /\ OwnMemory
    BY <1>4 DEF OwnInv
  <1>6. j = own
    BY <1>1, <1>5 DEF NoneWaits
  <1>7. /\ pc' = [pc EXCEPT ![b] = "running"]
        /\ rows'[own].state = "running"
        /\ Handle(b, own)
    <2>1. ~(pc' = [pc EXCEPT ![b] = "settled"] /\ out' = [out EXCEPT ![b] = NoArt])
      BY <1>2 DEF Failure
    <2> QED
      BY <1>1, <1>6, <2>1
  <1>8. /\ pc'[b] = "running" /\ at'[b] = i /\ ran'[b] = own
    BY <1>1, <1>2, <1>6, <1>7
  <1>9. /\ \A h \in DOMAIN Order :
              h < i => arts'[b][Order[h]] = Sound(Order[h], want'[b].dna)
        /\ \A k \in Keys : arts'[b][k] # NoArt => arts'[b][k] = Sound(k, want'[b].dna)
        /\ want'[b] \in Called
        /\ \A c \in Builds : c # b => want'[c] = want[c] /\ arts'[c] = arts[c]
    BY <1>4 DEF Scheduling
  <1>10. /\ OwnCache'
         /\ \/ out' = [out EXCEPT ![b] = NoArt] /\ memory' = memory
            \/ /\ out' = [out EXCEPT ![b] = Sound(Order[i], want'[b].dna)]
               /\ \/ memory' = memory
                  \/ memory' = [memory EXCEPT ![<<want'[b].project, Order[i]>>] =
                                                 Sound(Order[i], want'[b].dna)]
    BY <1>0, <1>5, <1>7, <1>9, HandleOwn
  <1>11. NoneWaits'
    BY <1>0, <1>1, <1>5, <1>6, <1>7 DEF NoneWaits
  <1>12. out'[b] # NoArt => out'[b] = Sound(Order[i], want'[b].dna)
    BY <1>2, <1>10
  <1>13. OwnStep'
    BY <1>3, <1>5, <1>8, <1>9, <1>12 DEF OwnStep
  <1>14. OwnPrefix'
    BY <1>3, <1>5, <1>8, <1>9 DEF OwnPrefix
  <1>15. OwnArts'
    BY <1>5, <1>9 DEF OwnArts
  <1>16. OwnMemory'
    <2> SUFFICES ASSUME NEW p \in Projects, NEW k \in Keys, memory'[<<p, k>>] # NoArt
                 PROVE  \E c \in Builds :
                           /\ want'[c] = [dna |-> memory'[<<p, k>>].dna, project |-> p]
                           /\ memory'[<<p, k>>] = Sound(k, want'[c].dna)
      BY DEF OwnMemory
    <2>1. CASE memory'[<<p, k>>] = memory[<<p, k>>]
      <3>1. PICK c \in Builds : /\ want[c] = [dna |-> memory[<<p, k>>].dna, project |-> p]
                                /\ memory[<<p, k>>] = Sound(k, want[c].dna)
        BY <1>5, <2>1 DEF OwnMemory
      <3>2. pc[c] # "idle"
        <4>1. want[c].project # NoProject
          BY <3>1, FactoryAssumption
        <4> QED
          BY <4>1 DEF FactoryInv, CalledWith
      <3>3. want'[c] = want[c]
        BY <3>2 DEF Scheduling
      <3> QED
        BY <2>1, <3>1, <3>3
    <2>2. CASE /\ memory'[<<p, k>>] = Sound(Order[i], want'[b].dna)
               /\ p = want'[b].project /\ k = Order[i]
      <3>1. memory'[<<p, k>>].dna = want'[b].dna
        BY <2>2 DEF Sound
      <3>2. want'[b] = [dna |-> want'[b].dna, project |-> want'[b].project]
        BY <1>9 DEF Called
      <3> QED
        BY <2>2, <3>1, <3>2
    <2>3. \/ memory'[<<p, k>>] = memory[<<p, k>>]
          \/ /\ memory'[<<p, k>>] = Sound(Order[i], want'[b].dna)
             /\ p = want'[b].project /\ k = Order[i]
      <3>1. Order[i] \in Keys /\ want'[b].project \in Projects
        BY <1>9, OrderKeys DEF Called
      <3> PICK q, l, s : /\ q = want'[b].project /\ l = Order[i]
                         /\ s = Sound(Order[i], want'[b].dna)
        OBVIOUS
      <3>2. memory' = memory \/ memory' = [memory EXCEPT ![<<q, l>>] = s]
        BY <1>10
      <3>3. memory'[<<p, k>>] = memory[<<p, k>>] \/ (memory'[<<p, k>>] = s /\ p = q /\ k = l)
        BY <1>2, <3>1, <3>2
      <3> QED
        BY <3>3
    <2> QED
      BY <2>1, <2>2, <2>3
  <1> QED
    BY <1>10, <1>11, <1>13, <1>14, <1>15, <1>16

LEMMA SettleOwn ==
    ASSUME FactoryInv, OwnInv, NEW b \in Builds, Settle(b)
    PROVE  OwnInv'
  <1> SUFFICES ASSUME ~Failure'
               PROVE  (NoneWaits /\ OwnStep /\ OwnPrefix /\ OwnCache /\ OwnArts /\ OwnMemory)'
    BY DEF OwnInv
  <1>1. /\ pc[b] = "running" /\ pc'[b] = "settled"
        /\ \A c \in Builds : c # b => pc'[c] = pc[c]
        /\ UNCHANGED <<want, at, ran, out, arts, cache, memory>>
    BY DEF Settle, FactoryInv, FactoryTypeOK
  <1>2. out[b] # NoArt
    BY <1>1 DEF Failure
  <1>3. ~Failure
    BY <1>1 DEF Failure
  <1>4. NoneWaits /\ OwnStep /\ OwnPrefix /\ OwnCache /\ OwnArts /\ OwnMemory
    BY <1>3 DEF OwnInv
  <1>5. NoneWaits'
    BY <1>2, <1>4, SettleRows DEF NoneWaits
  <1>6. OwnStep' /\ OwnPrefix'
    BY <1>1, <1>4 DEF OwnStep, OwnPrefix
  <1> QED
    BY <1>1, <1>4, <1>5, <1>6 DEF OwnCache, OwnArts, OwnMemory

\* Accepting an artifact, the last or not.
LEMMA AcceptOwn ==
    ASSUME FactoryInv, OwnInv, NEW b \in Builds, Accept(b), ~Failure
    PROVE  /\ want' = want
           /\ \A h \in DOMAIN Order :
                 h <= at[b] => arts'[b][Order[h]] = Sound(Order[h], want[b].dna)
           /\ \A k \in Keys : arts'[b][k] # NoArt => arts'[b][k] = Sound(k, want[b].dna)
           /\ \A c \in Builds : c # b => arts'[c] = arts[c]
           /\ pc[b] = "settled" /\ out[b] # NoArt
  <1>1. /\ Accepts(b) /\ want' = want
        /\ arts' = [arts EXCEPT ![b][Order[at[b]]] = out[b]]
    BY DEF Accept
  <1>2. /\ \A c \in Builds : c # b => arts'[c] = arts[c]
        /\ \A k \in Keys : arts'[b][k] = IF k = Order[at[b]] THEN out[b] ELSE arts[b][k]
    BY <1>1, FinishQuiet
  <1>3. pc[b] = "settled" /\ out[b] # NoArt /\ at[b] \in DOMAIN Order
    BY <1>1 DEF Accepts, FactoryInv, FactoryTypeOK
  <1>4. out[b] = Sound(Order[at[b]], want[b].dna)
    BY <1>3 DEF OwnInv, OwnStep
  <1>5. \A h \in DOMAIN Order : h < at[b] => arts[b][Order[h]] = Sound(Order[h], want[b].dna)
    BY <1>3 DEF OwnInv, OwnPrefix
  <1>6. ASSUME NEW h \in DOMAIN Order, h <= at[b]
        PROVE  arts'[b][Order[h]] = Sound(Order[h], want[b].dna)
    <2>1. Order[h] \in Keys
      BY OrderKeys
    <2>2. h = at[b] \/ h < at[b]
      BY <1>3, <1>6, OrderKeys
    <2> QED
      BY <1>2, <1>4, <1>5, <2>1, <2>2
  <1>7. \A k \in Keys : arts'[b][k] # NoArt => arts'[b][k] = Sound(k, want[b].dna)
    BY <1>2, <1>4 DEF OwnInv, OwnArts
  <1> QED
    BY <1>1, <1>2, <1>3, <1>6, <1>7

LEMMA OwnAlways == FactoryInv /\ OwnInv /\ [FactoryNext]_factoryVars => OwnInv'
  <1> SUFFICES ASSUME FactoryInv, OwnInv, [FactoryNext]_factoryVars PROVE OwnInv'
    OBVIOUS
  <1>0. 1 \in DOMAIN Order /\ FactoryTypeOK /\ DOMAIN Order = 1 .. Len(Order)
        /\ Len(Order) \in Nat
    BY OrderKeys DEF FactoryInv
  <1>1. ASSUME NEW b \in Builds, NEW dna \in Dnas, NEW p \in Projects, Start(b, dna, p),
               Scheduling(b, 1)
        PROVE  OwnInv'
    <2>1. arts' = arts /\ arts[b] = [k \in Keys |-> NoArt]
      BY <1>1 DEF Start, FactoryInv, CalledWith
    <2>2. /\ \A k \in Keys : arts'[b][k] = NoArt
          /\ \A h \in DOMAIN Order : ~(h < 1)
      BY <1>0, <2>1
    <2> QED
      BY <1>0, <1>1, <2>2, ScheduleOwn
  <1>2. ASSUME NEW b \in Builds, Accept(b), at[b] + 1 \in DOMAIN Order,
               Scheduling(b, at[b] + 1)
        PROVE  OwnInv'
    <2>1. \A h \in DOMAIN Order : h < at[b] + 1 => h <= at[b]
      BY <1>0 DEF FactoryTypeOK
    <2> PICK i : i = at[b] + 1
      OBVIOUS
    <2>2. ~Failure =>
             /\ \A h \in DOMAIN Order :
                   h < i => arts'[b][Order[h]] = Sound(Order[h], want'[b].dna)
             /\ \A k \in Keys :
                   arts'[b][k] # NoArt => arts'[b][k] = Sound(k, want'[b].dna)
      BY <1>2, <2>1, AcceptOwn
    <2> QED
      BY <1>2, <2>2, ScheduleOwn
  <1>3. ASSUME NEW b \in Builds, Accept(b), at[b] = Len(Order),
               pc' = [pc EXCEPT ![b] = "done"],
               UNCHANGED <<at, ran, out, line, rows, held, cache, memory>>
        PROVE  OwnInv'
    <2> SUFFICES ASSUME ~Failure'
                 PROVE  (NoneWaits /\ OwnStep /\ OwnPrefix /\ OwnCache /\ OwnArts
                           /\ OwnMemory)'
      BY DEF OwnInv
    <2>1. /\ pc'[b] = "done" /\ \A c \in Builds : c # b => pc'[c] = pc[c]
          /\ Accepts(b)
      BY <1>0, <1>3 DEF FactoryTypeOK, Accept
    <2>2. ~Failure
      BY <1>3, <2>1 DEF Failure, Accepts
    <2>3. NoneWaits /\ OwnStep /\ OwnPrefix /\ OwnCache /\ OwnArts /\ OwnMemory
      BY <2>2 DEF OwnInv
    <2>4. /\ want' = want
          /\ \A h \in DOMAIN Order :
                h <= at[b] => arts'[b][Order[h]] = Sound(Order[h], want[b].dna)
          /\ \A k \in Keys : arts'[b][k] # NoArt => arts'[b][k] = Sound(k, want[b].dna)
          /\ \A c \in Builds : c # b => arts'[c] = arts[c]
      BY <1>3, <2>2, AcceptOwn
    <2>5. \A h \in DOMAIN Order : h <= at[b]
      BY <1>0, <1>3
    <2>6. OwnStep' /\ OwnPrefix'
      BY <1>3, <2>1, <2>3, <2>4, <2>5 DEF OwnStep, OwnPrefix
    <2>7. OwnArts'
      BY <2>3, <2>4 DEF OwnArts
    <2> QED
      BY <1>3, <2>3, <2>4, <2>6, <2>7 DEF NoneWaits, OwnCache, OwnMemory
  <1>4. ASSUME NEW b \in Builds, Fail(b) PROVE OwnInv'
    <2>1. pc'[b] = "thrown" /\ out'[b] = NoArt
      BY <1>0, <1>4 DEF Fail, FactoryTypeOK
    <2> QED
      BY <2>1 DEF OwnInv, Failure
  <1>5. ASSUME NEW b \in Builds, Deploy(b) PROVE OwnInv'
    BY <1>5 DEF Deploy, OwnInv, Failure, NoneWaits, OwnStep, OwnPrefix, OwnCache, OwnArts,
                OwnMemory
  <1>6. CASE UNCHANGED factoryVars
    BY <1>6 DEF factoryVars, OwnInv, Failure, NoneWaits, OwnStep, OwnPrefix, OwnCache,
                OwnArts, OwnMemory
  <1>7. CASE FactoryNext
    BY <1>1, <1>2, <1>3, <1>4, <1>5, <1>7, FactoryStep, SettleOwn
  <1> QED
    BY <1>6, <1>7

\* While no build has been handed a failed step, every artifact of a build is what its
\* builder makes of the build's own DNA, and the project's memory holds nothing else.
THEOREM BuildsOwnUntilFailure == FactorySpec => []OwnUntilFailure
  <1>1. FactoryInit => OwnInv
    <2> SUFFICES ASSUME FactoryInit PROVE OwnInv
      OBVIOUS
    <2>1. NoneWaits
      BY DEF FactoryInit, NoneWaits
    <2>2. OwnStep /\ OwnPrefix
      BY DEF FactoryInit, OwnStep, OwnPrefix
    <2>3. OwnCache /\ OwnArts /\ OwnMemory
      BY DEF FactoryInit, OwnCache, OwnArts, OwnMemory
    <2> QED
      BY <2>1, <2>2, <2>3 DEF OwnInv
  <1>2. OwnInv => OwnUntilFailure
    BY DEF OwnInv, OwnUntilFailure, OwnArts, OwnMemory
  <1> QED
    BY <1>1, <1>2, OwnAlways, FactoryHolds, PTL DEF FactorySpec

=============================================================================
