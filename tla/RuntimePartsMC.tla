--------------------------- MODULE RuntimePartsMC ---------------------------
(***************************************************************************)
(* Model checking of the parts of the runtime that share no state: the     *)
(* product factory, the extension runtime, the agent runtime, the loops of *)
(* the dependency graph, the project services and the records.  Each       *)
(* behaviour runs one part, the others stay in their initial state, so the *)
(* run explores the parts one beside the other and not their product.      *)
(***************************************************************************)
EXTENDS ProductFactory, ExtensionRuntime, AgentRuntime, DependencyGraph,
        PlatformServices, KnowledgeBase, TLC

VARIABLE part

CONSTANTS e1, e2, m1, m2, g1, g2, p1, p2, s1, s2, a1, a2, a3

-----------------------------------------------------------------------------
(* The instances.                                                          *)

MCOrder == <<"discovery", "requirements">>
MCReads == [k \in {"discovery", "requirements"} |->
              IF k = "requirements" THEN "discovery" ELSE NoKey]
MCChokes == [k \in {"discovery", "requirements"} |->
               IF k = "discovery" THEN {"odd"} ELSE {}]

MCKind == [m \in Modules |-> IF m = m1 THEN "plain" ELSE "bare"]
MCDependency == [e \in Exts |-> IF e = e1 THEN {e2} ELSE {}]

MCImplements == [a \in Agents |-> IF a = g1 THEN {"execute", "shutdown"} ELSE {"prepare"}]

MCProjectOf == [a \in Arts |-> IF a = a3 THEN p2 ELSE p1]
MCDerives == [a \in Arts |-> IF a = a2 THEN {s2} ELSE {s1}]
MCInputs == [a \in Arts |-> IF a = a2 THEN {a1} ELSE IF a = a3 THEN {a2} ELSE {}]

MCRecords == Kinds \X {1}

Interchangeable == Permutations(Builds)

-----------------------------------------------------------------------------

Init ==
    /\ part \in {"factory", "extensions", "agents", "graph", "services", "records"}
    /\ FactoryInit /\ ExtInit /\ AgentInit /\ ServicesInit /\ KnowledgeInit
    /\ IF part = "graph" THEN GraphInit
       ELSE OrderInit /\ needs = [t \in Tasks |-> {}]

Next ==
    \/ /\ part = "factory" /\ FactoryNext
       /\ UNCHANGED <<extVars, agentVars, graphVars, servicesVars, knowledgeVars, part>>
    \/ /\ part = "extensions" /\ ExtNext
       /\ UNCHANGED <<factoryVars, agentVars, graphVars, servicesVars, knowledgeVars, part>>
    \/ /\ part = "agents" /\ AgentNext
       /\ UNCHANGED <<factoryVars, extVars, graphVars, servicesVars, knowledgeVars, part>>
    \/ /\ part = "graph" /\ GraphNext
       /\ UNCHANGED <<factoryVars, extVars, agentVars, servicesVars, knowledgeVars, part>>
    \/ /\ part = "services" /\ ServicesNext
       /\ UNCHANGED <<factoryVars, extVars, agentVars, graphVars, knowledgeVars, part>>
    \/ /\ part = "records" /\ KnowledgeNext
       /\ UNCHANGED <<factoryVars, extVars, agentVars, graphVars, servicesVars, part>>

Spec == Init /\ [][Next]_<<factoryVars, extVars, agentVars, graphVars, servicesVars,
                           knowledgeVars, part>>

\* Every variable of the part that runs has its type in every state.
TypeOK ==
    /\ part = "factory" => FactoryTypeOK
    /\ part = "extensions" => ExtTypeOK
    /\ part = "agents" => AgentTypeOK
    /\ part = "graph" => GraphTypeOK
    /\ part = "services" => ServicesTypeOK
    /\ part = "records" => KnowledgeTypeOK

=============================================================================
