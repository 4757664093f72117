---------------------------- MODULE KnowledgeBase ----------------------------
(***************************************************************************)
(* The records of the platform (runtime/src/services: rules, decisions,    *)
(* capabilities, patterns, knowledge) over the storage contracts of        *)
(* runtime/src/storage/store.js.  Each put() stores a document, overwrites *)
(* the record's graph node and adds an edge to every record it refers to,  *)
(* whose node it makes first, because addEdge() throws for an unknown one  *)
(* and a document stored before the throw would stay.  Nothing is removed: *)
(* a document put again keeps the edges of its earlier references.         *)
(***************************************************************************)
CONSTANTS
    Records,  \* a record is a pair: its kind and its id
    NoDoc

Kinds == {"rule", "standard", "decision", "capability", "pattern", "knowledge"}

ASSUME KnowledgeAssumption ==
    /\ \A r \in Records : r[1] \in Kinds
    /\ \A S \in SUBSET Records : NoDoc # S

VARIABLES
    docs,    \* the references of each stored document
    nodes,   \* nodes of the graph
    edges,   \* its edges, without their number and type
    indexed, \* documents of the vector index
    binding  \* binding_standards of the last retrieval

knowledgeVars == <<docs, nodes, edges, indexed, binding>>

Stored == {r \in Records : docs[r] # NoDoc}

Of(kind) == {r \in Records : r[1] = kind}

KnowledgeTypeOK ==
    /\ docs \in [Records -> {NoDoc} \cup SUBSET Records]
    /\ nodes \subseteq Records
    /\ edges \subseteq Records \X Records
    /\ indexed \subseteq Stored
    /\ binding \subseteq Of("rule") \cap Stored

KnowledgeInit ==
    /\ docs = [r \in Records |-> NoDoc]
    /\ nodes = {} /\ edges = {} /\ indexed = {} /\ binding = {}

-----------------------------------------------------------------------------
(* What each service's records refer to.                                   *)

RuleRefs == Of("standard")
DecisionRefs == Of("rule") \cup Of("standard")
CapabilityRefs == Of("capability")
PatternRefs == Of("capability") \cup Of("rule")
KnowledgeRefs == Of("rule")

Refs(kind) ==
    CASE kind = "rule" -> RuleRefs
      [] kind = "decision" -> DecisionRefs
      [] kind = "capability" -> CapabilityRefs
      [] kind = "pattern" -> PatternRefs
      [] kind = "knowledge" -> KnowledgeRefs
      [] OTHER -> {}

\* Mutant: put() makes a node for its own record alone.
NodesOfRecord(r, refs) == {r}

\* upsertNode() for the record and for each of its references.
NodesOf(r, refs) == {r} \cup refs

\* addEdge() for the references whose node is known, which are all of them.
EdgesOf(r, refs, known) == {e \in {r} \X refs : e[2] \in known}

Put(r, refs) ==
    /\ r[1] # "standard"
    /\ refs \subseteq Refs(r[1])
    /\ docs' = [docs EXCEPT ![r] = refs]
    /\ nodes' = nodes \cup NodesOf(r, refs)
    /\ edges' = edges \cup EdgesOf(r, refs, nodes \cup NodesOf(r, refs))
    /\ indexed' = IF r[1] \in {"decision", "pattern", "knowledge"}
                  THEN indexed \cup {r} ELSE indexed
    /\ UNCHANGED binding

\* Mutant: ids are handed on without looking the rules up.
ApplicableUnread(rules) == IF rules = {} THEN Of("rule") \cap Stored ELSE rules

\* RuleService.applicable(): no ids at all select every rule.
Applicable(rules) ==
    IF rules = {} THEN Of("rule") \cap Stored ELSE rules \cap Stored

\* The rules the entries name: a decision's related standards are rule ids.
Bound(kind, entries) ==
    LET named == UNION {docs[r] : r \in entries} IN
    CASE kind = "rule" -> entries
      [] kind = "decision" -> {<<"rule", s[2]>> : s \in named \cap Of("standard")}
      [] OTHER -> named \cap Of("rule")

\* KnowledgeService.retrieve(): the entries an intent selects, of one kind.
Retrieve(kind, entries) ==
    /\ kind \in {"rule", "decision", "pattern", "knowledge"}
    /\ entries \subseteq Of(kind) \cap Stored
    /\ binding' = Applicable(Bound(kind, entries))
    /\ UNCHANGED <<docs, nodes, edges, indexed>>

KnowledgeNext ==
    \/ \E r \in Records : \E refs \in SUBSET Refs(r[1]) : Put(r, refs)
    \/ \E kind \in Kinds : \E entries \in SUBSET Of(kind) : Retrieve(kind, entries)

KnowledgeSpec == KnowledgeInit /\ [][KnowledgeNext]_knowledgeVars

-----------------------------------------------------------------------------
(* Properties.                                                             *)

\* However records are put, put again and referred to before they are put,
\* the graph leads from every stored record to all it refers to now, so that
\* the questions asked of the graph miss none, and no edge dangles.
ReferencesResolve ==
    /\ \A r \in Stored : r \in nodes /\ \A s \in docs[r] : <<r, s>> \in edges
    /\ \A e \in edges : e[1] \in nodes /\ e[2] \in nodes

=============================================================================
