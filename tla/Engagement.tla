----------------------------- MODULE Engagement -----------------------------
(***************************************************************************)
(* The record of an engagement and what each call does to it               *)
(* (packages/enterprise/src/engagements.js and consulting.js).  Every call *)
(* loads the whole record, changes it and saves the whole record: here are *)
(* the changes, as functions of the record; EngagementService says which   *)
(* copy is loaded, when, and where it is saved.                            *)
(*                                                                         *)
(* Texts, prices, dates and the governance history, which only grows and   *)
(* which no guard reads, are left out; but that an approval was signed     *)
(* again, its actor, date and amount replaced, is kept.  A Project DNA is  *)
(* a model value, two being equal if they ask the factory for the same.    *)
(***************************************************************************)
EXTENDS Naturals

CONSTANTS
    Designs,   \* the Project DNAs that designs can come to
    NoDna      \* null

ASSUME DesignAssumption == NoDna \notin Designs

\* GOVERNANCE_STAGES, with the positions that advanceGovernance() compares.
Rank == [discovery |-> 0, business_analysis |-> 1, solution_design |-> 2,
         commercial_review |-> 3, risk_review |-> 4, legal_review |-> 5,
         internal_approval |-> 6, client_approval |-> 7, deposit_received |-> 8,
         factory_ready |-> 9]

Stage == DOMAIN Rank

Approval == {"internal", "client", "deposit"}

\* How far the consulting of an engagement has come.
Interview == 0
Intelligence == 1
Gaps == 2
Review == 3
Package == 4

Record ==
    [stage : Stage,
     analysis : BOOLEAN,                \* there is a business analysis
     dna : Designs \cup {NoDna},        \* the Project DNA
     commercial : Designs \cup {NoDna}, \* the DNA the commercial package was made for
     given : SUBSET Approval,           \* the approvals that are not null
     overwritten : SUBSET Approval,     \* those that a later call has signed over
     approved : Designs \cup {NoDna},   \* the DNA in the record when the client approved
     eligible : BOOLEAN,                \* factory_eligible
     confident : BOOLEAN,               \* discovery confidence at its threshold
     reached : Interview .. Package]

\* createEngagement() and startConsultation() agree in all that is kept here.
New ==
    [stage |-> "discovery", analysis |-> FALSE, dna |-> NoDna, commercial |-> NoDna,
     given |-> {}, overwritten |-> {}, approved |-> NoDna, eligible |-> FALSE,
     confident |-> FALSE, reached |-> Interview]

-----------------------------------------------------------------------------
(* engagements.js                                                          *)

Analysed(e) == [e EXCEPT !.analysis = TRUE, !.stage = "business_analysis"]

CanDesign(e) == e.analysis

\* Mutant: a new design is not eligible yet, and needs its approvals anew.
DesignedAnew(e, d) ==
    [e EXCEPT !.dna = d, !.stage = "solution_design", !.given = {}]

Designed(e, d) == [e EXCEPT !.dna = d, !.stage = "solution_design"]

CanQuote(e) == e.dna # NoDna

Quoted(e) == [e EXCEPT !.commercial = e.dna, !.stage = "commercial_review"]

\* Mutant: assertFactoryEligible() does not ask for the deposit.
EligibleUnpaid(e) ==
    /\ {"internal", "client"} \subseteq e.given
    /\ e.dna # NoDna
    /\ e.commercial # NoDna

\* assertFactoryEligible(), which getFactoryHandoff() asks as well.
Eligible(e) ==
    /\ e.given = Approval
    /\ e.dna # NoDna
    /\ e.commercial # NoDna

\* Mutant: governance may go back.
CanAdvanceAnywhere(e, s) == s = "factory_ready" => Eligible(e)

CanAdvance(e, s) ==
    /\ Rank[s] >= Rank[e.stage]
    /\ s = "factory_ready" => Eligible(e)

\* The approvals that reaching a stage signs, whether or not they are there already.
Signs(s) ==
    CASE s = "internal_approval" -> {"internal"}
      [] s = "client_approval" -> {"client"}
      [] s = "deposit_received" -> {"deposit"}
      [] OTHER -> {}

Advanced(e, s) ==
    [e EXCEPT !.stage = s,
              !.given = @ \cup Signs(s),
              !.overwritten = @ \cup (e.given \cap Signs(s)),
              !.approved = IF s = "client_approval" THEN e.dna ELSE @,
              !.eligible = @ \/ s = "factory_ready"]

-----------------------------------------------------------------------------
(* consulting.js                                                           *)

\* Mutant: every call counts as the next step.
ReachNext(e, n) == [e EXCEPT !.reached = @ + 1]

Reach(e, n) == IF e.reached < n THEN [e EXCEPT !.reached = n] ELSE e

\* answerDiscovery(): an answer, or the language model's view of it, can raise
\* the confidence or lower it.
Answered(e, sure) == [e EXCEPT !.confident = sure]

CanResearch(e) == e.confident

Researched(e) == Reach(e, Intelligence)

CanFindGaps(e) == e.reached >= Intelligence

GapsFound(e) == Reach(e, Gaps)

CanReview(e) == e.reached >= Gaps

Reviewed(e) == Reach(e, Review)

CanPackage(e) == e.reached >= Review

Packaged(e, d) ==
    [Reach(e, Package) EXCEPT !.analysis = TRUE, !.dna = d, !.commercial = d,
                              !.stage = "commercial_review"]

-----------------------------------------------------------------------------

\* What holds of a record whatever calls it went through: nothing is eligible for
\* the factory without the three approvals, a DNA and a commercial package, no
\* record stands at the client's approval, or names the DNA it was for, without
\* its being given, and whoever has a solution package has all it is made of.
Sound(e) ==
    /\ e.eligible => e.given = Approval /\ e.commercial # NoDna
    /\ e.stage = "factory_ready" => e.eligible
    /\ e.stage = "client_approval" => "client" \in e.given
    /\ e.approved # NoDna => "client" \in e.given
    /\ e.commercial # NoDna => e.dna # NoDna
    /\ e.dna # NoDna => e.analysis
    /\ e.reached = Package => e.commercial # NoDna

=============================================================================
