------------------------------- MODULE Growth -------------------------------
(***************************************************************************)
(* Marketing, delivery and the numbers that the firm reads off its own     *)
(* records: packages/enterprise/src/marketing.js, delivery.js, ops.js and  *)
(* kpis.js, with the routes api/marketing, api/delivery, api/ops and       *)
(* api/kpis.  Every call loads a record, changes it and saves it without   *)
(* awaiting anything; no call looks at the stage that a record is in.      *)
(*                                                                         *)
(* A campaign and the engagement that is delivered; an engagement also has *)
(* a status, which engagements.js, consulting.js and delivery.js assign.   *)
(***************************************************************************)
EXTENDS Engagement

CONSTANTS
    Items,       \* the items of the content plan
    Advances,    \* the stages that governance advances to
    MaxUses      \* bound on the approvals, and on what is published, of an item

ASSUME GrowthAssumption ==
    /\ Advances \subseteq Stage
    /\ MaxUses \in Nat \ {0}

VARIABLES
    campaign,    \* the campaign
    business,    \* the engagement, its status and whether its renewal is dated
    delivery,    \* its delivery, if there is a record of it
    ticket       \* the state of its ticket

growthVars == <<campaign, business, delivery, ticket>>

CampaignStage ==
    {"trend_discovery", "competitor_monitoring", "keyword_research", "content_planning",
     "content_creation", "human_approval", "publishing", "analytics"}

Status == {"lead", "discovery", "analysis", "commercial", "approved", "in_factory",
           "maintenance"}

NoDelivery == [status |-> "none", url |-> FALSE, healthy |-> TRUE]

-----------------------------------------------------------------------------
(* marketing.js                                                            *)

\* createCampaign()
NewCampaign ==
    [stage |-> "trend_discovery", planned |-> FALSE,
     item |-> [i \in Items |-> "none"],
     approvals |-> [i \in Items |-> 0], publications |-> [i \in Items |-> 0]]

\* runTrendDiscovery(), runCompetitorScan(), runKeywordResearch(), planContent()
Research(stage) ==
    /\ campaign' = [campaign EXCEPT !.stage = stage, !.planned = @ \/ stage = "content_creation"]
    /\ UNCHANGED <<business, delivery, ticket>>

\* createContent(): drafts of what is planned, in place of the items there were.
CreateContent ==
    /\ campaign' = [campaign EXCEPT
           !.stage = "human_approval",
           !.item = [i \in Items |-> IF campaign.planned THEN "draft" ELSE "none"]]
    /\ UNCHANGED <<business, delivery, ticket>>

Approved(c, i) ==
    LET items == [c.item EXCEPT ![i] = "approved"]
    IN [c EXCEPT !.item = items, !.approvals[i] = @ + 1,
                 !.stage = IF \A j \in Items : items[j] = "approved" THEN "publishing" ELSE @]

\* approveContent(), of a published item, too.
ApproveContent(i) ==
    /\ campaign.item[i] # "none"
    /\ campaign.approvals[i] < MaxUses
    /\ campaign' = Approved(campaign, i)
    /\ UNCHANGED <<business, delivery, ticket>>

\* Mutant: what was published before is published again.
PublishableAgain(c) == {i \in Items : c.item[i] \in {"approved", "published"}}

\* The items that publishApproved() takes.
Publishable(c) == {i \in Items : c.item[i] = "approved"}

Published(c) ==
    [c EXCEPT !.stage = "analytics",
              !.item = [i \in Items |-> IF i \in Publishable(c) THEN "published" ELSE @[i]],
              !.publications = [i \in Items |->
                                   IF i \in Publishable(c) THEN @[i] + 1 ELSE @[i]]]

\* publishApproved()
PublishApproved ==
    /\ Publishable(campaign) # {}
    /\ \A i \in Items : campaign.publications[i] < MaxUses
    /\ campaign' = Published(campaign)
    /\ UNCHANGED <<business, delivery, ticket>>

\* The action "run_pipeline": all of it, on a new campaign.
RunPipeline ==
    /\ campaign' = Published([NewCampaign EXCEPT
           !.planned = TRUE, !.item = [i \in Items |-> "approved"],
           !.approvals = [i \in Items |-> 1]])
    /\ UNCHANGED <<business, delivery, ticket>>

-----------------------------------------------------------------------------
(* The engagement, with the status its calls give it.                      *)

StatusAt(stage, status) ==
    CASE stage = "client_approval" -> "approved"
      [] stage = "factory_ready" -> "in_factory"
      [] OTHER -> status

\* runBusinessAnalysis(), designSolution(), runCommercialAutomation() and
\* advanceGovernance()
Work ==
    /\ LET e == business.rec
       IN \/ business' = [business EXCEPT !.rec = Analysed(e), !.status = "analysis"]
          \/ \E d \in Designs :
                 /\ CanDesign(e)
                 /\ business' = [business EXCEPT !.rec = Designed(e, d), !.status = "commercial"]
          \/ CanQuote(e) /\ business' = [business EXCEPT !.rec = Quoted(e)]
          \/ \E s \in Advances :
                 /\ CanAdvance(e, s)
                 /\ business' = [business EXCEPT !.rec = Advanced(e, s),
                                                 !.status = StatusAt(s, @)]
    /\ UNCHANGED <<campaign, delivery, ticket>>

-----------------------------------------------------------------------------
(* delivery.js, and the tickets of ops.js                                  *)

\* createDeliveryRecord(), at any stage of the engagement, perhaps with its address.
CreateDelivery ==
    /\ delivery = NoDelivery
    /\ \E url \in BOOLEAN :
           delivery' = [status |-> "tracking", url |-> url, healthy |-> TRUE]
    /\ UNCHANGED <<campaign, business, ticket>>

\* markDeployed(), with the address that it is told, if any.
MarkDeployed ==
    /\ delivery # NoDelivery
    /\ \E url \in BOOLEAN :
           delivery' = [delivery EXCEPT !.status = "deployed", !.url = url]
    /\ UNCHANGED <<campaign, business, ticket>>

\* activateMaintenance(), which puts the engagement in maintenance, too.
ActivateMaintenance ==
    /\ delivery # NoDelivery
    /\ delivery' = [delivery EXCEPT !.status = "maintenance"]
    /\ business' = [business EXCEPT !.status = "maintenance", !.renewal = TRUE]
    /\ UNCHANGED <<campaign, ticket>>

\* healthCheck()
HealthCheck ==
    /\ delivery # NoDelivery
    /\ delivery' = [delivery EXCEPT !.healthy = delivery.url]
    /\ UNCHANGED <<campaign, business, ticket>>

\* createTicket(), updateTicket()
Ticket ==
    /\ \/ ticket = "none" /\ ticket' = "open"
       \/ ticket # "none" /\ ticket' \in {"open", "closed"}
    /\ UNCHANGED <<campaign, business, delivery>>

GrowthInit ==
    /\ campaign = NewCampaign
    /\ \E status \in {"lead", "discovery"} :
           business = [rec |-> New, status |-> status, renewal |-> FALSE]
    /\ delivery = NoDelivery
    /\ ticket = "none"

\* The two halves share nothing.
MarketingNext ==
    \/ \E stage \in {"competitor_monitoring", "keyword_research", "content_planning",
                     "content_creation"} : Research(stage)
    \/ CreateContent \/ PublishApproved \/ RunPipeline
    \/ \E i \in Items : ApproveContent(i)

BusinessNext ==
    \/ Work
    \/ CreateDelivery \/ MarkDeployed \/ ActivateMaintenance \/ HealthCheck
    \/ Ticket

GrowthNext == MarketingNext \/ BusinessNext

GrowthSpec == GrowthInit /\ [][GrowthNext]_growthVars

-----------------------------------------------------------------------------
(* ops.js, kpis.js: the numbers of one engagement, which are added up.     *)

Count(b) == IF b THEN 1 ELSE 0

\* getOpsSnapshot()
OpsSnapshot ==
    LET s == business.status
    IN [leads |-> Count(s = "lead"),
        active |-> Count(s \in {"in_factory", "delivered", "maintenance"}),
        booked |-> Count("deposit" \in business.rec.given /\ business.rec.commercial # NoDna),
        maintenance |-> Count(s = "maintenance"),
        renewals |-> Count(s = "maintenance" /\ business.renewal),
        open |-> Count(ticket \notin {"none", "closed"})]

\* getBusinessKpis(); a campaign's publications are added up item by item.
Kpis ==
    [proposals |-> Count(business.rec.commercial # NoDna),
     eligible |-> Count(business.rec.eligible),
     in_factory |-> Count(business.status = "in_factory"),
     deployments |-> Count(delivery.status = "deployed"),
     published |-> campaign.publications]

GrowthTypeOK ==
    /\ campaign.stage \in CampaignStage
    /\ campaign.planned \in BOOLEAN
    /\ campaign.item \in [Items -> {"none", "draft", "approved", "published"}]
    /\ campaign.approvals \in [Items -> 0 .. MaxUses]
    /\ campaign.publications \in [Items -> 0 .. MaxUses]
    /\ business \in [rec : Record, status : Status, renewal : BOOLEAN]
    /\ delivery \in [status : {"none", "tracking", "deployed", "maintenance"},
                     url : BOOLEAN, healthy : BOOLEAN]
    /\ ticket \in {"none", "open", "closed"}

\* Whatever is created, approved and published how often and in whatever order,
\* every publication of an item has an approval of its own, and a campaign is at
\* publishing only with nothing left to approve.  And what the dashboards count was
\* earned: an engagement in the factory passed its gate and its money is booked, and
\* every maintenance contract is due for renewal.
CountsEarned ==
    /\ \A i \in Items : Kpis.published[i] + Count(campaign.item[i] = "approved")
                            <= campaign.approvals[i]
    /\ campaign.stage = "publishing" => \A i \in Items : campaign.item[i] = "approved"
    /\ Kpis.in_factory <= Kpis.eligible
    /\ Kpis.in_factory <= OpsSnapshot.booked
    /\ OpsSnapshot.maintenance = OpsSnapshot.renewals

=============================================================================
