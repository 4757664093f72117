----------------------------- MODULE AppPartsMC -----------------------------
(***************************************************************************)
(* Model checking of the parts of the enterprise app beside the            *)
(* engagement service: authentication, the client's portal, the            *)
(* consultants' pages, the voice dock, marketing, delivery and the         *)
(* numbers, the leads, and the rate limit.  Each behaviour runs one part,  *)
(* the others stay in their initial state, so the run explores the parts   *)
(* one beside the other and not their product.                             *)
(***************************************************************************)
EXTENDS AppAuth, ClientPortal, ConsultPages, VoiceDock, Growth, LeadIntake,
        RateLimit, TLC

VARIABLE part

CONSTANTS d1, owner, member, c1, c2, e1, e2, e3, y1, x1, x2

-----------------------------------------------------------------------------
(* The instances.                                                          *)

MCReviewed == [New EXCEPT !.reached = Review, !.confident = TRUE]
MCProposed == Packaged(MCReviewed, d1)
MCInternal == Advanced(MCProposed, "internal_approval")
MCAccepted == Advanced(MCInternal, "client_approval")
MCPaid == Advanced(MCAccepted, "deposit_received")

\* Two engagements of one client, accepted and proposed, and one of another, which
\* is deployed; the first may come to be delivered.
MCClientOf == [e \in Engs |-> IF e = e3 THEN c2 ELSE c1]
MCDelivered == [d \in Deliveries |-> IF d = y1 THEN e3 ELSE e1]
MCBuilt == [d \in Deliveries |-> IF d = y1 THEN "deployed" ELSE "none"]
MCStart == [e \in Engs |-> IF e = e1 THEN MCAccepted
                           ELSE IF e = e2 THEN MCProposed ELSE MCReviewed]
MCVisitors == {[role |-> "client", linked |-> e1], [role |-> "owner", linked |-> NoEng]}

\* An engagement that was paid for, or one that was reviewed, and room for another.
MCOpened == {[x \in Cases |-> IF x = x1 THEN r ELSE NoRecord] : r \in {MCPaid, MCReviewed}}

-----------------------------------------------------------------------------

Init ==
    /\ part \in {"auth", "portal", "pages", "dock", "marketing", "business", "leads",
                "limit"}
    /\ AuthInit /\ DockInit /\ LeadsInit /\ RateInit
    /\ IF part = "portal" THEN PortalInit
       ELSE PortalInit /\ visitor.role = "owner" /\ field = NoClient
                       /\ latest = [c \in Clients |-> IF c = c2 THEN e3 ELSE e1]
    /\ IF part = "pages" THEN PagesInit
       ELSE PagesInit /\ records[x1] = MCReviewed /\ desk.call = "load"
    /\ IF part = "business" THEN GrowthInit ELSE GrowthInit /\ business.status = "lead"
    /\ part # "leads" => storage = "tmp"

Next ==
    \/ /\ part = "auth" /\ AuthNext
       /\ UNCHANGED <<portalVars, pagesVars, dockVars, growthVars, leadVars, rateVars, part>>
    \/ /\ part = "portal" /\ PortalNext
       /\ UNCHANGED <<authVars, pagesVars, dockVars, growthVars, leadVars, rateVars, part>>
    \/ /\ part = "pages" /\ PagesNext
       /\ UNCHANGED <<authVars, portalVars, dockVars, growthVars, leadVars, rateVars, part>>
    \/ /\ part = "dock" /\ DockNext
       /\ UNCHANGED <<authVars, portalVars, pagesVars, growthVars, leadVars, rateVars, part>>
    \/ /\ part = "marketing" /\ MarketingNext
       /\ UNCHANGED <<authVars, portalVars, pagesVars, dockVars, leadVars, rateVars, part>>
    \/ /\ part = "business" /\ BusinessNext
       /\ UNCHANGED <<authVars, portalVars, pagesVars, dockVars, leadVars, rateVars, part>>
    \/ /\ part = "leads" /\ LeadsNext
       /\ UNCHANGED <<authVars, portalVars, pagesVars, dockVars, growthVars, rateVars, part>>
    \/ /\ part = "limit" /\ RateNext
       /\ UNCHANGED <<authVars, portalVars, pagesVars, dockVars, growthVars, leadVars, part>>

Spec == Init /\ [][Next]_<<authVars, portalVars, pagesVars, dockVars, growthVars, leadVars,
                           rateVars, part>>

\* Every variable of the part that runs has its type in every state.
TypeOK ==
    /\ part = "auth" => AuthTypeOK
    /\ part = "portal" => PortalTypeOK
    /\ part = "pages" => PagesTypeOK
    /\ part = "dock" => DockTypeOK
    /\ part \in {"marketing", "business"} => GrowthTypeOK
    /\ part = "leads" => LeadsTypeOK
    /\ part = "limit" => RateTypeOK

\* What the screens of the portal, of the consultants and of the dock tell their users
\* is so.
ScreensHold == PortalHolds /\ PagesHold /\ OneMic

=============================================================================
