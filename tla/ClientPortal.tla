---------------------------- MODULE ClientPortal ----------------------------
(***************************************************************************)
(* The client portal: one browser page (app/portal/page.tsx) over the      *)
(* routes api/portal and api/checkout, which work on the engagements with  *)
(* portal.js, while the consultants go on changing them and recording      *)
(* their deliveries (api/delivery, delivery.js).                           *)
(*                                                                         *)
(* The page shows a view that the server made some time ago and offers the *)
(* actions that the view allows.  Its effects and its buttons start calls  *)
(* that may be answered in any order, or fail.  The server runs each call  *)
(* at once; what happens between its instances is EngagementService's.     *)
(***************************************************************************)
EXTENDS Engagement, AccessRules

CONSTANTS
    Engs,       \* engagements
    Clients,    \* client names
    NoClient,   \* an empty name
    ClientOf,   \* the client of an engagement
    Deliveries, \* delivery records, the client's "builds"
    Delivered,  \* the engagement that each one is of
    Built,      \* how far each one is when the page is opened
    NoEng,      \* no engagement linked to the account
    Slots,      \* calls of the page that can be under way
    Moves,      \* stages that the consultants advance to
    Start,      \* the record that an engagement has when the page is opened
    Visitors,   \* who may open it: the role and the engagement linked to the account
    Seeds,      \* the clients that its address may name
    MaxSaves    \* bound on what the server saves

ASSUME PortalAssumption ==
    /\ ClientOf \in [Engs -> Clients]
    /\ Delivered \in [Deliveries -> Engs]
    /\ Built \in [Deliveries -> {"none", "tracking", "deployed", "maintenance"}]
    /\ NoClient \notin Clients
    /\ NoEng \notin Engs
    /\ Moves \subseteq Stage
    /\ Start \in [Engs -> Record]
    /\ Visitors \subseteq [role : RawRoles, linked : Engs \cup {NoEng}]
    /\ Seeds \subseteq Clients \cup {NoClient}
    /\ MaxSaves \in Nat

VARIABLES
    book,      \* the record of each engagement
    latest,    \* the engagement of a client that was saved last, listed first
    build,     \* the status of each delivery, "none" before there is a record
    tickets,   \* the tickets, as the client and the engagement they name
    saves,     \* how often the server has saved something
    visitor,   \* who looks: the role and the engagement linked to the account
    field,     \* the client that the picker shows
    view,      \* what the page shows, NoView if it is empty
    busy,      \* a call is being waited for: the buttons are disabled
    scoped,    \* the page knows that its user is a client: the picker is hidden
    calls,     \* the calls under way
    checkout   \* the engagement whose checkout the browser has gone to, NoEng if none

serverVars == <<book, latest, build, tickets, saves>>
pageVars == <<field, view, busy, scoped>>
portalVars == <<serverVars, visitor, pageVars, calls, checkout>>

NoView == [client |-> NoClient]

Free == [kind |-> "none"]

-----------------------------------------------------------------------------
(* portal.js                                                               *)

\* The statuses of a client's deliveries.
BuildsOf(c) == {build[d] : d \in {b \in Deliveries : ClientOf[Delivered[b]] = c}}

\* getClientPortalView(): what the page asks of an engagement and of its client's
\* deliveries, ..
ViewOf(e) ==
    [client |-> ClientOf[e], primary |-> e, builds |-> BuildsOf(ClientOf[e]),
     signed |-> book[e].given,
     quoted |-> book[e].commercial # NoDna, ready |-> book[e].eligible,
     analysed |-> book[e].analysis \/ book[e].reached >= Gaps]

\* .. the engagement being the first one of the client.
View(c) == ViewOf(latest[c])

\* can_approve
CanApprove(v) == v.quoted /\ "client" \notin v.signed

\* can_confirm_deposit
CanConfirm(v) == "client" \in v.signed /\ "deposit" \notin v.signed

\* deriveProjectStatus(): the progress in percent.
Progress(v) ==
    IF "maintenance" \in v.builds THEN 100
    ELSE IF "deployed" \in v.builds THEN 95
    ELSE IF v.ready THEN 70
    ELSE IF "deposit" \in v.signed THEN 55
    ELSE IF "client" \in v.signed THEN 45
    ELSE IF v.quoted THEN 35
    ELSE IF v.analysed THEN 25
    ELSE 15

\* milestoneState(): whether a milestone of the given week is done.
MilestoneDone(v, week) ==
    \/ week <= 2 /\ (v.ready \/ "deposit" \in v.signed)
    \/ week <= 1 /\ "client" \in v.signed

Save(e, r) ==
    /\ saves < MaxSaves
    /\ book' = [book EXCEPT ![e] = r]
    /\ latest' = [latest EXCEPT ![ClientOf[e]] = e]
    /\ saves' = saves + 1

\* The stage that an action of the page advances to.
StageFor(action) == IF action = "approve" THEN "client_approval" ELSE "deposit_received"

\* POST api/portal: clientApprove() and clientConfirmDeposit(), ..
Approves(call) ==
    /\ call.action \in {"approve", "confirm"}
    /\ CanAdvance(book[call.eng], StageFor(call.action))
    /\ Save(call.eng, Advanced(book[call.eng], StageFor(call.action)))
    /\ UNCHANGED <<build, tickets>>

\* .. clientComment(), clientUploadMeta() and clientScheduleMeeting(), ..
Annotates(call) ==
    /\ call.action = "note"
    /\ Save(call.eng, book[call.eng])
    /\ UNCHANGED <<build, tickets>>

\* .. and clientCreateTicket(), for the client of the picker.
Files(call) ==
    /\ call.action = "ticket"
    /\ tickets' = tickets \cup
           {[client |-> call.client,
             eng |-> IF call.client = NoClient THEN NoEng ELSE latest[call.client]]}
    /\ saves < MaxSaves /\ saves' = saves + 1
    /\ UNCHANGED <<book, latest, build>>

\* getSessionUser(), as api/me tells it.
IsClient == visitor.role \notin {"owner", "admin"}

\* The middleware, for the account that looks.
Permitted(path, method) == HasAccess(AccessOfRaw(visitor.role), RequiredAccess(path, method))

-----------------------------------------------------------------------------
(* The page.                                                               *)

\* The effects that run when the page is mounted: it asks who looks, and loads the
\* client that the address names, if it names one.
Mounted(seed) ==
    [s \in Slots |->
        CASE s = 1 -> [kind |-> "me"]
          [] s = 2 /\ seed # NoClient -> [kind |-> "load", client |-> seed]
          [] OTHER -> Free]

\* load()
LoadCall(c) == [kind |-> "load", client |-> c]

\* GET api/portal, as it leaves the server.
ServeView(s) ==
    /\ calls[s].kind = "load" /\ latest[calls[s].client] # NoEng
    /\ calls' = [calls EXCEPT ![s] = [kind |-> "shown", view |-> View(calls[s].client)]]
    /\ UNCHANGED <<serverVars, visitor, pageVars, checkout>>

\* load() has its answer.  Whichever answer comes last is shown.
Show(s) ==
    /\ calls[s].kind = "shown"
    /\ view' = calls[s].view
    /\ field' = calls[s].view.client
    /\ busy' = FALSE
    /\ calls' = [calls EXCEPT ![s] = Free]
    /\ UNCHANGED <<serverVars, visitor, scoped, checkout>>

\* load() fails, or the client has no engagements: the page is emptied.
ShowError(s) ==
    /\ calls[s].kind \in {"load", "shown"}
    /\ view' = NoView
    /\ busy' = FALSE
    /\ calls' = [calls EXCEPT ![s] = Free]
    /\ UNCHANGED <<serverVars, visitor, field, scoped, checkout>>

\* The first effect, api/me: whom the session takes for a client is led to the
\* engagement linked to the account, ..
Scope(s) ==
    /\ calls[s].kind = "me"
    /\ scoped' = IsClient
    /\ calls' = [calls EXCEPT ![s] = IF IsClient /\ visitor.linked # NoEng
                                     THEN [kind |-> "linked"] ELSE Free]
    /\ UNCHANGED <<serverVars, visitor, field, view, busy, checkout>>

\* .. whose client is asked for and then loaded.
ScopeTo(s) ==
    /\ calls[s].kind = "linked"
    /\ field' = ClientOf[visitor.linked]
    /\ busy' = TRUE
    /\ calls' = [calls EXCEPT ![s] = LoadCall(ClientOf[visitor.linked])]
    /\ UNCHANGED <<serverVars, visitor, view, scoped, checkout>>

\* api/me or api/engagements fails: the picker stays.
ScopeFails(s) ==
    /\ calls[s].kind \in {"me", "linked"}
    /\ calls' = [calls EXCEPT ![s] = Free]
    /\ UNCHANGED <<serverVars, visitor, pageVars, checkout>>

\* The picker: the view stays as it is.
Pick(c) ==
    /\ ~ scoped /\ checkout = NoEng
    /\ field' = c
    /\ UNCHANGED <<serverVars, visitor, view, busy, scoped, calls, checkout>>

\* A button that starts a call.
Press(s, call) ==
    /\ ~ busy /\ checkout = NoEng
    /\ calls[s] = Free
    /\ busy' = TRUE
    /\ calls' = [calls EXCEPT ![s] = call]
    /\ UNCHANGED <<serverVars, visitor, field, view, scoped, checkout>>

\* "Open portal"
Open(s) == ~ scoped /\ field # NoClient /\ Press(s, LoadCall(field))

\* action(): the engagement is the view's, the client the picker's.
PostCall(action) ==
    [kind |-> "post", action |-> action, eng |-> view.primary, client |-> field]

\* "Approve proposal", "Accept proposal"
ClickApprove(s) == view # NoView /\ CanApprove(view) /\ Press(s, PostCall("approve"))

\* "Confirm deposit paid"
ClickConfirm(s) == view # NoView /\ CanConfirm(view) /\ Press(s, PostCall("confirm"))

\* "Send comment", "Record upload", "Request meeting": all add to the record what
\* nothing here reads, and save it.
ClickNote(s) == view # NoView /\ Press(s, PostCall("note"))

\* "Submit ticket"
ClickTicket(s) == view # NoView /\ Press(s, PostCall("ticket"))

\* "Approve & pay deposit": offered with any proposal, accepted or not.
ClickPay(s) ==
    /\ view # NoView /\ view.quoted
    /\ Press(s, [kind |-> "pay", eng |-> view.primary])

\* POST api/portal, as it leaves the server: refused by the middleware or by the
\* engagement's stage, or done.
ServePost(s) ==
    /\ calls[s].kind = "post"
    /\ \/ /\ Permitted("portal", "POST")
          /\ Approves(calls[s]) \/ Annotates(calls[s]) \/ Files(calls[s])
          /\ calls' = [calls EXCEPT ![s] = [kind |-> "posted", client |-> calls[s].client]]
       \/ /\ ~ Permitted("portal", "POST")
             \/ /\ calls[s].action \in {"approve", "confirm"}
                /\ ~ CanAdvance(book[calls[s].eng], StageFor(calls[s].action))
          /\ calls' = [calls EXCEPT ![s] = [kind |-> "failed"]]
          /\ UNCHANGED serverVars
    /\ UNCHANGED <<visitor, pageVars, checkout>>

\* action() goes on to load the client that the picker showed when it was clicked.
Reload(s) ==
    /\ calls[s].kind = "posted"
    /\ calls' = [calls EXCEPT ![s] =
           IF calls[s].client = NoClient THEN Free ELSE LoadCall(calls[s].client)]
    /\ busy' = (calls[s].client # NoClient)
    /\ UNCHANGED <<serverVars, visitor, field, view, scoped, checkout>>

\* A call fails, or its answer is lost after the server has worked.
CallFails(s) ==
    /\ calls[s].kind \in {"post", "posted", "failed", "pay"}
    /\ busy' = FALSE
    /\ calls' = [calls EXCEPT ![s] = Free]
    /\ UNCHANGED <<serverVars, visitor, field, view, scoped, checkout>>

\* api/checkout, open to all, has made a session: the browser leaves the page.
Leave(s) ==
    /\ calls[s].kind = "pay"
    /\ Permitted("checkout", "POST")
    /\ checkout' = calls[s].eng
    /\ calls' = [t \in Slots |-> Free]
    /\ field' = NoClient /\ view' = NoView /\ busy' = FALSE /\ scoped' = FALSE
    /\ UNCHANGED <<serverVars, visitor>>

\* Back from the checkout, paid or cancelled: the page is mounted again.
Return ==
    /\ checkout # NoEng
    /\ checkout' = NoEng
    /\ calls' = Mounted(NoClient)
    /\ UNCHANGED <<serverVars, visitor, pageVars>>

-----------------------------------------------------------------------------
(* The others.                                                             *)

Passed(r, stage) == IF CanAdvance(r, stage) THEN Advanced(r, stage) ELSE r

\* advanceEngineGovernance(), when the payment is announced.
Settle ==
    /\ checkout # NoEng
    /\ CanAdvance(book[checkout], "deposit_received")
    /\ Save(checkout, Passed(Passed(book[checkout], "client_approval"), "deposit_received"))
    /\ UNCHANGED <<build, tickets, visitor, pageVars, calls, checkout>>

\* A consultant advances an engagement, or makes its proposal.
Consult(e) ==
    /\ \/ \E stage \in Moves :
              CanAdvance(book[e], stage) /\ Save(e, Advanced(book[e], stage))
       \/ \E d \in Designs : CanPackage(book[e]) /\ Save(e, Packaged(book[e], d))
    /\ UNCHANGED <<build, tickets, visitor, pageVars, calls, checkout>>

\* Mutant: a record is made over the one that there is.
DeliverAnew(d) ==
    /\ \/ /\ \E status \in {"tracking", "deployed"} : build' = [build EXCEPT ![d] = status]
          /\ saves < MaxSaves /\ saves' = saves + 1
          /\ UNCHANGED <<book, latest>>
       \/ /\ build' = [build EXCEPT ![d] = "maintenance"]
          /\ Save(Delivered[d], book[Delivered[d]])
    /\ UNCHANGED <<tickets, visitor, pageVars, calls, checkout>>

\* createDeliveryRecord(), markDeployed() and activateMaintenance(), which look at no
\* status: a deployment may be recorded, or recorded again, after maintenance began.
\* activateMaintenance() saves the engagement too.
Deliver(d) ==
    /\ \/ /\ \/ build[d] = "none" /\ build' = [build EXCEPT ![d] = "tracking"]
             \/ build[d] # "none" /\ build' = [build EXCEPT ![d] = "deployed"]
          /\ saves < MaxSaves /\ saves' = saves + 1
          /\ UNCHANGED <<book, latest>>
       \/ /\ build[d] # "none" /\ build' = [build EXCEPT ![d] = "maintenance"]
          /\ Save(Delivered[d], book[Delivered[d]])
    /\ UNCHANGED <<tickets, visitor, pageVars, calls, checkout>>

PortalInit ==
    /\ book = Start /\ build = Built
    /\ latest \in {first \in [Clients -> Engs \cup {NoEng}] :
           \A c \in Clients : IF first[c] = NoEng THEN \A e \in Engs : ClientOf[e] # c
                                              ELSE ClientOf[first[c]] = c}
    /\ tickets = {} /\ saves = 0
    /\ visitor \in Visitors
    /\ \E seed \in Seeds :
           calls = Mounted(seed) /\ field = seed /\ busy = (seed # NoClient)
    /\ view = NoView /\ scoped = FALSE /\ checkout = NoEng

PortalNext ==
    \/ \E s \in Slots :
           \/ ServeView(s) \/ Show(s) \/ ShowError(s)
           \/ Scope(s) \/ ScopeTo(s) \/ ScopeFails(s)
           \/ Open(s) \/ ClickApprove(s) \/ ClickConfirm(s) \/ ClickNote(s)
           \/ ClickTicket(s) \/ ClickPay(s)
           \/ ServePost(s) \/ Reload(s) \/ CallFails(s) \/ Leave(s)
    \/ \E c \in Clients \cup {NoClient} : Pick(c)
    \/ Return \/ Settle
    \/ \E e \in Engs : Consult(e)
    \/ \E d \in Deliveries : Deliver(d)

PortalSpec == PortalInit /\ [][PortalNext]_portalVars

-----------------------------------------------------------------------------

BuildState == {"none", "tracking", "deployed", "maintenance"}

Views ==
    [client : Clients, primary : Engs, builds : SUBSET BuildState, signed : SUBSET Approval,
     quoted : BOOLEAN, ready : BOOLEAN, analysed : BOOLEAN]

CallSet ==
    {Free} \cup [kind : {"me", "linked", "failed"}]
           \cup [kind : {"load"}, client : Clients]
           \cup [kind : {"posted"}, client : Clients \cup {NoClient}]
           \cup [kind : {"shown"}, view : Views]
           \cup [kind : {"pay"}, eng : Engs]
           \cup [kind : {"post"}, eng : Engs, client : Clients \cup {NoClient},
                 action : {"approve", "confirm", "note", "ticket"}]

PortalTypeOK ==
    /\ book \in [Engs -> Record]
    /\ latest \in [Clients -> Engs \cup {NoEng}]
    /\ build \in [Deliveries -> BuildState]
    /\ tickets \subseteq [client : Clients \cup {NoClient}, eng : Engs \cup {NoEng}]
    /\ saves \in 0 .. MaxSaves
    /\ visitor \in [role : RawRoles, linked : Engs \cup {NoEng}]
    /\ field \in Clients \cup {NoClient}
    /\ view \in {NoView} \cup Views
    /\ busy \in BOOLEAN /\ scoped \in BOOLEAN
    /\ calls \in [Slots -> CallSet]
    /\ checkout \in Engs \cup {NoEng}

\* What a view says is still so: what was signed, made or done is not undone, and
\* the progress shown is not ahead of the engagement's, but for one setback that the
\* server makes itself: a deployment recorded after maintenance began takes it from
\* 100 to 95, and no further.
Holds(v) ==
    LET now == ViewOf(v.primary)
    IN /\ v.client = now.client
       /\ v.signed \subseteq now.signed
       /\ v.quoted => now.quoted
       /\ \/ Progress(v) <= Progress(now)
          \/ Progress(v) = 100 /\ Progress(now) = 95
       /\ \A week \in 0 .. 3 : MilestoneDone(v, week) => MilestoneDone(now, week)

\* However old the view is and whichever answer came last, what the page shows holds
\* as Holds says, and it asks for nothing premature: an acceptance only of a proposal
\* that was made, a deposit only once it was accepted.  A ticket names an engagement
\* of its client.
PortalHolds ==
    /\ view # NoView => Holds(view)
    /\ \A s \in Slots :
           /\ calls[s].kind = "shown" => Holds(calls[s].view)
           /\ calls[s].kind = "post" =>
                  LET r == book[calls[s].eng]
                  IN /\ calls[s].action = "approve" => r.commercial # NoDna
                     /\ calls[s].action = "confirm" => "client" \in r.given
    /\ \A t \in tickets : t.eng # NoEng => ClientOf[t.eng] = t.client

=============================================================================
