---------------------------- MODULE PagesProofs ----------------------------
(***************************************************************************)
(* What the pages tell their users is so.  The portal shows a client what  *)
(* has come about of its own engagement; the consultants' pages show a     *)
(* stage that their engagement has reached, and a package or a handoff     *)
(* only of one that has it.  For any engagements, clients, visitors and    *)
(* designs, any number of calls of the portal under way, and any records   *)
(* to begin with that the calls could have made.                           *)
(*                                                                         *)
(* The argument is the same for both.  A call never takes back what was    *)
(* approved, made or reached (Grown), so a copy of a record, however late  *)
(* it is shown, is of one that has come to be the present record; only a   *)
(* call that held its record across the language model undoes that.        *)
(***************************************************************************)
EXTENDS ClientPortal, ConsultPages, TLAPS

-----------------------------------------------------------------------------
(* What the calls make of a record.                                        *)

\* A record that came from another: what was approved, made or reached is kept.
Grown(r, t) ==
    /\ r.given \subseteq t.given
    /\ r.dna # NoDna => t.dna # NoDna
    /\ r.commercial # NoDna => t.commercial # NoDna
    /\ r.analysis => t.analysis
    /\ r.eligible => t.eligible
    /\ r.reached <= t.reached

\* A record as a call leaves it.
GrownRecord(r, t) ==
    /\ t \in Record
    /\ Grown(r, t)
    /\ Sound(r) => Sound(t)

LEMMA GrownTogether ==
  ASSUME NEW r \in Record, NEW s \in Record, NEW t \in Record, Grown(r, s), Grown(s, t)
  PROVE  Grown(r, t)
  BY DEF Grown, Record, Interview, Package

LEMMA GrownSame == ASSUME NEW r \in Record PROVE Grown(r, r)
  BY DEF Grown, Record, Interview, Package

LEMMA NewRecord == New \in Record /\ Sound(New)
  BY DEF New, Record, Sound, Stage, Rank, Interview, Package

LEMMA FirstOfAll == ASSUME NEW r \in Record PROVE Grown(New, r)
  BY DEF New, Grown, Record, Interview, Package

LEMMA AdvancedRecord ==
  ASSUME NEW r \in Record, NEW s \in Stage, CanAdvance(r, s)
  PROVE  /\ GrownRecord(r, Advanced(r, s))
         /\ Advanced(r, s).eligible => r.eligible \/ Eligible(r)
         /\ Advanced(r, s).eligible = (r.eligible \/ s = "factory_ready")
         /\ Advanced(r, s).dna = r.dna /\ Advanced(r, s).commercial = r.commercial
  <1>1. PICK g \in SUBSET Approval : g = r.given \cup Signs(s)
    BY DEF Record, Signs, Approval
  <1>2. PICK a \in Designs \cup {NoDna} : a = IF s = "client_approval" THEN r.dna ELSE r.approved
    BY DEF Record
  <1>3. PICK b \in BOOLEAN : b = (r.eligible \/ s = "factory_ready")
    BY DEF Record
  <1>o. PICK o \in SUBSET Approval : o = r.overwritten \cup (r.given \cap Signs(s))
    BY DEF Record, Signs, Approval
  <1>4. Advanced(r, s) = [r EXCEPT !.stage = s, !.given = g, !.overwritten = o, !.approved = a,
                                   !.eligible = b]
    BY <1>1, <1>2, <1>3, <1>o DEF Advanced
  <1>5. PICK t : t = Advanced(r, s)
    OBVIOUS
  <1>6. /\ t \in Record
        /\ t.stage = s /\ t.given = g /\ t.approved = a /\ t.eligible = b
        /\ t.analysis = r.analysis /\ t.dna = r.dna /\ t.commercial = r.commercial
        /\ t.reached = r.reached
    BY <1>4, <1>5 DEF Record
  <1>7. Grown(r, t)
    BY <1>1, <1>3, <1>6 DEF Grown, Record, Interview, Package
  <1>8. b => r.eligible \/ Eligible(r)
    BY <1>3 DEF CanAdvance
  <1>9. ASSUME Sound(r)
        PROVE  Sound(t)
    <2>1. b => g = Approval /\ r.commercial # NoDna
      BY <1>1, <1>8, <1>9 DEF Sound, Eligible, Signs, Approval
    <2>2. s = "factory_ready" => b
      BY <1>3
    <2>3. s = "client_approval" => "client" \in g
      BY <1>1 DEF Signs
    <2>4. a # NoDna => "client" \in g
      BY <1>1, <1>2, <1>9, <2>3 DEF Sound
    <2> QED
      BY <1>6, <1>9, <2>1, <2>2, <2>3, <2>4 DEF Sound
  <1> QED
    BY <1>3, <1>5, <1>6, <1>7, <1>8, <1>9 DEF GrownRecord

LEMMA PackagedRecord ==
  ASSUME NEW r \in Record, NEW d \in Designs
  PROVE  GrownRecord(r, Packaged(r, d))
  <1>1. PICK n \in Interview .. Package : n = IF r.reached < Package THEN Package ELSE r.reached
    BY DEF Record, Interview, Package
  <1>2. n = Package /\ r.reached <= n
    BY <1>1 DEF Record, Interview, Package
  <1>3. Reach(r, Package) = [r EXCEPT !.reached = n]
    BY <1>1 DEF Reach, Record
  <1>4. PICK t : t = Packaged(r, d)
    OBVIOUS
  <1>5. /\ t \in Record
        /\ t.stage = "commercial_review" /\ t.analysis = TRUE /\ t.dna = d /\ t.commercial = d
        /\ t.reached = n /\ t.given = r.given /\ t.approved = r.approved
        /\ t.eligible = r.eligible
    BY <1>3, <1>4 DEF Packaged, Record, Stage, Rank
  <1>6. Grown(r, t)
    BY <1>2, <1>5, DesignAssumption DEF Grown, Record
  <1> QED
    BY <1>4, <1>5, <1>6, DesignAssumption DEF GrownRecord, Sound

\* The calls of engagements.js that come before governance.
LEMMA DesignedRecord ==
  ASSUME NEW r \in Record
  PROVE  /\ GrownRecord(r, Analysed(r)) /\ Analysed(r).eligible = r.eligible
         /\ CanDesign(r) => \A d \in Designs : GrownRecord(r, Designed(r, d))
                                               /\ Designed(r, d).eligible = r.eligible
         /\ CanQuote(r) => GrownRecord(r, Quoted(r)) /\ Quoted(r).eligible = r.eligible
  <1>1. GrownRecord(r, Analysed(r)) /\ Analysed(r).eligible = r.eligible
    <2>1. PICK t : t = Analysed(r)
      OBVIOUS
    <2>2. /\ t \in Record
          /\ t.stage = "business_analysis" /\ t.analysis = TRUE /\ t.dna = r.dna
          /\ t.commercial = r.commercial /\ t.reached = r.reached /\ t.given = r.given
          /\ t.approved = r.approved /\ t.eligible = r.eligible
      BY <2>1 DEF Analysed, Record, Stage, Rank
    <2>3. Grown(r, t)
      BY <2>2 DEF Grown, Record, Interview, Package
    <2> QED
      BY <2>1, <2>2, <2>3 DEF GrownRecord, Sound
  <1>2. ASSUME CanDesign(r), NEW d \in Designs
        PROVE  GrownRecord(r, Designed(r, d)) /\ Designed(r, d).eligible = r.eligible
    <2>1. PICK t : t = Designed(r, d)
      OBVIOUS
    <2>2. /\ t \in Record
          /\ t.stage = "solution_design" /\ t.analysis = r.analysis /\ t.dna = d
          /\ t.commercial = r.commercial /\ t.reached = r.reached /\ t.given = r.given
          /\ t.approved = r.approved /\ t.eligible = r.eligible
      BY <2>1 DEF Designed, Record, Stage, Rank
    <2>3. Grown(r, t)
      BY <2>2, DesignAssumption DEF Grown, Record, Interview, Package
    <2> QED
      BY <1>2, <2>1, <2>2, <2>3, DesignAssumption DEF GrownRecord, Sound, CanDesign
  <1>3. ASSUME CanQuote(r)
        PROVE  GrownRecord(r, Quoted(r)) /\ Quoted(r).eligible = r.eligible
    <2>1. PICK t : t = Quoted(r)
      OBVIOUS
    <2>2. /\ t \in Record
          /\ t.stage = "commercial_review" /\ t.analysis = r.analysis /\ t.dna = r.dna
          /\ t.commercial = r.dna /\ t.reached = r.reached /\ t.given = r.given
          /\ t.approved = r.approved /\ t.eligible = r.eligible
      BY <2>1 DEF Quoted, Record, Stage, Rank
    <2>3. Grown(r, t)
      BY <1>3, <2>2 DEF Grown, Record, Interview, Package, CanQuote
    <2> QED
      BY <1>3, <2>1, <2>2, <2>3 DEF GrownRecord, Sound, CanQuote
  <1> QED
    BY <1>1, <1>2, <1>3

LEMMA EligibleGrown ==
  ASSUME NEW r \in Record, NEW t \in Record, Grown(r, t), Eligible(r)
  PROVE  Eligible(t)
  BY DEF Grown, Eligible, Record

-----------------------------------------------------------------------------
(* The client's portal.                                                    *)

\* What a view says of an engagement has come about in its record.
Since(v, r) ==
    /\ v.signed \subseteq r.given
    /\ v.quoted => r.commercial # NoDna
    /\ v.ready => r.eligible
    /\ v.analysed => r.analysis \/ r.reached >= Gaps

StillSo(v, b) == v \in Views /\ v.client = ClientOf[v.primary] /\ Since(v, b[v.primary])

\* What a call was started for has come about.
CallFits(call, b, who) ==
    /\ call \in CallSet
    /\ call.kind = "linked" => who.linked # NoEng
    /\ call.kind = "shown" => StillSo(call.view, b)
    /\ call.kind = "post" =>
           /\ call.action = "approve" => b[call.eng].commercial # NoDna
           /\ call.action = "confirm" => "client" \in b[call.eng].given

LatestFits(first) ==
    /\ first \in [Clients -> Engs \cup {NoEng}]
    /\ \A c \in Clients : first[c] # NoEng => ClientOf[first[c]] = c

TicketFits(t) ==
    /\ t \in [client : Clients \cup {NoClient}, eng : Engs \cup {NoEng}]
    /\ t.eng # NoEng => ClientOf[t.eng] = t.client

\* The server's half, the page's, and that what the page and its calls were told of an
\* engagement is so: a record only gains what a view can show.
ServerFits ==
    /\ book \in [Engs -> Record]
    /\ LatestFits(latest)
    /\ build \in [Deliveries -> BuildState]
    /\ \A t \in tickets : TicketFits(t)
    /\ saves \in 0 .. MaxSaves

BrowserFits ==
    /\ visitor \in [role : RawRoles, linked : Engs \cup {NoEng}]
    /\ field \in Clients \cup {NoClient}
    /\ view # NoView => StillSo(view, book)
    /\ busy \in BOOLEAN /\ scoped \in BOOLEAN
    /\ checkout \in Engs \cup {NoEng}

CallsFit ==
    /\ calls \in [Slots -> CallSet]
    /\ \A s \in Slots : CallFits(calls[s], book, visitor)

PortalInv == ServerFits /\ BrowserFits /\ CallsFit

\* Records that came from those before.
BookGrown(b, later) ==
    /\ later \in [Engs -> Record]
    /\ \A e \in Engs : Grown(b[e], later[e])

LEMMA StillSoGrown ==
  ASSUME NEW b \in [Engs -> Record], NEW later, BookGrown(b, later)
  PROVE  /\ \A v : StillSo(v, b) => StillSo(v, later)
         /\ \A call, who : CallFits(call, b, who) => CallFits(call, later, who)
  <1>1. ASSUME NEW v, StillSo(v, b)
        PROVE  StillSo(v, later)
    <2>1. v.primary \in Engs
      BY <1>1 DEF StillSo, Views
    <2>2. PICK r \in Record, t \in Record : r = b[v.primary] /\ t = later[v.primary] /\ Grown(r, t)
      BY <2>1 DEF BookGrown
    <2>3. Since(v, r)
      BY <1>1, <2>2 DEF StillSo
    <2>4. Since(v, t)
      BY <2>2, <2>3 DEF Since, Grown, Record, Interview, Package, Gaps
    <2> QED
      BY <1>1, <2>2, <2>4 DEF StillSo
  <1>2. ASSUME NEW call, NEW who, CallFits(call, b, who)
        PROVE  CallFits(call, later, who)
    <2>1. CASE call.kind = "post"
      <3>1. call.eng \in Engs
        BY <1>2, <2>1 DEF CallFits, CallSet, Free
      <3>2. Grown(b[call.eng], later[call.eng])
        BY <3>1 DEF BookGrown
      <3> QED
        BY <1>2, <2>1, <3>2 DEF CallFits, Grown
    <2>2. CASE call.kind # "post"
      BY <1>1, <1>2, <2>2 DEF CallFits
    <2> QED
      BY <2>1, <2>2
  <1> QED
    BY <1>1, <1>2

\* A step of the server that saves records and leaves the page.
LEMMA SaveGrows ==
  ASSUME PortalInv, NEW e \in Engs, NEW r \in Record, Grown(book[e], r), Save(e, r)
  PROVE  /\ BookGrown(book, book') /\ LatestFits(latest') /\ saves' \in 0 .. MaxSaves
  <1>1. /\ book \in [Engs -> Record] /\ LatestFits(latest) /\ saves \in 0 .. MaxSaves
    BY DEF PortalInv, ServerFits
  <1>2. /\ saves < MaxSaves /\ saves' = saves + 1
        /\ book' = [book EXCEPT ![e] = r]
        /\ latest' = [latest EXCEPT ![ClientOf[e]] = e]
    BY DEF Save
  <1>3. ASSUME NEW f \in Engs
        PROVE  Grown(book[f], book'[f])
    BY <1>1, <1>2, GrownSame
  <1>4. BookGrown(book, book')
    BY <1>1, <1>2, <1>3 DEF BookGrown
  <1>5. ClientOf[e] \in Clients
    BY PortalAssumption
  <1>6. LatestFits(latest')
    BY <1>1, <1>2, <1>5 DEF LatestFits
  <1>7. saves' \in 0 .. MaxSaves
    BY <1>1, <1>2, PortalAssumption
  <1> QED
    BY <1>4, <1>6, <1>7

\* Whatever the server does then, the page and its calls hold good.
LEMMA BrowserKept ==
  ASSUME PortalInv, BookGrown(book, book'), LatestFits(latest'), saves' \in 0 .. MaxSaves,
         build' \in [Deliveries -> BuildState], \A t \in tickets' : TicketFits(t),
         UNCHANGED <<visitor, pageVars>>, checkout' \in Engs \cup {NoEng}
  PROVE  /\ ServerFits' /\ BrowserFits'
         /\ \A s \in Slots : CallFits(calls[s], book', visitor)
  <1>1. /\ \A v : StillSo(v, book) => StillSo(v, book')
        /\ \A call, who : CallFits(call, book, who) => CallFits(call, book', who)
    BY StillSoGrown DEF PortalInv, ServerFits
  <1>2. ServerFits'
    BY DEF ServerFits, BookGrown
  <1>3. view' # NoView => StillSo(view', book')
    BY <1>1 DEF PortalInv, BrowserFits, pageVars
  <1>4. BrowserFits'
    BY <1>3 DEF PortalInv, BrowserFits, pageVars
  <1> QED
    BY <1>1, <1>2, <1>4 DEF PortalInv, CallsFit

\* The calls that fit whatever the records are.
LEMMA CallsThatFit ==
  ASSUME NEW b, NEW who
  PROVE  /\ CallFits(Free, b, who)
         /\ \A kind \in {"me", "failed"} : CallFits([kind |-> kind], b, who)
         /\ who.linked # NoEng => CallFits([kind |-> "linked"], b, who)
         /\ \A c \in Clients : CallFits(LoadCall(c), b, who)
         /\ \A c \in Clients \cup {NoClient} :
                CallFits([kind |-> "posted", client |-> c], b, who)
         /\ \A e \in Engs : CallFits([kind |-> "pay", eng |-> e], b, who)
         /\ \A v : StillSo(v, b) => CallFits([kind |-> "shown", view |-> v], b, who)
  <1>1. CallFits(Free, b, who)
    BY DEF CallFits, CallSet, Free
  <1>2. ASSUME NEW kind \in {"me", "failed"}
        PROVE  CallFits([kind |-> kind], b, who)
    BY <1>2 DEF CallFits, CallSet
  <1>3. who.linked # NoEng => CallFits([kind |-> "linked"], b, who)
    BY DEF CallFits, CallSet
  <1>4. ASSUME NEW c \in Clients PROVE CallFits(LoadCall(c), b, who)
    BY <1>4 DEF CallFits, CallSet, LoadCall
  <1>5. ASSUME NEW c \in Clients \cup {NoClient}
        PROVE  CallFits([kind |-> "posted", client |-> c], b, who)
    BY <1>5 DEF CallFits, CallSet
  <1>6. ASSUME NEW e \in Engs PROVE CallFits([kind |-> "pay", eng |-> e], b, who)
    BY <1>6 DEF CallFits, CallSet
  <1>7. ASSUME NEW v, StillSo(v, b)
        PROVE  CallFits([kind |-> "shown", view |-> v], b, who)
    <2>1. v \in Views
      BY <1>7 DEF StillSo
    <2>2. [kind |-> "shown", view |-> v] \in CallSet
      BY <2>1 DEF CallSet
    <2> QED
      BY <1>7, <2>2 DEF CallFits
  <1> QED
    BY <1>1, <1>2, <1>3, <1>4, <1>5, <1>6, <1>7

LEMMA CallsPut ==
  ASSUME \A t \in Slots : CallFits(calls[t], book', visitor),
         NEW s \in Slots, NEW new, CallFits(new, book', visitor),
         calls \in [Slots -> CallSet],
         calls' = [calls EXCEPT ![s] = new], UNCHANGED visitor
  PROVE  CallsFit'
  <1>1. new \in CallSet
    BY DEF CallFits
  <1>2. calls' \in [Slots -> CallSet] /\ \A t \in Slots : calls'[t] = IF t = s THEN new ELSE calls[t]
    BY <1>1
  <1> QED
    BY <1>2 DEF CallsFit

\* What the kind of a call says of it.
LEMMA CallShape ==
  ASSUME NEW b, NEW who, NEW call, CallFits(call, b, who)
  PROVE  /\ call.kind = "load" => call.client \in Clients
         /\ call.kind = "posted" => call.client \in Clients \cup {NoClient}
         /\ call.kind = "pay" => call.eng \in Engs
         /\ call.kind = "post" => /\ call.eng \in Engs /\ call.client \in Clients \cup {NoClient}
                                 /\ call.action \in {"approve", "confirm", "note", "ticket"}
  BY DEF CallFits, CallSet, Free

\* The server answers or the page is told: the records stay.
LEMMA LoadStep ==
  ASSUME PortalInv, NEW s \in Slots, ServeView(s) \/ Show(s) \/ ShowError(s)
  PROVE  PortalInv'
  <1>1. UNCHANGED <<serverVars, visitor, scoped, checkout>>
    BY DEF ServeView, Show, ShowError, pageVars
  <1>2. ServerFits' /\ \A t \in Slots : CallFits(calls[t], book', visitor)
    BY <1>1 DEF PortalInv, ServerFits, CallsFit, serverVars
  <1>3. CASE ServeView(s)
    <2>1. PICK c \in Clients, e \in Engs : c = calls[s].client /\ e = latest[c] /\ ClientOf[e] = c
      BY <1>3, CallShape DEF ServeView, PortalInv, CallsFit, ServerFits, LatestFits
    <2>2. PICK v : v = ViewOf(e)
      OBVIOUS
    <2>3. StillSo(v, book)
      <3>1. /\ v.client = ClientOf[e] /\ v.primary = e /\ v.signed = book[e].given
            /\ v.quoted = (book[e].commercial # NoDna) /\ v.ready = book[e].eligible
            /\ v.analysed = (book[e].analysis \/ book[e].reached >= Gaps)
        BY <2>2 DEF ViewOf
      <3>2. book[e] \in Record
        BY DEF PortalInv, ServerFits
      <3>3. BuildsOf(ClientOf[e]) \in SUBSET BuildState
        BY DEF BuildsOf, PortalInv, ServerFits
      <3>4. v \in Views
        BY <2>1, <2>2, <3>2, <3>3 DEF ViewOf, Views, Record
      <3> QED
        BY <3>1, <3>4 DEF StillSo, Since
    <2>4. calls' = [calls EXCEPT ![s] = [kind |-> "shown", view |-> v]]
      BY <1>3, <2>1, <2>2 DEF ServeView, View
    <2>5. CallFits([kind |-> "shown", view |-> v], book', visitor)
      BY <1>1, <2>3, CallsThatFit DEF serverVars
    <2>6. CallsFit'
      BY <1>1, <1>2, <2>4, <2>5, CallsPut DEF PortalInv, CallsFit
    <2>7. UNCHANGED pageVars
      BY <1>3 DEF ServeView
    <2> QED
      BY <1>1, <1>2, <2>6, <2>7 DEF PortalInv, BrowserFits, pageVars, serverVars
  <1>4. CASE Show(s) \/ ShowError(s)
    <2>1. /\ calls' = [calls EXCEPT ![s] = Free] /\ busy' = FALSE
          /\ \/ view' = NoView /\ field' = field
             \/ /\ calls[s].kind = "shown"
                /\ view' = calls[s].view /\ field' = calls[s].view.client
      BY <1>4 DEF Show, ShowError
    <2>2. CallsFit'
      BY <1>1, <1>2, <2>1, CallsPut, CallsThatFit DEF PortalInv, CallsFit
    <2>3. /\ view' # NoView => StillSo(view', book')
          /\ field' \in Clients \cup {NoClient}
      BY <1>1, <2>1 DEF PortalInv, CallsFit, CallFits, StillSo, Views, BrowserFits, serverVars
    <2> QED
      BY <1>1, <1>2, <2>1, <2>2, <2>3 DEF PortalInv, BrowserFits
  <1> QED
    BY <1>3, <1>4

LEMMA ScopeStep ==
  ASSUME PortalInv, NEW s \in Slots, Scope(s) \/ ScopeTo(s) \/ ScopeFails(s)
  PROVE  PortalInv'
  <1>1. UNCHANGED <<serverVars, visitor, view, checkout>>
    BY DEF Scope, ScopeTo, ScopeFails, pageVars
  <1>2. ServerFits' /\ \A t \in Slots : CallFits(calls[t], book', visitor)
    BY <1>1 DEF PortalInv, ServerFits, CallsFit, serverVars
  <1>3. PICK new : calls' = [calls EXCEPT ![s] = new] /\ CallFits(new, book', visitor)
    <2>1. CASE Scope(s)
      BY <2>1, CallsThatFit DEF Scope
    <2>2. CASE ScopeTo(s)
      <3>1. visitor.linked \in Engs
        BY <2>2 DEF ScopeTo, PortalInv, CallsFit, CallFits, BrowserFits
      <3>2. ClientOf[visitor.linked] \in Clients
        BY <3>1, PortalAssumption
      <3> QED
        BY <2>2, <3>2, CallsThatFit DEF ScopeTo
    <2>3. CASE ScopeFails(s)
      BY <2>3, CallsThatFit DEF ScopeFails
    <2> QED
      BY <2>1, <2>2, <2>3
  <1>4. CallsFit'
    BY <1>1, <1>2, <1>3, CallsPut DEF PortalInv, CallsFit
  <1>5. field' \in Clients \cup {NoClient}
    <2>1. CASE ScopeTo(s)
      <3>1. visitor.linked \in Engs
        BY <2>1 DEF ScopeTo, PortalInv, CallsFit, CallFits, BrowserFits
      <3> QED
        BY <2>1, <3>1, PortalAssumption DEF ScopeTo
    <2>2. CASE ~ ScopeTo(s)
      BY <2>2 DEF Scope, ScopeFails, pageVars, PortalInv, BrowserFits
    <2> QED
      BY <2>1, <2>2
  <1>6. busy' \in BOOLEAN /\ scoped' \in BOOLEAN
    <2>1. CASE Scope(s)
      BY <2>1 DEF Scope, PortalInv, BrowserFits, IsClient
    <2>2. CASE ScopeTo(s)
      BY <2>2 DEF ScopeTo, PortalInv, BrowserFits
    <2>3. CASE ScopeFails(s)
      BY <2>3 DEF ScopeFails, PortalInv, BrowserFits, pageVars
    <2> QED
      BY <2>1, <2>2, <2>3
  <1>7. view' # NoView => StillSo(view', book')
    BY <1>1 DEF PortalInv, BrowserFits, serverVars
  <1> QED
    BY <1>1, <1>2, <1>4, <1>5, <1>6, <1>7 DEF PortalInv, BrowserFits

\* A button's call, of which the view that is shown gives the reason.
LEMMA PressStep ==
  ASSUME PortalInv, NEW s \in Slots, NEW call, CallFits(call, book, visitor), Press(s, call)
  PROVE  PortalInv'
  <1>1. /\ busy' = TRUE /\ calls' = [calls EXCEPT ![s] = call]
        /\ UNCHANGED <<serverVars, visitor, field, view, scoped, checkout>>
    BY DEF Press
  <1>2. ServerFits' /\ \A t \in Slots : CallFits(calls[t], book', visitor)
    BY <1>1 DEF PortalInv, ServerFits, CallsFit, serverVars
  <1>3. CallFits(call, book', visitor)
    BY <1>1 DEF serverVars
  <1>4. CallsFit'
    BY <1>1, <1>2, <1>3, CallsPut DEF PortalInv, CallsFit
  <1> QED
    BY <1>1, <1>2, <1>4 DEF PortalInv, BrowserFits, serverVars

LEMMA PostFits ==
  ASSUME PortalInv, view # NoView, NEW action \in {"approve", "confirm", "note", "ticket"},
         action = "approve" => CanApprove(view),
         action = "confirm" => CanConfirm(view)
  PROVE  CallFits(PostCall(action), book, visitor)
  <1>1. StillSo(view, book) /\ view.primary \in Engs
    BY DEF PortalInv, BrowserFits, StillSo, Views
  <1>2. PICK call : call = PostCall(action)
    OBVIOUS
  <1>3. /\ call.kind = "post" /\ call.action = action /\ call.eng = view.primary
        /\ call \in CallSet
    BY <1>1, <1>2 DEF PostCall, CallSet, PortalInv, BrowserFits
  <1>4. /\ action = "approve" => book[view.primary].commercial # NoDna
        /\ action = "confirm" => "client" \in book[view.primary].given
    BY <1>1 DEF StillSo, Since, CanApprove, CanConfirm
  <1> QED
    BY <1>2, <1>3, <1>4 DEF CallFits

LEMMA ButtonStep ==
  ASSUME PortalInv, NEW s \in Slots,
         \/ Open(s) \/ ClickApprove(s) \/ ClickConfirm(s) \/ ClickNote(s)
         \/ ClickTicket(s) \/ ClickPay(s)
  PROVE  PortalInv'
  <1>1. CASE Open(s)
    <2>1. field \in Clients
      BY <1>1 DEF Open, PortalInv, BrowserFits
    <2> QED
      BY <1>1, <2>1, CallsThatFit, PressStep DEF Open
  <1>2. CASE ClickPay(s)
    <2>1. view.primary \in Engs
      BY <1>2 DEF ClickPay, PortalInv, BrowserFits, StillSo, Views
    <2> QED
      BY <1>2, <2>1, CallsThatFit, PressStep DEF ClickPay
  <1>3. CASE ClickApprove(s)
    BY <1>3, PostFits, PressStep DEF ClickApprove
  <1>4. CASE ClickConfirm(s)
    BY <1>4, PostFits, PressStep DEF ClickConfirm
  <1>5. CASE ClickNote(s)
    BY <1>5, PostFits, PressStep DEF ClickNote
  <1>6. CASE ClickTicket(s)
    BY <1>6, PostFits, PressStep DEF ClickTicket
  <1> QED
    BY <1>1, <1>2, <1>3, <1>4, <1>5, <1>6

\* POST api/portal.
LEMMA PostStep ==
  ASSUME PortalInv, NEW s \in Slots, ServePost(s)
  PROVE  PortalInv'
  <1>1. UNCHANGED <<visitor, pageVars, checkout>>
    BY DEF ServePost
  <1>2. PICK call : call = calls[s] /\ CallFits(call, book, visitor) /\ call.kind = "post"
    BY DEF ServePost, PortalInv, CallsFit
  <1>3. /\ call.eng \in Engs /\ call.client \in Clients \cup {NoClient}
        /\ call.action \in {"approve", "confirm", "note", "ticket"}
    BY <1>2, CallShape
  <1>4. /\ BookGrown(book, book') /\ LatestFits(latest') /\ saves' \in 0 .. MaxSaves
        /\ \A t \in tickets' : TicketFits(t)
    <2>1. CASE Approves(call)
      <3>1. StageFor(call.action) \in Stage
        BY DEF StageFor, Stage, Rank
      <3>2. PICK r \in Record : r = Advanced(book[call.eng], StageFor(call.action)) /\ Grown(book[call.eng], r)
        BY <1>3, <2>1, <3>1, AdvancedRecord DEF Approves, PortalInv, ServerFits, GrownRecord
      <3> QED
        BY <1>3, <2>1, <3>2, SaveGrows DEF Approves, PortalInv, ServerFits
    <2>2. CASE Annotates(call)
      <3>1. book[call.eng] \in Record /\ Grown(book[call.eng], book[call.eng])
        BY <1>3, GrownSame DEF PortalInv, ServerFits
      <3> QED
        BY <1>3, <2>2, <3>1, SaveGrows DEF Annotates, PortalInv, ServerFits
    <2>3. CASE Files(call)
      <3>1. /\ UNCHANGED <<book, latest>> /\ saves < MaxSaves /\ saves' = saves + 1
            /\ tickets' = tickets \cup
                   {[client |-> call.client,
                     eng |-> IF call.client = NoClient THEN NoEng ELSE latest[call.client]]}
        BY <2>3 DEF Files
      <3>2. TicketFits([client |-> call.client,
                        eng |-> IF call.client = NoClient THEN NoEng ELSE latest[call.client]])
        BY <1>3 DEF TicketFits, PortalInv, ServerFits, LatestFits
      <3>3. BookGrown(book, book')
        BY <3>1, GrownSame DEF BookGrown, PortalInv, ServerFits
      <3>4. saves' \in 0 .. MaxSaves
        BY <3>1, PortalAssumption DEF PortalInv, ServerFits
      <3> QED
        BY <3>1, <3>2, <3>3, <3>4 DEF PortalInv, ServerFits
    <2>4. CASE UNCHANGED serverVars
      BY <2>4, GrownSame DEF serverVars, BookGrown, PortalInv, ServerFits
    <2> QED
      BY <1>2, <2>1, <2>2, <2>3, <2>4 DEF ServePost
  <1>5. checkout' \in Engs \cup {NoEng} /\ build' \in [Deliveries -> BuildState]
    BY <1>1, <1>2 DEF PortalInv, BrowserFits, ServerFits, ServePost, Approves, Annotates, Files,
       serverVars
  <1>6. ServerFits' /\ BrowserFits' /\ \A t \in Slots : CallFits(calls[t], book', visitor)
    BY <1>1, <1>4, <1>5, BrowserKept
  <1>7. PICK new : calls' = [calls EXCEPT ![s] = new] /\ CallFits(new, book', visitor)
    BY <1>2, <1>3, CallsThatFit DEF ServePost
  <1>8. CallsFit'
    BY <1>1, <1>6, <1>7, CallsPut DEF PortalInv, CallsFit
  <1> QED
    BY <1>6, <1>8 DEF PortalInv

LEMMA AnswerStep ==
  ASSUME PortalInv, NEW s \in Slots, Reload(s) \/ CallFails(s)
  PROVE  PortalInv'
  <1>1. UNCHANGED <<serverVars, visitor, field, view, scoped, checkout>> /\ busy' \in BOOLEAN
    BY DEF Reload, CallFails
  <1>2. ServerFits' /\ \A t \in Slots : CallFits(calls[t], book', visitor)
    BY <1>1 DEF PortalInv, ServerFits, CallsFit, serverVars
  <1>3. PICK new : calls' = [calls EXCEPT ![s] = new] /\ CallFits(new, book', visitor)
    <2>1. CASE Reload(s)
      <3>1. calls[s].client \in Clients \cup {NoClient}
        BY <2>1, CallShape DEF Reload, PortalInv, CallsFit
      <3> QED
        BY <2>1, <3>1, CallsThatFit DEF Reload
    <2>2. CASE CallFails(s)
      BY <2>2, CallsThatFit DEF CallFails
    <2> QED
      BY <2>1, <2>2
  <1>4. CallsFit'
    BY <1>1, <1>2, <1>3, CallsPut DEF PortalInv, CallsFit
  <1> QED
    BY <1>1, <1>2, <1>4 DEF PortalInv, BrowserFits, serverVars

LEMMA MountedFits ==
  ASSUME NEW seed \in Clients \cup {NoClient}, NEW b, NEW who
  PROVE  /\ Mounted(seed) \in [Slots -> CallSet]
         /\ \A s \in Slots : CallFits(Mounted(seed)[s], b, who)
  <1>1. ASSUME NEW s \in Slots
        PROVE  CallFits(Mounted(seed)[s], b, who)
    <2>1. \/ Mounted(seed)[s] = [kind |-> "me"]
          \/ seed # NoClient /\ Mounted(seed)[s] = LoadCall(seed)
          \/ Mounted(seed)[s] = Free
      BY DEF Mounted, LoadCall
    <2> QED
      BY <2>1, CallsThatFit
  <1>2. \A s \in Slots : Mounted(seed)[s] \in CallSet
    BY <1>1 DEF CallFits
  <1>3. Mounted(seed) = [s \in Slots |-> Mounted(seed)[s]]
    BY DEF Mounted
  <1> QED
    BY <1>1, <1>2, <1>3

\* The browser leaves the page for the checkout, and comes back.
LEMMA CheckoutStep ==
  ASSUME PortalInv, Return \/ \E s \in Slots : Leave(s)
  PROVE  PortalInv'
  <1>1. ServerFits' /\ UNCHANGED <<serverVars, visitor>>
    BY DEF Return, Leave, PortalInv, ServerFits, serverVars
  <1>2. CASE Return
    <2>1. calls' = Mounted(NoClient) /\ checkout' = NoEng /\ UNCHANGED pageVars
      BY <1>2 DEF Return
    <2>2. CallsFit'
      BY <1>1, <2>1, MountedFits DEF CallsFit
    <2> QED
      BY <1>1, <2>1, <2>2 DEF PortalInv, BrowserFits, pageVars, serverVars
  <1>3. ASSUME NEW s \in Slots, Leave(s)
        PROVE  PortalInv'
    <2>1. /\ calls' = [t \in Slots |-> Free] /\ checkout' = calls[s].eng
          /\ field' = NoClient /\ view' = NoView /\ busy' = FALSE /\ scoped' = FALSE
          /\ calls[s].kind = "pay"
      BY <1>3 DEF Leave
    <2>2. checkout' \in Engs
      BY <2>1, CallShape DEF PortalInv, CallsFit
    <2>3. Free \in CallSet
      BY DEF CallSet
    <2>4. CallsFit'
      BY <2>1, <2>3, CallsThatFit DEF CallsFit
    <2> QED
      BY <1>1, <2>1, <2>2, <2>4 DEF PortalInv, BrowserFits
  <1> QED
    BY <1>2, <1>3

\* What a delivery may become.
LEMMA DeliverShape ==
  ASSUME PortalInv, NEW d \in Deliveries, Deliver(d)
  PROVE  \E status \in BuildState \ {"none"} :
            /\ build' = [build EXCEPT ![d] = status]
            /\ status = "tracking" => build[d] = "none"
  BY DEF Deliver, BuildState

\* A delivery is recorded, deployed or maintained.
LEMMA DeliverStep ==
  ASSUME PortalInv, NEW d \in Deliveries, Deliver(d)
  PROVE  PortalInv'
  <1>1. UNCHANGED <<tickets, visitor, pageVars, calls, checkout>>
    BY DEF Deliver
  <1>2. Delivered[d] \in Engs /\ book[Delivered[d]] \in Record
    BY PortalAssumption DEF PortalInv, ServerFits
  <1>3. BookGrown(book, book') /\ LatestFits(latest') /\ saves' \in 0 .. MaxSaves
    <2>1. CASE Save(Delivered[d], book[Delivered[d]])
      BY <1>2, <2>1, GrownSame, SaveGrows
    <2>2. CASE saves < MaxSaves /\ saves' = saves + 1 /\ UNCHANGED <<book, latest>>
      <3>1. BookGrown(book, book')
        BY <2>2, GrownSame DEF BookGrown, PortalInv, ServerFits
      <3>2. saves' \in 0 .. MaxSaves
        BY <2>2, PortalAssumption DEF PortalInv, ServerFits
      <3> QED
        BY <2>2, <3>1, <3>2 DEF PortalInv, ServerFits
    <2> QED
      BY <2>1, <2>2 DEF Deliver
  <1>4. build' \in [Deliveries -> BuildState]
    BY DeliverShape DEF PortalInv, ServerFits
  <1>5. \A t \in tickets' : TicketFits(t)
    BY <1>1 DEF PortalInv, ServerFits
  <1>6. checkout' \in Engs \cup {NoEng}
    BY <1>1 DEF PortalInv, BrowserFits
  <1>7. ServerFits' /\ BrowserFits' /\ \A t \in Slots : CallFits(calls[t], book', visitor)
    BY <1>1, <1>3, <1>4, <1>5, <1>6, BrowserKept
  <1> QED
    BY <1>1, <1>7 DEF PortalInv, CallsFit

\* The consultants and the payment.
LEMMA OthersStep ==
  ASSUME PortalInv, Settle \/ \E e \in Engs : Consult(e)
  PROVE  PortalInv'
  <1>1. UNCHANGED <<build, tickets, visitor, pageVars, calls, checkout>>
    BY DEF Settle, Consult
  <1>2. PICK e \in Engs, r \in Record : Grown(book[e], r) /\ Save(e, r)
    <2>1. CASE Settle
      <3>1. checkout \in Engs /\ book[checkout] \in Record
        BY <2>1 DEF Settle, PortalInv, BrowserFits, ServerFits
      <3>2. ASSUME NEW r \in Record, NEW stage \in Stage
            PROVE  Passed(r, stage) \in Record /\ Grown(r, Passed(r, stage))
        BY <3>2, AdvancedRecord, GrownSame DEF Passed, GrownRecord
      <3>3. "client_approval" \in Stage /\ "deposit_received" \in Stage
        BY DEF Stage, Rank
      <3>4. PICK r \in Record : r = Passed(book[checkout], "client_approval") /\ Grown(book[checkout], r)
        BY <3>1, <3>2, <3>3
      <3>5. PICK t \in Record : t = Passed(r, "deposit_received") /\ Grown(r, t)
        BY <3>2, <3>3
      <3>6. Grown(book[checkout], t)
        BY <3>1, <3>4, <3>5, GrownTogether
      <3> QED
        BY <2>1, <3>1, <3>4, <3>5, <3>6 DEF Settle
    <2>2. ASSUME NEW e \in Engs, NEW stage \in Moves, CanAdvance(book[e], stage),
                 Save(e, Advanced(book[e], stage))
          PROVE  \E f \in Engs, r \in Record : Grown(book[f], r) /\ Save(f, r)
      <3>1. book[e] \in Record /\ stage \in Stage
        BY PortalAssumption DEF PortalInv, ServerFits
      <3> QED
        BY <2>2, <3>1, AdvancedRecord DEF GrownRecord
    <2>3. ASSUME NEW e \in Engs, NEW d \in Designs, Save(e, Packaged(book[e], d))
          PROVE  \E f \in Engs, r \in Record : Grown(book[f], r) /\ Save(f, r)
      <3>1. book[e] \in Record
        BY DEF PortalInv, ServerFits
      <3> QED
        BY <2>3, <3>1, PackagedRecord DEF GrownRecord
    <2> QED
      BY <2>1, <2>2, <2>3 DEF Consult
  <1>3. BookGrown(book, book') /\ LatestFits(latest') /\ saves' \in 0 .. MaxSaves
    BY <1>2, SaveGrows
  <1>4. /\ \A t \in tickets' : TicketFits(t)
        /\ build' \in [Deliveries -> BuildState]
    BY <1>1 DEF PortalInv, ServerFits
  <1>5. checkout' \in Engs \cup {NoEng}
    BY <1>1 DEF PortalInv, BrowserFits
  <1>6. ServerFits' /\ BrowserFits' /\ \A t \in Slots : CallFits(calls[t], book', visitor)
    BY <1>1, <1>3, <1>4, <1>5, BrowserKept
  <1> QED
    BY <1>1, <1>6 DEF PortalInv, CallsFit

LEMMA PortalAtFirst == PortalInit => PortalInv
  <1> SUFFICES ASSUME PortalInit PROVE PortalInv
    OBVIOUS
  <1>1. PICK seed \in Seeds :
          calls = Mounted(seed) /\ field = seed /\ busy = (seed # NoClient)
    BY DEF PortalInit
  <1>2. CallsFit
    BY <1>1, MountedFits, PortalAssumption DEF CallsFit
  <1>3. LatestFits(latest)
    <2>1. PICK first \in [Clients -> Engs \cup {NoEng}] :
            /\ latest = first
            /\ \A c \in Clients : first[c] # NoEng => ClientOf[first[c]] = c
      BY DEF PortalInit
    <2> QED
      BY <2>1 DEF LatestFits
  <1>4. ServerFits
    BY <1>3, PortalAssumption DEF PortalInit, ServerFits, BuildState
  <1>5. BrowserFits
    BY <1>1, PortalAssumption DEF PortalInit, BrowserFits
  <1> QED
    BY <1>2, <1>4, <1>5 DEF PortalInv

LEMMA PortalAlways == PortalInv /\ [PortalNext]_portalVars => PortalInv'
  <1> SUFFICES ASSUME PortalInv, [PortalNext]_portalVars
               PROVE  PortalInv'
    OBVIOUS
  <1>1. ASSUME NEW c \in Clients \cup {NoClient}, Pick(c)
        PROVE  PortalInv'
    BY <1>1 DEF Pick, PortalInv, ServerFits, BrowserFits, CallsFit, serverVars
  <1>2. CASE UNCHANGED portalVars
    BY <1>2 DEF portalVars, serverVars, pageVars, PortalInv, ServerFits, BrowserFits, CallsFit
  <1> QED
    BY <1>1, <1>2, LoadStep, ScopeStep, ButtonStep, PostStep, AnswerStep, CheckoutStep, OthersStep,
       DeliverStep DEF PortalNext

\* The deliveries.  What a view tells of them may be set back, but not undone: a client
\* with a build deployed or in maintenance goes on having one.
Finished == {"deployed", "maintenance"}

BuildsSince(v) == v.builds \cap Finished # {} => BuildsOf(v.client) \cap Finished # {}

DeliveriesFit ==
    /\ view # NoView => BuildsSince(view)
    /\ \A s \in Slots : calls[s].kind = "shown" => BuildsSince(calls[s].view)

LEMMA FinishedStays ==
  ASSUME PortalInv, [PortalNext]_portalVars, NEW c, BuildsOf(c) \cap Finished # {}
  PROVE  BuildsOf(c)' \cap Finished # {}
  <1>1. PICK d \in Deliveries : ClientOf[Delivered[d]] = c /\ build[d] \in Finished
    BY DEF BuildsOf
  <1>2. build'[d] \in Finished
    <2>1. ASSUME NEW b \in Deliveries, Deliver(b)
          PROVE  build'[d] \in Finished
      <3>1. PICK status \in BuildState \ {"none"} :
              build' = [build EXCEPT ![b] = status] /\ (status = "tracking" => build[b] = "none")
        BY <2>1, DeliverShape
      <3> QED
        BY <1>1, <3>1 DEF PortalInv, ServerFits, BuildState, Finished
    <2>2. CASE UNCHANGED build
      BY <1>1, <2>2
    <2>3. (\E b \in Deliveries : Deliver(b)) \/ UNCHANGED build
      BY DEF PortalNext, portalVars, serverVars, ServeView, Show, ShowError, Scope, ScopeTo,
             ScopeFails, Open, ClickApprove, ClickConfirm, ClickNote, ClickTicket, ClickPay,
             Press, ServePost, Approves, Annotates, Files, Reload, CallFails, Leave, Pick,
             Return, Settle, Consult
    <2> QED
      BY <2>1, <2>2, <2>3
  <1> QED
    BY <1>1, <1>2 DEF BuildsOf

\* A call that brings a view has had it, or has just been served it.
LEMMA ShownSince ==
  ASSUME PortalInv, [PortalNext]_portalVars, NEW s \in Slots, calls'[s].kind = "shown"
  PROVE  \/ calls'[s] = calls[s]
         \/ calls'[s].view.builds = BuildsOf(calls'[s].view.client)
  <1>1. calls \in [Slots -> CallSet]
    BY DEF PortalInv, CallsFit
  <1>2. ASSUME NEW t \in Slots, ServeView(t)
        PROVE  \/ calls'[s] = calls[s]
               \/ calls'[s].view.builds = BuildsOf(calls'[s].view.client)
    BY <1>1, <1>2 DEF ServeView, View, ViewOf
  <1>3. ASSUME NEW t \in Slots, NEW new, new.kind # "shown", calls' = [calls EXCEPT ![t] = new]
        PROVE  calls'[s] = calls[s]
    BY <1>1, <1>3
  <1>4. ASSUME NEW t \in Slots, Show(t) \/ ShowError(t) \/ Scope(t) \/ ScopeTo(t) \/ ScopeFails(t)
        PROVE  calls'[s] = calls[s]
    BY <1>3, <1>4 DEF Show, ShowError, Scope, ScopeTo, ScopeFails, Free, LoadCall
  <1>5. ASSUME NEW t \in Slots, Open(t) \/ ClickApprove(t) \/ ClickConfirm(t) \/ ClickNote(t)
                                \/ ClickTicket(t) \/ ClickPay(t)
        PROVE  calls'[s] = calls[s]
    BY <1>3, <1>5 DEF Open, ClickApprove, ClickConfirm, ClickNote, ClickTicket, ClickPay, Press,
                      PostCall, LoadCall
  <1>6. ASSUME NEW t \in Slots, ServePost(t) \/ Reload(t) \/ CallFails(t)
        PROVE  calls'[s] = calls[s]
    BY <1>3, <1>6 DEF ServePost, Reload, CallFails, Free, LoadCall
  <1>7. ASSUME Return \/ \E t \in Slots : Leave(t)
        PROVE  FALSE
    BY <1>7 DEF Return, Leave, Mounted, Free
  <1>8. CASE UNCHANGED calls
    BY <1>8
  <1> QED
    BY <1>2, <1>4, <1>5, <1>6, <1>7, <1>8
       DEF PortalNext, portalVars, Pick, Settle, Consult, Deliver

\* What the page shows, it has shown, or a call has brought.
LEMMA ViewSince ==
  ASSUME PortalInv, [PortalNext]_portalVars
  PROVE  \/ view' = view \/ view' = NoView
         \/ \E s \in Slots : calls[s].kind = "shown" /\ view' = calls[s].view
  BY DEF PortalNext, portalVars, pageVars, ServeView, Show, ShowError, Scope, ScopeTo,
         ScopeFails, Open, ClickApprove, ClickConfirm, ClickNote, ClickTicket, ClickPay,
         Press, ServePost, Reload, CallFails, Leave, Pick, Return, Settle, Consult, Deliver

LEMMA DeliveriesAlways ==
  PortalInv /\ DeliveriesFit /\ [PortalNext]_portalVars => DeliveriesFit'
  <1> SUFFICES ASSUME PortalInv, DeliveriesFit, [PortalNext]_portalVars
               PROVE  DeliveriesFit'
    OBVIOUS
  <1>1. ASSUME NEW v, BuildsSince(v) \/ v.builds = BuildsOf(v.client)
        PROVE  v.builds \cap Finished # {} => BuildsOf(v.client)' \cap Finished # {}
    BY <1>1, FinishedStays DEF BuildsSince
  <1>2. view' # NoView => BuildsSince(view)'
    <2>1. ASSUME view' # NoView PROVE BuildsSince(view')
      BY <2>1, ViewSince DEF DeliveriesFit
    <2> QED
      BY <1>1, <2>1 DEF BuildsSince
  <1>3. ASSUME NEW s \in Slots, calls'[s].kind = "shown"
        PROVE  BuildsSince(calls[s].view)'
    <2>1. \/ BuildsSince(calls'[s].view)
          \/ calls'[s].view.builds = BuildsOf(calls'[s].view.client)
      BY <1>3, ShownSince DEF DeliveriesFit
    <2> QED
      BY <1>1, <2>1 DEF BuildsSince
  <1> QED
    BY <1>2, <1>3 DEF DeliveriesFit

\* The progress grows with what a view shows, but for a build that was in maintenance.
LEMMA StillHolds ==
  ASSUME book \in [Engs -> Record], NEW v, StillSo(v, book), BuildsSince(v)
  PROVE  Holds(v)
  <1>1. PICK e \in Engs : e = v.primary
    BY DEF StillSo, Views
  <1>2. PICK now : now = ViewOf(e)
    OBVIOUS
  <1>3. /\ now.client = ClientOf[e] /\ now.signed = book[e].given
        /\ now.quoted = (book[e].commercial # NoDna) /\ now.ready = book[e].eligible
        /\ now.analysed = (book[e].analysis \/ book[e].reached >= Gaps)
        /\ now.builds = BuildsOf(ClientOf[e])
    BY <1>1, <1>2 DEF ViewOf
  <1>4. /\ v.client = now.client /\ v.signed \subseteq now.signed
        /\ v.quoted => now.quoted
        /\ v.ready => now.ready
        /\ v.analysed => now.analysed
    BY <1>1, <1>3 DEF StillSo, Since
  <1>5. /\ v.builds \cap Finished # {} => now.builds \cap Finished # {}
        /\ Finished = {"deployed", "maintenance"}
    BY <1>3, <1>4 DEF BuildsSince, Finished
  <1>6. Progress(v) <= Progress(now) \/ (Progress(v) = 100 /\ Progress(now) = 95)
    <2>1. CASE "maintenance" \in v.builds
      <3>1. Progress(v) = 100
        BY <2>1 DEF Progress
      <3>2. Progress(now) \in {95, 100}
        BY <1>5, <2>1 DEF Progress
      <3> QED
        BY <3>1, <3>2
    <2>2. CASE "maintenance" \notin v.builds /\ "deployed" \in v.builds
      <3>1. Progress(v) = 95
        BY <2>2 DEF Progress
      <3>2. Progress(now) \in {95, 100}
        BY <1>5, <2>2 DEF Progress
      <3> QED
        BY <3>1, <3>2
    <2>3. CASE "maintenance" \notin v.builds /\ "deployed" \notin v.builds
      BY <1>4, <2>3 DEF Progress
    <2> QED
      BY <2>1, <2>2, <2>3
  <1>7. \A week \in 0 .. 3 : MilestoneDone(v, week) => MilestoneDone(now, week)
    BY <1>4 DEF MilestoneDone
  <1> QED
    BY <1>1, <1>2, <1>4, <1>6, <1>7 DEF Holds

LEMMA PortalSafe == PortalInv /\ DeliveriesFit => PortalHolds
  <1> SUFFICES ASSUME PortalInv, DeliveriesFit PROVE PortalHolds
    OBVIOUS
  <1>1. view # NoView => Holds(view)
    BY StillHolds DEF PortalInv, ServerFits, BrowserFits, DeliveriesFit
  <1>2. ASSUME NEW s \in Slots
        PROVE  /\ calls[s].kind = "shown" => Holds(calls[s].view)
               /\ calls[s].kind = "post" =>
                      LET r == book[calls[s].eng]
                      IN /\ calls[s].action = "approve" => r.commercial # NoDna
                         /\ calls[s].action = "confirm" => "client" \in r.given
    BY StillHolds DEF PortalInv, ServerFits, CallsFit, CallFits, DeliveriesFit
  <1> QED
    BY <1>1, <1>2 DEF PortalHolds, PortalInv, ServerFits, TicketFits

\* Whichever answer comes last, and whatever the consultants, the payments and other
\* clients do meanwhile: what the portal shows of its engagement stays so, the progress
\* falls behind what it shows from maintenance to deployed at most, and what it asks
\* for is due.
THEOREM PortalAlwaysHolds == PortalSpec => []PortalHolds
  <1>1. PortalInit => DeliveriesFit
    BY DEF PortalInit, DeliveriesFit, Mounted, Free
  <1> QED
    BY <1>1, PortalAtFirst, PortalAlways, DeliveriesAlways, PortalSafe, PTL DEF PortalSpec

-----------------------------------------------------------------------------
(* The consultants' pages.                                                 *)

\* The calls of a run, and all that are about an engagement.
Run == {"intelligence", "gaps", "review", "package"}

Op == {"answer", "load", "handoff"} \cup Run \cup Stage

PageCall ==
    {NoCall, Closed}
    \cup [op : Op, full : BOOLEAN, at : {"sent", "held"}]
    \cup [op : Op, full : BOOLEAN, at : {"answered"}, rec : Record]
    \cup [op : {"start"}, full : {FALSE}, at : {"sent"}]
    \cup [op : {"start"}, full : {FALSE}, at : {"answered"}, case : Cases]

PageState ==
    [case : Cases \cup {NoCase}, rec : Record \cup {NoRecord}, panel : Cases \cup {NoCase},
     call : PageCall]

Hold == [by : Page \cup {"nobody"}, case : Cases, op : Awaiting, rec : Record]

Lists == [Cases -> Record \cup {NoRecord}]

Desk ==
    [call : {"closed", "none", "load", "listed"}, answer : Lists, list : Lists]

\* A copy of a record, of an engagement that is there: unless it was undone, the record
\* has come from the copy.
CopyFits(x, r, recs, und) ==
    r = NoRecord \/ /\ r \in Record /\ Sound(r) /\ recs[x] # NoRecord
                    /\ x \notin und => Grown(r, recs[x])

\* What a page shows beside the record: a package, or a handoff.
PanelDue(p, r) == IF p = "consult" THEN r.reached = Package ELSE Eligible(r)

\* A page: its record and the answer to its call are copies of its own engagement.
PageFits(p, q, recs, und) ==
    /\ q \in PageState
    /\ q.case = NoCase => q.rec = NoRecord
    /\ q.case # NoCase => recs[q.case] # NoRecord /\ CopyFits(q.case, q.rec, recs, und)
    /\ q.call.op \in Op =>
           /\ q.case # NoCase
           /\ q.call.full => q.call.op \in Run
           /\ q.call.at = "answered" =>
                  /\ CopyFits(q.case, q.call.rec, recs, und)
                  /\ q.call.op = "handoff" => Eligible(q.call.rec)
    /\ q.call.op = "start" => /\ p = "consult"
                              /\ q.call.at = "answered" => recs[q.call.case] # NoRecord
    /\ q.panel # NoCase =>
           /\ q.panel = q.case
           /\ q.case \notin und => PanelDue(p, recs[q.case])

\* A record that is held for a page is that of its call, which waits for it.
HoldsFit(hs, pg, recs) ==
    /\ hs \subseteq Hold
    /\ \A h \in hs :
           /\ recs[h.case] # NoRecord /\ Sound(h.rec)
           /\ h.by \in Page => /\ pg[h.by].case = h.case /\ pg[h.by].call.op = h.op
                               /\ pg[h.by].call.at = "held"
    /\ \A g, h \in hs : g.by = h.by /\ h.by \in Page => g = h

RecordsFit(recs) == recs \in [Cases -> {r \in Record : Sound(r)} \cup {NoRecord}]

DeskFits(d, recs, und) ==
    /\ d \in Desk
    /\ \A x \in Cases : CopyFits(x, d.list[x], recs, und) /\ CopyFits(x, d.answer[x], recs, und)

PagesInv ==
    /\ RecordsFit(records)
    /\ led \subseteq Cases /\ undone \subseteq Cases
    /\ served \in 0 .. MaxServed
    /\ HoldsFit(holds, page, records)
    /\ DOMAIN page = Page /\ page \in [Page -> PageState]
    /\ \A p \in Page : PageFits(p, page[p], records, undone)
    /\ DeskFits(desk, records, undone)

\* The records after a step: none goes, and but for those undone all come from before.
RecordsLater(recs, later, und, undLater) ==
    /\ und \subseteq undLater
    /\ \A x \in Cases : recs[x] # NoRecord =>
           /\ later[x] # NoRecord
           /\ x \notin undLater => Grown(recs[x], later[x])

LEMMA OpNames == {"start", "none", "closed"} \cap Op = {}
  BY DEF Op, Run, Stage, Rank

\* What the call of a page says of it.
LEMMA CallShapes ==
  ASSUME NEW c \in PageCall
  PROVE  /\ c.op \in Op \/ c.op \in {"start", "none", "closed"}
         /\ c.op \in Op => c.full \in BOOLEAN /\ c.at \in {"sent", "held", "answered"}
         /\ c.op \in Op /\ c.at = "answered" => c.rec \in Record
         /\ c.op = "start" => c.full = FALSE /\ c.at \in {"sent", "answered"}
         /\ c.op = "start" /\ c.at = "answered" => c.case \in Cases
  <1>1. CASE c \in {NoCall, Closed}
    BY <1>1, OpNames DEF NoCall, Closed
  <1>2. CASE c \in [op : Op, full : BOOLEAN, at : {"sent", "held"}]
    BY <1>2, OpNames
  <1>3. CASE c \in [op : Op, full : BOOLEAN, at : {"answered"}, rec : Record]
    BY <1>3, OpNames
  <1>4. CASE c \in [op : {"start"}, full : {FALSE}, at : {"sent"}]
    BY <1>4, OpNames
  <1>5. CASE c \in [op : {"start"}, full : {FALSE}, at : {"answered"}, case : Cases]
    BY <1>5, OpNames
  <1> QED
    BY <1>1, <1>2, <1>3, <1>4, <1>5 DEF PageCall

LEMMA GrownSameRecord == \A r \in Record : Grown(r, r)
  BY GrownSame

LEMMA PanelKept ==
  ASSUME NEW p, NEW r \in Record, NEW t \in Record, Grown(r, t), PanelDue(p, r)
  PROVE  PanelDue(p, t)
  <1>1. Eligible(r) => Eligible(t)
    BY EligibleGrown
  <1>2. r.reached = Package => t.reached = Package
    BY DEF Grown, Record, Interview, Package
  <1> QED
    BY <1>1, <1>2 DEF PanelDue

LEMMA CopiesKept ==
  ASSUME NEW recs, NEW later, NEW und, NEW undLater, RecordsFit(recs), RecordsFit(later),
         RecordsLater(recs, later, und, undLater)
  PROVE  /\ \A x \in Cases : \A r : CopyFits(x, r, recs, und) => CopyFits(x, r, later, undLater)
         /\ \A p, q : PageFits(p, q, recs, und) => PageFits(p, q, later, undLater)
         /\ \A d : DeskFits(d, recs, und) => DeskFits(d, later, undLater)
         /\ \A hs, pg : HoldsFit(hs, pg, recs) => HoldsFit(hs, pg, later)
  <1>1. ASSUME NEW x \in Cases, NEW r, CopyFits(x, r, recs, und)
        PROVE  CopyFits(x, r, later, undLater)
    <2> SUFFICES ASSUME r # NoRecord PROVE CopyFits(x, r, later, undLater)
      BY DEF CopyFits
    <2>1. r \in Record /\ Sound(r) /\ recs[x] # NoRecord /\ later[x] # NoRecord
      BY <1>1 DEF CopyFits, RecordsLater
    <2>2. recs[x] \in Record /\ later[x] \in Record
      BY <2>1 DEF RecordsFit
    <2>3. ASSUME x \notin undLater
          PROVE  Grown(r, later[x])
      <3>1. Grown(r, recs[x]) /\ Grown(recs[x], later[x])
        BY <1>1, <2>1, <2>3 DEF CopyFits, RecordsLater
      <3> QED
        BY <2>1, <2>2, <3>1, GrownTogether
    <2> QED
      BY <2>1, <2>3 DEF CopyFits
  <1>2. ASSUME NEW p, NEW q, PageFits(p, q, recs, und)
        PROVE  PageFits(p, q, later, undLater)
    <2>1. q \in PageState
      BY <1>2 DEF PageFits
    <2>2. q.case # NoCase =>
             /\ q.case \in Cases /\ later[q.case] # NoRecord
             /\ CopyFits(q.case, q.rec, later, undLater)
      BY <1>1, <1>2, <2>1 DEF PageFits, PageState, RecordsLater
    <2>3. q.call.op \in Op =>
           /\ q.case # NoCase
           /\ q.call.full => q.call.op \in Run
           /\ q.call.at = "answered" =>
                  /\ CopyFits(q.case, q.call.rec, later, undLater)
                  /\ q.call.op = "handoff" => Eligible(q.call.rec)
      BY <1>1, <1>2, <2>2 DEF PageFits
    <2>4. ASSUME q.call.op = "start"
          PROVE  p = "consult" /\ (q.call.at = "answered" => later[q.call.case] # NoRecord)
      <3>1. q.call.at = "answered" => q.call.case \in Cases
        BY <2>1, <2>4, CallShapes DEF PageState
      <3>2. p = "consult" /\ (q.call.at = "answered" => recs[q.call.case] # NoRecord)
        BY <1>2, <2>4 DEF PageFits
      <3> QED
        BY <3>1, <3>2 DEF RecordsLater
    <2>5. ASSUME q.panel # NoCase
          PROVE  q.panel = q.case /\ (q.case \notin undLater => PanelDue(p, later[q.case]))
      <3>1. q.panel = q.case /\ q.case # NoCase
        BY <1>2, <2>5 DEF PageFits
      <3>2. ASSUME q.case \notin undLater PROVE PanelDue(p, later[q.case])
        <4>1. recs[q.case] # NoRecord /\ PanelDue(p, recs[q.case])
          BY <1>2, <2>5, <3>1, <3>2 DEF PageFits, RecordsLater
        <4>2. recs[q.case] \in Record /\ later[q.case] \in Record
          BY <2>2, <3>1, <4>1 DEF RecordsFit
        <4>3. Grown(recs[q.case], later[q.case])
          BY <2>2, <3>1, <3>2, <4>1 DEF RecordsLater
        <4> QED
          BY <4>1, <4>2, <4>3, PanelKept
      <3> QED
        BY <3>1, <3>2
    <2> QED
      BY <1>2, <2>1, <2>2, <2>3, <2>4, <2>5 DEF PageFits
  <1>3. ASSUME NEW d, DeskFits(d, recs, und) PROVE DeskFits(d, later, undLater)
    BY <1>1, <1>3 DEF DeskFits
  <1>4. ASSUME NEW hs, NEW pg, HoldsFit(hs, pg, recs) PROVE HoldsFit(hs, pg, later)
    <2>1. \A h \in hs : h.case \in Cases
      BY <1>4 DEF HoldsFit, Hold
    <2> QED
      BY <1>4, <2>1 DEF HoldsFit, RecordsLater
  <1> QED
    BY <1>1, <1>2, <1>3, <1>4

\* Every call makes of a record one that has come from it.
LEMMA ReachedRecord ==
  ASSUME NEW r \in Record, NEW n \in Interview .. Review
  PROVE  GrownRecord(r, Reach(r, n))
  <1>1. CASE r.reached < n
    <2>1. PICK t : t = Reach(r, n)
      OBVIOUS
    <2>2. /\ t \in Record
          /\ t.stage = r.stage /\ t.analysis = r.analysis /\ t.dna = r.dna
          /\ t.commercial = r.commercial /\ t.reached = n /\ t.given = r.given
          /\ t.approved = r.approved /\ t.eligible = r.eligible
      BY <1>1, <2>1 DEF Reach, Record, Interview, Review, Package
    <2>3. Grown(r, t) /\ t.reached # Package
      BY <1>1, <2>2 DEF Grown, Record, Interview, Review, Package
    <2> QED
      BY <2>1, <2>2, <2>3 DEF GrownRecord, Sound
  <1>2. CASE ~ (r.reached < n)
    BY <1>2, GrownSame DEF Reach, GrownRecord
  <1> QED
    BY <1>1, <1>2

LEMMA AnsweredRecord ==
  ASSUME NEW r \in Record, NEW sure \in BOOLEAN
  PROVE  GrownRecord(r, Answered(r, sure))
  <1>1. PICK t : t = Answered(r, sure)
    OBVIOUS
  <1>2. /\ t \in Record
        /\ t.stage = r.stage /\ t.analysis = r.analysis /\ t.dna = r.dna
        /\ t.commercial = r.commercial /\ t.reached = r.reached /\ t.given = r.given
        /\ t.approved = r.approved /\ t.eligible = r.eligible
    BY <1>1 DEF Answered, Record
  <1>3. Grown(r, t)
    BY <1>2 DEF Grown, Record, Interview, Package
  <1> QED
    BY <1>1, <1>2, <1>3 DEF GrownRecord, Sound

LEMMA OutcomesGrown ==
  ASSUME NEW r \in Record, NEW op \in Awaiting \cup Run \cup Stage,
         op \in Awaiting \/ Accepts(op, r),
         NEW t \in Outcomes(op, r)
  PROVE  GrownRecord(r, t)
  <1>0. {"answer", "intelligence", "gaps", "review", "package"} \cap Stage = {}
    BY DEF Stage, Rank
  <1>1. CASE op = "answer"
    <2>1. Outcomes(op, r) = {Answered(r, sure) : sure \in BOOLEAN}
      BY <1>0, <1>1 DEF Outcomes
    <2> QED
      BY <2>1, AnsweredRecord
  <1>2. CASE op \in {"intelligence", "gaps", "review"}
    <2>1. PICK n \in {Intelligence, Gaps, Review} : Outcomes(op, r) = {Reach(r, n)}
      BY <1>0, <1>2 DEF Outcomes, Researched, GapsFound, Reviewed
    <2>2. n \in Interview .. Review
      BY DEF Intelligence, Gaps, Review, Interview
    <2> QED
      BY <2>1, <2>2, ReachedRecord
  <1>3. CASE op = "package"
    <2>1. Outcomes(op, r) = {Packaged(r, d) : d \in Designs}
      BY <1>0, <1>3 DEF Outcomes
    <2> QED
      BY <2>1, PackagedRecord
  <1>4. CASE op \in Stage
    <2>1. op \notin {"answer", "intelligence", "gaps", "review", "package", "handoff"}
      BY <1>4 DEF Stage, Rank
    <2>2. Outcomes(op, r) = {Advanced(r, op)} /\ Accepts(op, r) = CanAdvance(r, op)
      BY <1>4, <2>1 DEF Outcomes, Accepts
    <2>3. CanAdvance(r, op) /\ t = Advanced(r, op)
      BY <2>1, <2>2 DEF Awaiting
    <2> QED
      BY <1>4, <2>3, AdvancedRecord
  <1> QED
    BY <1>1, <1>2, <1>3, <1>4 DEF Awaiting, Run

LEMMA StoreLater ==
  ASSUME PagesInv, NEW x \in Cases, NEW r \in Record, Sound(r), NEW und, undone \subseteq und,
         records[x] = NoRecord \/ x \in und \/ Grown(records[x], r), Store(x, r)
  PROVE  /\ RecordsFit(records') /\ RecordsLater(records, records', undone, und)
         /\ served' \in 0 .. MaxServed /\ records'[x] = r /\ r # NoRecord
  <1>1. /\ served < MaxServed /\ served' = served + 1
        /\ records' = [records EXCEPT ![x] = r] /\ r # NoRecord
    BY PagesAssumption DEF Store
  <1>2. RecordsFit(records') /\ \A y \in Cases : records'[y] = IF y = x THEN r ELSE records[y]
    BY <1>1 DEF PagesInv, RecordsFit
  <1>3. ASSUME NEW y \in Cases, records[y] # NoRecord
        PROVE  records'[y] # NoRecord /\ (y \notin und => Grown(records[y], records'[y]))
    <2>1. records[y] \in Record
      BY <1>3 DEF PagesInv, RecordsFit
    <2> QED
      BY <1>1, <1>2, <1>3, <2>1, GrownSame
  <1>4. served' \in 0 .. MaxServed
    BY <1>1, PagesAssumption DEF PagesInv
  <1> QED
    BY <1>1, <1>2, <1>3, <1>4 DEF RecordsLater

LEMMA SameLater ==
  ASSUME PagesInv PROVE RecordsLater(records, records, undone, undone)
  BY GrownSame DEF PagesInv, RecordsFit, RecordsLater

LEMMA CallPutOn ==
  ASSUME page \in [Page -> PageState], NEW p \in Page, NEW call \in PageCall,
         page' = [page EXCEPT ![p].call = call]
  PROVE  /\ page' \in [Page -> PageState]
         /\ page'[p].call = call /\ page'[p].case = page[p].case
         /\ page'[p].rec = page[p].rec /\ page'[p].panel = page[p].panel
         /\ \A q \in Page : q # p => page'[q] = page[q]
  <1>1. PICK q : q = [page[p] EXCEPT !.call = call]
    OBVIOUS
  <1>2. /\ q \in PageState /\ q.call = call /\ q.case = page[p].case
        /\ q.rec = page[p].rec /\ q.panel = page[p].panel
    BY <1>1 DEF PageState
  <1>3. page' = [page EXCEPT ![p] = q]
    BY <1>1
  <1> QED
    BY <1>2, <1>3

\* The page that has another call is as good as before if the call fits it.
LEMMA CallPutFits ==
  ASSUME NEW p \in Page, NEW old, NEW recs, NEW und, PageFits(p, old, recs, und),
         NEW call \in PageCall,
         call.op \in Op =>
             /\ old.case # NoCase
             /\ call.full => call.op \in Run
             /\ call.at = "answered" =>
                    /\ CopyFits(old.case, call.rec, recs, und)
                    /\ call.op = "handoff" => Eligible(call.rec),
         call.op = "start" =>
             p = "consult" /\ (call.at = "answered" => recs[call.case] # NoRecord)
  PROVE  PageFits(p, [old EXCEPT !.call = call], recs, und)
  <1>1. PICK q : q = [old EXCEPT !.call = call]
    OBVIOUS
  <1>2. old \in PageState
    BY DEF PageFits
  <1>3. /\ q \in PageState /\ q.call = call /\ q.case = old.case
        /\ q.rec = old.rec /\ q.panel = old.panel
    BY <1>1, <1>2 DEF PageState
  <1> QED
    BY <1>1, <1>3 DEF PageFits

LEMMA NoneHeld ==
  ASSUME PagesInv, NEW p \in Page, page[p].call.op \notin Awaiting \/ page[p].call.at # "held"
  PROVE  \A h \in holds : h.by # p
  BY DEF PagesInv, HoldsFit, Hold

LEMMA HoldsAfter ==
  ASSUME NEW hs, NEW pg, NEW new, NEW p, NEW recs, HoldsFit(hs, pg, recs),
         \A h \in hs : h.by # p, \A q \in Page : q # p => new[q] = pg[q]
  PROVE  HoldsFit(hs, new, recs)
  <1>1. \A h \in hs : h.by \in Page => new[h.by] = pg[h.by]
    OBVIOUS
  <1> QED
    BY <1>1 DEF HoldsFit

\* A record that is held for a page no more.
LEMMA Disowned ==
  ASSUME NEW hs, NEW pg, NEW recs, HoldsFit(hs, pg, recs), NEW p \in Page, NEW left,
         left = {IF h.by = p THEN [h EXCEPT !.by = "nobody"] ELSE h : h \in hs}
  PROVE  HoldsFit(left, pg, recs) /\ \A h \in left : h.by # p
  <1>1. ASSUME NEW h \in left
        PROVE  /\ h \in Hold /\ h.by # p
               /\ h.by \in Page => h \in hs
               /\ \E g \in hs : g.case = h.case /\ g.rec = h.rec
    <2>1. PICK g \in hs : h = IF g.by = p THEN [g EXCEPT !.by = "nobody"] ELSE g
      OBVIOUS
    <2>2. g \in Hold
      BY DEF HoldsFit
    <2>3. CASE g.by = p
      <3>1. /\ h \in Hold /\ h.by = "nobody" /\ h.case = g.case /\ h.rec = g.rec
        BY <2>1, <2>2, <2>3 DEF Hold
      <3>2. "nobody" \notin Page
        BY DEF Page
      <3> QED
        BY <3>1, <3>2
    <2>4. CASE g.by # p
      BY <2>1, <2>2, <2>4
    <2> QED
      BY <2>3, <2>4
  <1> QED
    BY <1>1 DEF HoldsFit

\* What is to be shown of a step.
LEMMA PagesSettled ==
  ASSUME PagesInv,
         RecordsFit(records'), RecordsLater(records, records', undone, undone'),
         led' \subseteq Cases, undone' \subseteq Cases, served' \in 0 .. MaxServed,
         HoldsFit(holds', page', records'),
         page' \in [Page -> PageState],
         \A p \in Page : page'[p] = page[p] \/ PageFits(p, page'[p], records', undone'),
         desk' = desk \/ DeskFits(desk', records', undone')
  PROVE  PagesInv'
  <1>1. /\ \A p, q : PageFits(p, q, records, undone) => PageFits(p, q, records', undone')
        /\ \A d : DeskFits(d, records, undone) => DeskFits(d, records', undone')
    BY CopiesKept DEF PagesInv
  <1>2. \A p \in Page : PageFits(p, page'[p], records', undone')
    BY <1>1 DEF PagesInv
  <1>3. DeskFits(desk', records', undone')
    BY <1>1 DEF PagesInv
  <1> QED
    BY <1>2, <1>3 DEF PagesInv

\* A step of a page alone.
LEMMA PageOnly ==
  ASSUME PagesInv, NEW p \in Page, NEW q, PageFits(p, q, records, undone),
         page' = [page EXCEPT ![p] = q],
         \A h \in holds' : h.by # p, HoldsFit(holds', page, records),
         UNCHANGED <<records, led, served, undone, desk>>
  PROVE  PagesInv'
  <1>1. /\ page' \in [Page -> PageState] /\ page'[p] = q
        /\ \A o \in Page : o # p => page'[o] = page[o]
    BY DEF PagesInv, PageFits
  <1>2. HoldsFit(holds', page', records)
    BY <1>1, HoldsAfter
  <1>3. RecordsLater(records, records', undone, undone')
    BY SameLater
  <1>4. \A o \in Page : page'[o] = page[o] \/ PageFits(o, page'[o], records', undone')
    BY <1>1
  <1>5. /\ RecordsFit(records') /\ led' \subseteq Cases /\ undone' \subseteq Cases
        /\ served' \in 0 .. MaxServed
    BY DEF PagesInv
  <1> QED
    BY <1>1, <1>2, <1>3, <1>4, <1>5, PagesSettled

\* A step that gives a page another call, none being held for it before.
LEMMA CallOnly ==
  ASSUME PagesInv, NEW p \in Page, NEW call \in PageCall,
         call.op \in Op =>
             /\ page[p].case # NoCase
             /\ call.full => call.op \in Run
             /\ call.at = "answered" =>
                    /\ CopyFits(page[p].case, call.rec, records, undone)
                    /\ call.op = "handoff" => Eligible(call.rec),
         call.op = "start" =>
             p = "consult" /\ (call.at = "answered" => records[call.case] # NoRecord),
         page' = [page EXCEPT ![p].call = call],
         \A h \in holds' : h.by # p, HoldsFit(holds', page, records),
         UNCHANGED <<records, led, served, undone, desk>>
  PROVE  PagesInv'
  <1>1. PICK q : q = [page[p] EXCEPT !.call = call]
    OBVIOUS
  <1>2. PageFits(p, q, records, undone)
    BY <1>1, CallPutFits DEF PagesInv
  <1>3. page' = [page EXCEPT ![p] = q]
    BY <1>1
  <1> QED
    BY <1>2, <1>3, PageOnly

\* A step that saves a record and answers, or not, the call of a page.
LEMMA SaveOnly ==
  ASSUME PagesInv, NEW x \in Cases, NEW r \in Record, Sound(r),
         undone \subseteq undone', undone' \subseteq Cases,
         records[x] = NoRecord \/ x \in undone' \/ Grown(records[x], r), Store(x, r),
         NEW p \in Page, NEW call \in PageCall,
         call.op \in Op =>
             /\ page[p].case = x /\ (call.full => call.op \in Run)
             /\ call.at = "answered" /\ call.rec = r /\ call.op # "handoff",
         call.op = "start" => p = "consult" /\ (call.at = "answered" => call.case = x),
         page' = [page EXCEPT ![p].call = call],
         \A h \in holds' : h.by # p, holds' \subseteq holds,
         UNCHANGED <<led, desk>>
  PROVE  PagesInv'
  <1>1. /\ RecordsFit(records') /\ RecordsLater(records, records', undone, undone')
        /\ served' \in 0 .. MaxServed /\ records'[x] = r /\ r # NoRecord
    BY StoreLater
  <1>2. /\ \A o, q : PageFits(o, q, records, undone) => PageFits(o, q, records', undone')
        /\ \A hs, pg : HoldsFit(hs, pg, records) => HoldsFit(hs, pg, records')
    BY <1>1, CopiesKept DEF PagesInv
  <1>3. PICK q : q = [page[p] EXCEPT !.call = call]
    OBVIOUS
  <1>4. CopyFits(x, r, records', undone')
    BY <1>1, GrownSame DEF CopyFits
  <1>5. x # NoCase
    BY PagesAssumption
  <1>6. PageFits(p, q, records', undone')
    BY <1>1, <1>2, <1>3, <1>4, <1>5, CallPutFits DEF PagesInv
  <1>7. /\ page' \in [Page -> PageState] /\ page'[p] = q
        /\ \A o \in Page : o # p => page'[o] = page[o]
    <2>1. page' = [page EXCEPT ![p] = q]
      BY <1>3
    <2> QED
      BY <1>6, <2>1 DEF PagesInv, PageFits
  <1>8. HoldsFit(holds', page', records')
    <2>1. HoldsFit(holds, page, records')
      BY <1>2 DEF PagesInv
    <2>2. HoldsFit(holds', page, records')
      BY <2>1 DEF HoldsFit
    <2> QED
      BY <1>7, <2>2, HoldsAfter
  <1>9. \A o \in Page : page'[o] = page[o] \/ PageFits(o, page'[o], records', undone')
    BY <1>6, <1>7
  <1> QED
    BY <1>1, <1>7, <1>8, <1>9, PagesSettled DEF PagesInv

\* Which call a page has, with what is known of it.
LEMMA CallOfPage ==
  ASSUME PagesInv, NEW p \in Page, page[p].call.op \in Op
  PROVE  /\ page[p].case \in Cases /\ records[page[p].case] \in Record
         /\ records[page[p].case] # NoRecord /\ Sound(records[page[p].case])
         /\ page[p].call \in PageCall
         /\ page[p].call.full \in BOOLEAN
         /\ page[p].call.full => page[p].call.op \in Run
  <1>1. PageFits(p, page[p], records, undone) /\ page[p] \in PageState
    BY DEF PagesInv
  <1>2. page[p].case # NoCase /\ page[p].case \in Cases /\ records[page[p].case] # NoRecord
    BY <1>1 DEF PageFits, PageState
  <1>3. records[page[p].case] \in Record /\ Sound(records[page[p].case])
    BY <1>2 DEF PagesInv, RecordsFit
  <1>4. page[p].call \in PageCall /\ page[p].call.full \in BOOLEAN
    BY <1>1, CallShapes DEF PageState
  <1> QED
    BY <1>1, <1>2, <1>3, <1>4 DEF PageFits

\* The server.
LEMMA StartStep == ASSUME PagesInv, ServeStart PROVE PagesInv'
  <1>1. PICK x \in Cases : /\ records[x] = NoRecord /\ Store(x, New)
                          /\ page' = [page EXCEPT !["consult"].call =
                                 [op |-> "start", full |-> FALSE, at |-> "answered", case |-> x]]
    BY DEF ServeStart, StoreNew
  <1>2. PICK call : call = [op |-> "start", full |-> FALSE, at |-> "answered", case |-> x]
    OBVIOUS
  <1>3. /\ call \in PageCall /\ call.op = "start" /\ call.case = x /\ call.op \notin Op
    BY <1>2, OpNames DEF PageCall
  <1>4. \A h \in holds : h.by # "consult"
    <2>1. page["consult"].call.op = "start"
      BY DEF ServeStart, Sent
    <2> QED
      BY <2>1, NoneHeld DEF Page, Awaiting
  <1>5. UNCHANGED <<led, holds, undone, desk>> /\ "consult" \in Page /\ undone \subseteq Cases
    BY DEF ServeStart, Page, PagesInv
  <1> QED
    BY <1>1, <1>2, <1>3, <1>4, <1>5, NewRecord, SaveOnly

LEMMA ReadStep == ASSUME PagesInv, NEW p \in Page, ServeRead(p) PROVE PagesInv'
  <1>1. PICK c \in PageCall, x \in Cases, r \in Record :
          /\ c = page[p].call /\ x = page[p].case /\ r = records[x] /\ r # NoRecord
          /\ Sound(r) /\ c.op \in {"load", "handoff"} /\ c.at = "sent"
          /\ c.full \in BOOLEAN /\ (c.full => c.op \in Run)
    BY CallOfPage DEF ServeRead, Op
  <1>2. PICK call : call = Answer(c, r)
    OBVIOUS
  <1>3. /\ call \in PageCall /\ call.op = c.op /\ call.full = c.full /\ call.at = "answered"
        /\ call.rec = r /\ call.op # "start"
    BY <1>1, <1>2 DEF Answer, PageCall, Op
  <1>4. call.op = "handoff" => Eligible(r)
    <2>1. Accepts(c.op, r)
      BY <1>1 DEF ServeRead
    <2>2. "handoff" \notin Stage
      BY DEF Stage, Rank
    <2> QED
      BY <1>3, <2>1, <2>2 DEF Accepts
  <1>5. CopyFits(x, r, records, undone)
    BY <1>1, GrownSame DEF CopyFits
  <1>6. page' = [page EXCEPT ![p].call = call] /\ UNCHANGED <<records, led, holds, served, undone, desk>>
    BY <1>1, <1>2 DEF ServeRead
  <1>7. \A h \in holds' : h.by # p
    BY <1>1, <1>6, NoneHeld
  <1>8. HoldsFit(holds', page, records) /\ x # NoCase
    BY <1>6, PagesAssumption DEF PagesInv
  <1> QED
    BY <1>1, <1>3, <1>4, <1>5, <1>6, <1>7, <1>8, CallOnly

LEMMA AtOnceStep == ASSUME PagesInv, NEW p \in Page, ServeAtOnce(p) PROVE PagesInv'
  <1>1. PICK c \in PageCall, x \in Cases, now \in Record :
          /\ c = page[p].call /\ x = page[p].case /\ now = records[x]
          /\ Sound(now) /\ c.op \in {"intelligence", "package"} \cup Stage /\ c.at = "sent"
          /\ c.full \in BOOLEAN /\ (c.full => c.op \in Run)
    BY CallOfPage DEF ServeAtOnce, Op, Run
  <1>2. PICK r \in Outcomes(c.op, now) : Store(x, r) /\ page' = [page EXCEPT ![p].call = Answer(c, r)]
    BY <1>1 DEF ServeAtOnce
  <1>3. Accepts(c.op, now) /\ UNCHANGED <<led, holds, undone, desk>>
    BY <1>1 DEF ServeAtOnce
  <1>4. r \in Record /\ Grown(now, r) /\ Sound(r)
    BY <1>1, <1>2, <1>3, OutcomesGrown DEF GrownRecord, Run
  <1>5. PICK call : call = Answer(c, r)
    OBVIOUS
  <1>6. c.op \in Op /\ c.op # "handoff" /\ c.op # "start"
    BY <1>1, OpNames DEF Op, Run, Stage, Rank
  <1>7. /\ call \in PageCall /\ call.op = c.op /\ call.full = c.full /\ call.at = "answered"
        /\ call.rec = r
    BY <1>1, <1>4, <1>5, <1>6 DEF Answer, PageCall
  <1>8. \A h \in holds' : h.by # p
    BY <1>1, <1>3, NoneHeld
  <1>9. undone \subseteq undone' /\ undone' \subseteq Cases /\ holds' \subseteq holds
    BY <1>3 DEF PagesInv
  <1>10. page' = [page EXCEPT ![p].call = call] /\ Store(x, r) /\ Grown(records[x], r)
    BY <1>1, <1>2, <1>4, <1>5
  <1>11. /\ page[p].case = x /\ (call.full => call.op \in Run)
         /\ call.at = "answered" /\ call.rec = r /\ call.op # "handoff" /\ call.op # "start"
    BY <1>1, <1>6, <1>7
  <1> QED
    BY <1>3, <1>4, <1>7, <1>8, <1>9, <1>10, <1>11, SaveOnly

LEMMA AwaitStep == ASSUME PagesInv, NEW p \in Page, ServeAwait(p) PROVE PagesInv'
  <1>1. PICK c \in PageCall, x \in Cases, r \in Record :
          /\ c = page[p].call /\ x = page[p].case /\ r = records[x]
          /\ r # NoRecord /\ Sound(r) /\ c.op \in Awaiting /\ c.at = "sent"
          /\ c.full \in BOOLEAN /\ (c.full => c.op \in Run)
    BY CallOfPage DEF ServeAwait, Op, Run, Awaiting
  <1>2. PICK h : h = [by |-> p, case |-> x, op |-> c.op, rec |-> r]
    OBVIOUS
  <1>3. h \in Hold /\ h.by = p /\ h.case = x /\ h.op = c.op /\ h.rec = r
    BY <1>1, <1>2 DEF Hold
  <1>4. /\ holds' = holds \cup {h}
        /\ page' = [page EXCEPT ![p].call.at = "held"]
        /\ UNCHANGED <<records, led, served, undone, desk>>
    BY <1>1, <1>2 DEF ServeAwait
  <1>5. PICK call : call = [c EXCEPT !.at = "held"]
    OBVIOUS
  <1>6. c.op \in Op /\ c.op \notin {"start", "none", "closed"}
    BY <1>1, OpNames DEF Op, Run, Awaiting
  <1>7. /\ call \in PageCall /\ call.op = c.op /\ call.full = c.full /\ call.at = "held"
    <2>1. c \in [op : Op, full : BOOLEAN, at : {"sent", "held"}]
      <3>1. NoCall.op = "none" /\ Closed.op = "closed"
        BY DEF NoCall, Closed
      <3>2. c # NoCall /\ c # Closed
        BY <1>6, <3>1
      <3>3. c.op # "start" /\ c.at # "answered"
        BY <1>1, <1>6
      <3> QED
        BY <3>2, <3>3 DEF PageCall
    <2> QED
      BY <1>5, <2>1 DEF PageCall
  <1>8. page' = [page EXCEPT ![p].call = call]
    BY <1>1, <1>4, <1>5 DEF PagesInv, PageState
  <1>9. PICK q : q = [page[p] EXCEPT !.call = call]
    OBVIOUS
  <1>10. PageFits(p, q, records, undone)
    <2>1. x # NoCase
      BY PagesAssumption
    <2> QED
      BY <1>1, <1>6, <1>7, <1>9, <2>1, CallPutFits DEF PagesInv
  <1>11. /\ page' \in [Page -> PageState] /\ page'[p] = q
         /\ \A o \in Page : o # p => page'[o] = page[o]
    <2>1. page' = [page EXCEPT ![p] = q]
      BY <1>8, <1>9
    <2> QED
      BY <1>10, <2>1 DEF PagesInv, PageFits
  <1>12. q.case = x /\ q.call = call
    BY <1>1, <1>7, <1>9 DEF PagesInv, PageState
  <1>13. HoldsFit(holds', page', records)
    <2>1. HoldsFit(holds, page, records) /\ \A g \in holds : g.by # p
      BY <1>1, NoneHeld DEF PagesInv
    <2>2. HoldsFit(holds, page', records)
      BY <1>11, <2>1, HoldsAfter
    <2> QED
      BY <1>1, <1>3, <1>4, <1>7, <1>11, <1>12, <2>1, <2>2 DEF HoldsFit
  <1>14. RecordsLater(records, records', undone, undone')
    BY <1>4, SameLater
  <1>15. \A o \in Page : page'[o] = page[o] \/ PageFits(o, page'[o], records', undone')
    BY <1>4, <1>10, <1>11
  <1>16. HoldsFit(holds', page', records')
    BY <1>4, <1>13
  <1> QED
    BY <1>4, <1>11, <1>14, <1>15, <1>16, PagesSettled DEF PagesInv

LEMMA ResumeStep == ASSUME PagesInv, NEW h \in holds, Resume(h) PROVE PagesInv'
  <1>1. /\ h \in Hold /\ records[h.case] # NoRecord /\ Sound(h.rec)
        /\ h.by \in Page => /\ page[h.by].case = h.case /\ page[h.by].call.op = h.op
                            /\ page[h.by].call.at = "held"
        /\ \A g \in holds : g.by = h.by /\ h.by \in Page => g = h
    BY DEF PagesInv, HoldsFit
  <1>2. PICK x \in Cases, held \in Record : x = h.case /\ held = h.rec
    BY <1>1 DEF Hold
  <1>3. PICK r \in Outcomes(h.op, held) :
          /\ x = h.case /\ held = h.rec /\ Store(x, r)
          /\ page' = IF h.by = "nobody" THEN page
                     ELSE [page EXCEPT ![h.by].call = Answer(page[h.by].call, r)]
    BY <1>2 DEF Resume
  <1>4. /\ undone' = IF records[x] = held THEN undone ELSE undone \cup {x}
        /\ holds' = holds \ {h} /\ UNCHANGED <<led, desk>>
    BY <1>3 DEF Resume
  <1>5. r \in Record /\ Grown(held, r) /\ Sound(r)
    BY <1>1, <1>3, OutcomesGrown DEF GrownRecord, Hold
  <1>6. /\ undone \subseteq undone' /\ undone' \subseteq Cases
        /\ x \in undone' \/ Grown(records[x], r)
    BY <1>3, <1>4, <1>5 DEF PagesInv
  <1>7. CASE h.by \in Page
    <2>1. PICK p \in Page, c \in PageCall : p = h.by /\ c = page[p].call
      BY <1>7 DEF PagesInv, PageState
    <2>2. c.op = h.op /\ c.op \in Op /\ c.op \in Awaiting
      BY <1>1, <1>7, <2>1 DEF Hold, Op, Run, Awaiting
    <2>3. c.full \in BOOLEAN /\ (c.full => c.op \in Run)
      BY <2>1, <2>2, CallOfPage
    <2>4. PICK call : call = Answer(c, r)
      OBVIOUS
    <2>5. /\ call \in PageCall /\ call.op = c.op /\ call.full = c.full /\ call.at = "answered"
          /\ call.rec = r
      BY <1>5, <2>2, <2>3, <2>4 DEF Answer, PageCall
    <2>6. call.op # "handoff" /\ call.op # "start" /\ page[p].case = x
      BY <1>1, <1>3, <1>7, <2>1, <2>2, <2>5 DEF Awaiting
    <2>7. \A g \in holds' : g.by # p
      BY <1>1, <1>4, <1>7, <2>1
    <2>8. page' = [page EXCEPT ![p].call = call]
      <3>1. h.by # "nobody"
        BY <1>7 DEF Page
      <3> QED
        BY <1>3, <2>1, <2>4, <3>1
    <2>9. holds' \subseteq holds /\ Store(x, r) /\ UNCHANGED <<led, desk>>
      BY <1>3, <1>4
    <2> QED
      BY <1>5, <1>6, <2>3, <2>5, <2>6, <2>7, <2>8, <2>9, SaveOnly
  <1>8. CASE h.by = "nobody"
    <2>1. page' = page
      BY <1>3, <1>8
    <2>2. /\ RecordsFit(records') /\ RecordsLater(records, records', undone, undone')
          /\ served' \in 0 .. MaxServed
      BY <1>3, <1>5, <1>6, StoreLater
    <2>3. \A hs, pg : HoldsFit(hs, pg, records) => HoldsFit(hs, pg, records')
      BY <2>2, CopiesKept DEF PagesInv
    <2>4. HoldsFit(holds', page', records')
      BY <1>4, <2>1, <2>3 DEF PagesInv, HoldsFit
    <2> QED
      BY <1>4, <1>6, <2>1, <2>2, <2>4, PagesSettled DEF PagesInv
  <1> QED
    BY <1>1, <1>7, <1>8 DEF Hold

\* The request or its answer is lost.
LEMMA FailStep == ASSUME PagesInv, NEW p \in Page, Fail(p) PROVE PagesInv'
  <1>1. /\ page' = [page EXCEPT ![p].call = NoCall]
        /\ holds' = {IF h.by = p THEN [h EXCEPT !.by = "nobody"] ELSE h : h \in holds}
        /\ UNCHANGED <<records, led, served, undone, desk>>
    BY DEF Fail
  <1>2. HoldsFit(holds', page, records) /\ \A h \in holds' : h.by # p
    BY <1>1, Disowned DEF PagesInv
  <1>3. NoCall \in PageCall /\ NoCall.op = "none" /\ NoCall.op \notin Op
    BY OpNames DEF NoCall, PageCall
  <1> QED
    BY <1>1, <1>2, <1>3, CallOnly

\* The buttons.
LEMMA SendStep ==
  ASSUME PagesInv, NEW p \in Page, NEW op \in Op \cup {"start"}, NEW full \in BOOLEAN,
         full => op \in Run, op \in Op => Showing(p), op = "start" => p = "consult" /\ ~ full,
         Push(p, Sent(op, full))
  PROVE  PagesInv'
  <1>1. PICK call : call = Sent(op, full)
    OBVIOUS
  <1>2. /\ call \in PageCall /\ call.op = op /\ call.full = full /\ call.at = "sent"
    BY <1>1, OpNames DEF Sent, PageCall
  <1>3. op \in Op => page[p].case # NoCase
    BY DEF Showing, PagesInv, PageFits
  <1>4. page[p].call = NoCall /\ page' = [page EXCEPT ![p].call = call]
        /\ UNCHANGED <<records, led, holds, served, undone, desk>>
    BY <1>1 DEF Push
  <1>5. \A h \in holds' : h.by # p
    <2>1. page[p].call.op \notin Awaiting
      BY <1>4 DEF NoCall, Awaiting
    <2> QED
      BY <1>4, <2>1, NoneHeld
  <1>6. HoldsFit(holds', page, records)
    BY <1>4 DEF PagesInv
  <1> QED
    BY <1>2, <1>3, <1>4, <1>5, <1>6, CallOnly

LEMMA ButtonsStep ==
  ASSUME PagesInv,
         PushStart \/ PushRest \/ PushFull \/ PushStep \/ PushGovern \/ \E p \in Page : PushAnswer(p)
  PROVE  PagesInv'
  <1>1. "consult" \in Page /\ "business" \in Page
    BY DEF Page
  <1>2. CASE PushStart
    BY <1>1, <1>2, SendStep, OpNames DEF PushStart
  <1>3. CASE PushRest
    BY <1>1, <1>3, SendStep, OpNames DEF PushRest, Run, Op
  <1>4. CASE PushFull
    BY <1>1, <1>4, SendStep, OpNames DEF PushFull, Run, Op
  <1>5. CASE PushStep
    <2>1. PICK op \in {"intelligence", "gaps"} : Push("business", Sent(op, FALSE))
      BY <1>5 DEF PushStep
    <2>2. op \in Op /\ op # "start" /\ Showing("business")
      BY <1>5 DEF PushStep, Op, Run
    <2> QED
      BY <1>1, <2>1, <2>2, SendStep
  <1>6. CASE PushGovern
    <2>1. PICK op \in Steps \cup {"handoff"} : Push("business", Sent(op, FALSE))
      BY <1>6 DEF PushGovern
    <2>2. op \in Op /\ op # "start" /\ Showing("business")
      BY <1>6, PagesAssumption, OpNames DEF PushGovern, Op
    <2> QED
      BY <1>1, <2>1, <2>2, SendStep
  <1>7. ASSUME NEW p \in Page, PushAnswer(p) PROVE PagesInv'
    BY <1>7, SendStep, OpNames DEF PushAnswer, Op
  <1> QED
    BY <1>2, <1>3, <1>4, <1>5, <1>6, <1>7

\* The answers.
LEMMA FollowedFits ==
  ASSUME NEW c, c.full \in BOOLEAN, c.full => c.op \in Run
  PROVE  /\ Followed(c) \in PageCall
         /\ Followed(c).op \in Op =>
                Followed(c).full \in BOOLEAN /\ Followed(c).op \in Run /\ Followed(c).at = "sent"
         /\ Followed(c).op # "start"
  <1>1. CASE c.full /\ c.op # "package"
    <2>1. PICK op \in Run : op = Following[c.op]
      BY <1>1 DEF Following, Run
    <2>2. Followed(c) = [op |-> op, full |-> TRUE, at |-> "sent"] /\ op \in Op
      BY <1>1, <2>1 DEF Followed, Sent, Op
    <2>3. [op |-> op, full |-> TRUE, at |-> "sent"] \in PageCall
      BY <2>2 DEF PageCall
    <2>4. op # "start"
      BY <2>2, OpNames
    <2> QED
      BY <2>1, <2>2, <2>3, <2>4
  <1>2. CASE ~ (c.full /\ c.op # "package")
    <2>1. Followed(c) = NoCall /\ NoCall.op = "none" /\ NoCall \in PageCall
      BY <1>2 DEF Followed, NoCall, PageCall
    <2> QED
      BY <2>1, OpNames
  <1> QED
    BY <1>1, <1>2

\* A page shows what an answer brought, and perhaps a package or a handoff.
LEMMA ShownFits ==
  ASSUME NEW p \in Page, NEW old, NEW recs, NEW und, PageFits(p, old, recs, und),
         old.case # NoCase,
         NEW r, CopyFits(old.case, r, recs, und), r \in Record \cup {NoRecord},
         NEW panel, panel = old.panel
                       \/ (panel = old.case /\ (old.case \notin und => PanelDue(p, recs[old.case]))),
         NEW call \in PageCall, call.op # "start",
         call.op \in Op => call.op \in Run /\ call.at = "sent"
  PROVE  PageFits(p, [old EXCEPT !.rec = r, !.call = call, !.panel = panel], recs, und)
  <1>1. PICK q : q = [old EXCEPT !.rec = r, !.call = call, !.panel = panel]
    OBVIOUS
  <1>2. old \in PageState
    BY DEF PageFits
  <1>3. /\ q \in PageState /\ q.case = old.case /\ q.rec = r /\ q.panel = panel /\ q.call = call
    BY <1>1, <1>2 DEF PageState
  <1>4. recs[q.case] # NoRecord /\ q.case # NoCase
    BY <1>3 DEF PageFits
  <1>5. q.panel # NoCase => q.panel = q.case /\ (q.case \notin und => PanelDue(p, recs[q.case]))
    BY <1>3 DEF PageFits
  <1>6. CopyFits(q.case, q.rec, recs, und)
    BY <1>3
  <1> QED
    BY <1>1, <1>3, <1>4, <1>5, <1>6 DEF PageFits

LEMMA GetStep ==
  ASSUME PagesInv, GetStart \/ GetConsult \/ GetBusiness
  PROVE  PagesInv'
  <1>1. UNCHANGED <<records, led, holds, served, undone, desk>>
    BY DEF GetStart, GetConsult, GetBusiness
  <1>2. HoldsFit(holds', page, records) /\ "consult" \in Page /\ "business" \in Page
    BY <1>1 DEF PagesInv, Page
  <1>3. CASE GetStart
    <2>1. page["consult"].call.op = "start" /\ page["consult"].call.at = "answered"
      BY <1>3 DEF GetStart
    <2>2. page["consult"].call \in PageCall /\ PageFits("consult", page["consult"], records, undone)
      BY <1>2 DEF PagesInv, PageState
    <2>3. PICK x \in Cases : x = page["consult"].call.case /\ records[x] # NoRecord
      BY <2>1, <2>2, CallShapes DEF PageFits
    <2>4. PICK q : q = [Blank(x, NoCall) EXCEPT !.rec = New]
      OBVIOUS
    <2>5. page' = [page EXCEPT !["consult"] = q]
      BY <1>3, <2>3, <2>4 DEF GetStart
    <2>6. /\ q.case = x /\ q.rec = New /\ q.panel = NoCase /\ q.call = NoCall
          /\ q \in PageState
      BY <2>4, NewRecord DEF Blank, PageState, PageCall
    <2>7. records[x] \in Record /\ x # NoCase
      BY <2>3, PagesAssumption DEF PagesInv, RecordsFit
    <2>8. CopyFits(x, New, records, undone)
      BY <2>3, <2>7, NewRecord, FirstOfAll DEF CopyFits
    <2>9. PageFits("consult", q, records, undone)
      <3>1. NoCall.op = "none" /\ NoCall.op \notin Op
        BY OpNames DEF NoCall
      <3> QED
        BY <2>3, <2>6, <2>7, <2>8, <3>1 DEF PageFits
    <2>10. \A h \in holds' : h.by # "consult"
      BY <1>1, <1>2, <2>1, NoneHeld
    <2> QED
      BY <1>1, <1>2, <2>5, <2>9, <2>10, PageOnly
  <1>4. ASSUME NEW p \in Page, NEW c, c = page[p].call, c.op \in Op, c.at = "answered",
               NEW r, r = c.rec \/ r = page[p].rec,
               NEW panel, panel = page[p].panel
                          \/ (panel = page[p].case /\ IF p = "consult" THEN c.rec.reached = Package
                                                                     ELSE c.op = "handoff"),
               page' = [page EXCEPT ![p] =
                   [page[p] EXCEPT !.rec = r, !.call = Followed(c), !.panel = panel]]
        PROVE  PagesInv'
    <2>1. /\ PageFits(p, page[p], records, undone) /\ page[p].case \in Cases /\ page[p].case # NoCase
          /\ c.full \in BOOLEAN /\ (c.full => c.op \in Run) /\ c \in PageCall
      BY <1>4, CallOfPage, PagesAssumption DEF PagesInv
    <2>2. PICK x \in Cases : x = page[p].case
      BY <2>1
    <2>3. /\ CopyFits(x, c.rec, records, undone) /\ c.rec \in Record
          /\ c.op = "handoff" => Eligible(c.rec)
      BY <1>4, <2>1, <2>2, CallShapes DEF PageFits
    <2>4. CopyFits(x, r, records, undone) /\ r \in Record \cup {NoRecord}
      BY <1>4, <2>1, <2>2, <2>3 DEF PageFits, PageState
    <2>5. panel = page[p].panel
             \/ (panel = page[p].case /\ (page[p].case \notin undone => PanelDue(p, records[x])))
      <3>1. ASSUME panel # page[p].panel, x \notin undone
            PROVE  PanelDue(p, records[x])
        <4>1. c.rec # NoRecord /\ Grown(c.rec, records[x]) /\ records[x] \in Record
          BY <2>3, <3>1, PagesAssumption DEF CopyFits, PagesInv, RecordsFit
        <4>2. PanelDue(p, c.rec)
          BY <1>4, <2>3, <3>1 DEF PanelDue
        <4> QED
          BY <2>3, <4>1, <4>2, PanelKept
      <3> QED
        BY <1>4, <2>2, <3>1
    <2>6. PICK call : call = Followed(c)
      OBVIOUS
    <2>7. /\ call \in PageCall /\ call.op # "start"
          /\ call.op \in Op => call.op \in Run /\ call.at = "sent"
      BY <2>1, <2>6, FollowedFits
    <2>8. PICK q : q = [page[p] EXCEPT !.rec = r, !.call = call, !.panel = panel]
      OBVIOUS
    <2>9. PageFits(p, q, records, undone)
      BY <2>1, <2>2, <2>4, <2>5, <2>7, <2>8, ShownFits
    <2>10. page' = [page EXCEPT ![p] = q]
      BY <1>4, <2>6, <2>8
    <2>11. \A h \in holds' : h.by # p
      BY <1>1, <1>4, NoneHeld
    <2> QED
      BY <1>1, <1>2, <2>9, <2>10, <2>11, PageOnly
  <1>5. CASE GetConsult
    <2>1. PICK c : c = page["consult"].call
      OBVIOUS
    <2>2. c.op \in Op /\ c.at = "answered"
      <3>1. c \in PageCall
        BY <1>2, <2>1 DEF PagesInv, PageState
      <3> QED
        BY <1>5, <2>1, <3>1, CallShapes DEF GetConsult
    <2>3. PICK panel : panel = IF c.full /\ c.rec.reached = Package THEN page["consult"].case
                               ELSE page["consult"].panel
      OBVIOUS
    <2>4. page' = [page EXCEPT !["consult"] =
                      [page["consult"] EXCEPT !.rec = c.rec, !.call = Followed(c), !.panel = panel]]
      BY <1>5, <2>1, <2>3 DEF GetConsult
    <2> QED
      BY <1>2, <1>4, <2>1, <2>2, <2>3, <2>4
  <1>6. CASE GetBusiness
    <2>1. PICK c : c = page["business"].call
      OBVIOUS
    <2>2. page["business"].call.op # "start"
      <3>1. PageFits("business", page["business"], records, undone)
        BY <1>2 DEF PagesInv
      <3> QED
        BY <3>1 DEF PageFits
    <2>3. c.op \in Op /\ c.at = "answered"
      <3>1. c \in PageCall
        BY <1>2, <2>1 DEF PagesInv, PageState
      <3> QED
        BY <1>6, <2>1, <2>2, <3>1, CallShapes DEF GetBusiness
    <2>4. PICK panel, r :
            /\ panel = IF c.op = "handoff" THEN page["business"].case ELSE page["business"].panel
            /\ r = IF c.op = "handoff" THEN page["business"].rec ELSE c.rec
      OBVIOUS
    <2>5. page' = [page EXCEPT !["business"] =
                      [page["business"] EXCEPT !.rec = r, !.call = Followed(c), !.panel = panel]]
      BY <1>6, <2>1, <2>4 DEF GetBusiness
    <2> QED
      BY <1>2, <1>4, <2>1, <2>3, <2>4, <2>5
  <1> QED
    BY <1>3, <1>5, <1>6

\* The link of the desk, and what it begins when it starts a consultation.
LEMMA BlankFits ==
  ASSUME NEW x \in Cases, NEW recs, recs[x] # NoRecord, NEW und
  PROVE  /\ Blank(x, Sent("load", FALSE)) \in PageState
         /\ PageFits("business", Blank(x, Sent("load", FALSE)), recs, und)
  <1>1. PICK call : call = Sent("load", FALSE)
    OBVIOUS
  <1>2. /\ call \in PageCall /\ call.op = "load" /\ call.full = FALSE /\ call.at = "sent"
        /\ call.op \in Op /\ call.op # "start"
    BY <1>1, OpNames DEF Sent, PageCall, Op
  <1>3. PICK q : q = Blank(x, call)
    OBVIOUS
  <1>4. /\ q \in PageState /\ q.case = x /\ q.rec = NoRecord /\ q.panel = NoCase
        /\ q.call = call
    BY <1>2, <1>3 DEF Blank, PageState
  <1>5. x # NoCase
    BY PagesAssumption
  <1>6. PageFits("business", q, recs, und)
    BY <1>2, <1>4, <1>5 DEF PageFits, CopyFits
  <1> QED
    BY <1>1, <1>3, <1>4, <1>6

LEMMA OpenStep == ASSUME PagesInv, NEW x \in Cases, OpenCase(x) PROVE PagesInv'
  <1>1. records[x] # NoRecord
    BY DEF OpenCase, PagesInv, DeskFits, CopyFits
  <1>2. PICK q : q = Blank(x, Sent("load", FALSE))
    OBVIOUS
  <1>3. PageFits("business", q, records, undone) /\ "business" \in Page
    BY <1>1, <1>2, BlankFits DEF Page
  <1>4. /\ page' = [page EXCEPT !["business"] = q]
        /\ holds' = {IF h.by = "business" THEN [h EXCEPT !.by = "nobody"] ELSE h : h \in holds}
        /\ UNCHANGED <<records, led, served, undone, desk>>
    BY <1>2 DEF OpenCase
  <1>5. HoldsFit(holds', page, records) /\ \A h \in holds' : h.by # "business"
    BY <1>3, <1>4, Disowned DEF PagesInv
  <1> QED
    BY <1>3, <1>4, <1>5, PageOnly

\* The list of the desk is a copy of the records.
LEMMA ListsFit ==
  ASSUME PagesInv
  PROVE  /\ records \in Lists /\ NoList \in Lists
         /\ desk.answer \in Lists /\ desk.list \in Lists
         /\ \A x \in Cases : /\ CopyFits(x, records[x], records, undone)
                             /\ CopyFits(x, NoList[x], records, undone)
                             /\ CopyFits(x, desk.answer[x], records, undone)
                             /\ CopyFits(x, desk.list[x], records, undone)
  <1>1. ASSUME NEW x \in Cases PROVE CopyFits(x, records[x], records, undone)
    BY GrownSame DEF PagesInv, RecordsFit, CopyFits
  <1>2. ASSUME NEW x \in Cases PROVE CopyFits(x, NoList[x], records, undone)
    BY DEF NoList, CopyFits
  <1>3. records \in Lists /\ NoList \in Lists
    BY DEF PagesInv, RecordsFit, NoList, Lists
  <1>4. desk.answer \in Lists /\ desk.list \in Lists
    BY DEF PagesInv, DeskFits, Desk
  <1>5. \A x \in Cases : /\ CopyFits(x, desk.answer[x], records, undone)
                         /\ CopyFits(x, desk.list[x], records, undone)
    BY DEF PagesInv, DeskFits
  <1> QED
    BY <1>1, <1>2, <1>3, <1>4, <1>5

LEMMA DeskIs ==
  ASSUME NEW c \in {"closed", "none", "load", "listed"}, NEW list \in Lists, NEW answer \in Lists,
         NEW recs, NEW und,
         \A x \in Cases : CopyFits(x, list[x], recs, und) /\ CopyFits(x, answer[x], recs, und)
  PROVE  DeskFits([call |-> c, answer |-> answer, list |-> list], recs, und)
  BY DEF DeskFits, Desk

LEMMA DeskStep == ASSUME PagesInv, DeskServe \/ DeskShow PROVE PagesInv'
  <1>1. /\ UNCHANGED <<records, led, holds, served, undone, page>>
    BY DEF DeskServe, DeskShow
  <1>2. DeskFits(desk', records, undone)
    <2>1. CASE DeskServe
      <3>1. PICK d \in Lists : d = desk.list
        BY ListsFit
      <3>2. desk' = [call |-> "listed", answer |-> records, list |-> d]
        BY <2>1, <3>1 DEF DeskServe, PagesInv, DeskFits, Desk
      <3> QED
        BY <3>1, <3>2, ListsFit, DeskIs
    <2>2. CASE DeskShow
      <3>1. PICK d \in Lists : d = desk.answer
        BY ListsFit
      <3>2. desk' = [call |-> "none", answer |-> NoList, list |-> d]
        BY <2>2, <3>1 DEF DeskShow
      <3> QED
        BY <3>1, <3>2, ListsFit, DeskIs
    <2> QED
      BY <2>1, <2>2
  <1>3. RecordsLater(records, records', undone, undone')
    BY <1>1, SameLater
  <1>4. /\ RecordsFit(records') /\ led' \subseteq Cases /\ undone' \subseteq Cases
        /\ served' \in 0 .. MaxServed /\ HoldsFit(holds', page', records')
        /\ page' \in [Page -> PageState] /\ \A p \in Page : page'[p] = page[p]
    BY <1>1 DEF PagesInv
  <1>5. DeskFits(desk', records', undone')
    BY <1>1, <1>2
  <1> QED
    BY <1>3, <1>4, <1>5, PagesSettled

\* create()
LEMMA MakeStep == ASSUME PagesInv, DeskStart \/ DeskCreate PROVE PagesInv'
  <1>1. PICK x \in Cases :
          /\ records[x] = NoRecord /\ Store(x, New)
          /\ DeskStart => page' = [page EXCEPT !["business"] = Blank(x, Sent("load", FALSE))]
          /\ DeskStart \/ led' = led \cup {x}
    BY DEF DeskStart, DeskCreate, StoreNew
  <1>2. undone' = undone /\ undone \subseteq undone' /\ undone' \subseteq Cases
    BY DEF DeskStart, DeskCreate, PagesInv
  <1>3. /\ RecordsFit(records') /\ RecordsLater(records, records', undone, undone')
        /\ served' \in 0 .. MaxServed /\ records'[x] # NoRecord
    BY <1>1, <1>2, NewRecord, StoreLater
  <1>4. /\ \A d : DeskFits(d, records, undone) => DeskFits(d, records', undone')
        /\ \A hs, pg : HoldsFit(hs, pg, records) => HoldsFit(hs, pg, records')
    BY <1>3, CopiesKept DEF PagesInv
  <1>5. CASE DeskStart
    <2>1. PICK q : q = Blank(x, Sent("load", FALSE))
      OBVIOUS
    <2>2. PageFits("business", q, records', undone') /\ q \in PageState
      BY <1>3, <2>1, BlankFits
    <2>3. /\ page' = [page EXCEPT !["business"] = q]
          /\ holds' = {IF h.by = "business" THEN [h EXCEPT !.by = "nobody"] ELSE h : h \in holds}
          /\ UNCHANGED <<led, undone>>
          /\ desk' = [call |-> "load", answer |-> NoList, list |-> NoList]
      BY <1>1, <1>5, <2>1 DEF DeskStart
    <2>4. /\ page' \in [Page -> PageState] /\ page'["business"] = q
          /\ \A o \in Page : o # "business" => page'[o] = page[o]
      <3>1. page \in [Page -> PageState] /\ "business" \in Page
        BY DEF PagesInv, Page
      <3> QED
        BY <2>2, <2>3, <3>1
    <2>5. "business" \in Page
      BY DEF Page
    <2>6. HoldsFit(holds', page', records')
      <3>1. HoldsFit(holds', page, records) /\ \A h \in holds' : h.by # "business"
        BY <2>3, <2>5, Disowned DEF PagesInv
      <3>2. HoldsFit(holds', page', records)
        BY <2>4, <3>1, HoldsAfter
      <3> QED
        BY <1>4, <3>2
    <2>7. DeskFits(desk', records', undone')
      <3>1. NoList \in Lists /\ \A y \in Cases : CopyFits(y, NoList[y], records', undone')
        BY DEF NoList, CopyFits, Lists
      <3> QED
        BY <2>3, <3>1, DeskIs
    <2>8. \A o \in Page : page'[o] = page[o] \/ PageFits(o, page'[o], records', undone')
      BY <2>2, <2>4
    <2>9. led' \subseteq Cases
      BY <2>3 DEF PagesInv
    <2> QED
      BY <1>2, <1>3, <2>4, <2>6, <2>7, <2>8, <2>9, PagesSettled
  <1>6. CASE DeskCreate
    <2>1. /\ desk' = [desk EXCEPT !.call = "load"] /\ UNCHANGED <<holds, undone, page>>
      BY <1>6 DEF DeskCreate
    <2>2. led' \subseteq Cases
      BY <1>6 DEF DeskCreate, PagesInv
    <2>3. DeskFits(desk', records, undone)
      <3>1. PICK list \in Lists, answer \in Lists : list = desk.list /\ answer = desk.answer
        BY ListsFit
      <3>2. desk' = [call |-> "load", answer |-> answer, list |-> list]
        BY <2>1, <3>1 DEF PagesInv, DeskFits, Desk
      <3> QED
        BY <3>1, <3>2, ListsFit, DeskIs
    <2>4. DeskFits(desk', records', undone')
      BY <1>4, <2>3
    <2>5. HoldsFit(holds', page', records')
      BY <1>4, <2>1 DEF PagesInv
    <2>6. page' \in [Page -> PageState] /\ \A o \in Page : page'[o] = page[o]
      BY <2>1 DEF PagesInv
    <2> QED
      BY <1>2, <1>3, <2>2, <2>4, <2>5, <2>6, PagesSettled
  <1> QED
    BY <1>5, <1>6

LEMMA PagesAtFirst == PagesInit => PagesInv
  <1> SUFFICES ASSUME PagesInit PROVE PagesInv
    OBVIOUS
  <1>1. records \in Opened /\ led = {} /\ holds = {} /\ served = 0 /\ undone = {}
    BY DEF PagesInit
  <1>2. /\ RecordsFit(records) /\ Session \in Cases /\ records[Session] # NoRecord
        /\ NoCase \notin Cases /\ MaxServed \in Nat
    BY <1>1, PagesAssumption DEF RecordsFit
  <1>3. HoldsFit(holds, page, records)
    BY <1>1 DEF HoldsFit
  <1>4. NoList \in Lists /\ \A y \in Cases : CopyFits(y, NoList[y], records, undone)
    BY DEF NoList, CopyFits, Lists
  <1>5. DeskFits(desk, records, undone)
    <2>1. PICK c \in {"load", "closed"} : desk = [call |-> c, answer |-> NoList, list |-> NoList]
      BY DEF PagesInit
    <2> QED
      BY <1>4, <2>1, DeskIs
  <1>6. page \in [Page -> PageState] /\ \A p \in Page : PageFits(p, page[p], records, undone)
    <2>1. CASE page = [p \in Page |-> Blank(NoCase, Closed)]
      <3>1. PICK q : q = Blank(NoCase, Closed)
        OBVIOUS
      <3>2. /\ q \in PageState /\ q.case = NoCase /\ q.rec = NoRecord /\ q.panel = NoCase
            /\ q.call = Closed
        BY <3>1 DEF Blank, PageState, PageCall
      <3>3. Closed.op = "closed" /\ Closed.op \notin Op
        BY OpNames DEF Closed
      <3>4. \A p \in Page : PageFits(p, q, records, undone)
        BY <3>2, <3>3 DEF PageFits
      <3>5. page = [p \in Page |-> q]
        BY <2>1, <3>1
      <3> QED
        BY <3>2, <3>4, <3>5
    <2>2. CASE /\ records[Session].reached = Review
               /\ page = [consult |-> [Blank(Session, Sent("package", TRUE))
                                          EXCEPT !.rec = records[Session]],
                          business |-> Blank(Session, Sent("load", FALSE))]
      <3>1. PICK r \in Record : r = records[Session] /\ Sound(r) /\ r # NoRecord
        BY <1>2 DEF RecordsFit
      <3>2. PICK call : call = Sent("package", TRUE)
        OBVIOUS
      <3>3. /\ call \in PageCall /\ call.op = "package" /\ call.full = TRUE /\ call.at = "sent"
            /\ call.op \in Op /\ call.op # "start" /\ call.op \in Run
        BY <3>2, OpNames DEF Sent, PageCall, Op, Run
      <3>4. PICK q : q = [Blank(Session, call) EXCEPT !.rec = r]
        OBVIOUS
      <3>5. /\ q \in PageState /\ q.case = Session /\ q.rec = r /\ q.panel = NoCase
            /\ q.call = call
        BY <1>2, <3>1, <3>3, <3>4 DEF Blank, PageState
      <3>6. CopyFits(Session, r, records, undone)
        BY <1>2, <3>1, GrownSame DEF CopyFits
      <3>7. PageFits("consult", q, records, undone)
        BY <1>2, <3>3, <3>5, <3>6 DEF PageFits
      <3>8. PICK b : b = Blank(Session, Sent("load", FALSE))
        OBVIOUS
      <3>9. b \in PageState /\ PageFits("business", b, records, undone)
        BY <1>2, <3>8, BlankFits
      <3>10. page = [consult |-> q, business |-> b]
        BY <2>2, <3>1, <3>2, <3>4, <3>8
      <3>11. page \in [Page -> PageState] /\ page["consult"] = q /\ page["business"] = b
        BY <3>5, <3>9, <3>10 DEF Page
      <3> QED
        BY <3>7, <3>9, <3>11 DEF Page
    <2> QED
      BY <2>1, <2>2 DEF PagesInit
  <1>7. DOMAIN page = Page /\ served \in 0 .. MaxServed /\ led \subseteq Cases /\ undone \subseteq Cases
    BY <1>1, <1>2, <1>6
  <1> QED
    BY <1>2, <1>3, <1>5, <1>6, <1>7 DEF PagesInv

LEMMA PagesStepHolds == ASSUME PagesInv, [PagesNext]_pagesVars PROVE PagesInv'
  <1>1. CASE UNCHANGED pagesVars
    BY <1>1 DEF pagesVars, PagesInv
  <1>2. CASE ServeStart \/ GetStart \/ GetConsult \/ GetBusiness
    BY <1>2, StartStep, GetStep
  <1>3. ASSUME NEW p \in Page,
               ServeRead(p) \/ ServeAtOnce(p) \/ ServeAwait(p) \/ Fail(p) \/ PushAnswer(p)
        PROVE  PagesInv'
    BY <1>3, ReadStep, AtOnceStep, AwaitStep, FailStep, ButtonsStep
  <1>4. ASSUME NEW h \in holds, Resume(h) PROVE PagesInv'
    BY <1>4, ResumeStep
  <1>5. CASE PushStart \/ PushRest \/ PushFull \/ PushStep \/ PushGovern
    BY <1>5, ButtonsStep
  <1>6. ASSUME NEW x \in Cases, OpenCase(x) PROVE PagesInv'
    BY <1>6, OpenStep
  <1>7. CASE DeskServe \/ DeskShow \/ DeskStart \/ DeskCreate
    BY <1>7, DeskStep, MakeStep
  <1> QED
    BY <1>1, <1>2, <1>3, <1>4, <1>5, <1>6, <1>7 DEF PagesNext

LEMMA PagesAlways == PagesSpec => []PagesInv
  <1>1. PagesInv /\ [PagesNext]_pagesVars => PagesInv'
    BY PagesStepHolds
  <1> QED
    BY PagesAtFirst, <1>1, PTL DEF PagesSpec

\* A record that came from another is as far as it, if it is sound.
LEMMA StageGrows ==
  ASSUME NEW x, NEW r \in Record, NEW t \in Record, Sound(r), Sound(t), Grown(r, t)
  PROVE  PipelineRank[StageOf(x, r)] <= PipelineRank[StageOf(x, t)]
  <1>1. /\ PipelineRank["ready"] = 5 /\ PipelineRank["approval"] = 4
        /\ PipelineRank["proposal"] = 3 /\ PipelineRank["analysis"] = 2
        /\ PipelineRank["discovery"] = 1 /\ PipelineRank["lead"] = 0
    BY DEF PipelineRank
  <1>2. /\ r.eligible => t.eligible
        /\ "client" \in r.given \/ r.stage = "client_approval" => "client" \in t.given
        /\ r.commercial # NoDna => t.commercial # NoDna
        /\ (r.analysis \/ r.reached >= Gaps) => (t.analysis \/ t.reached >= Gaps)
    BY DEF Grown, Sound, Record, Gaps, Interview, Package
  <1> QED
    BY <1>1, <1>2 DEF StageOf

LEMMA PagesSafe == PagesInv => PagesHold /\ PagesTypeOK
  <1> SUFFICES ASSUME PagesInv PROVE PagesHold /\ PagesTypeOK
    OBVIOUS
  <1>1. ASSUME NEW x \in Cases \ undone, NEW r, CopyFits(x, r, records, undone)
        PROVE  Behind(x, r)
    <2> SUFFICES ASSUME r # NoRecord
                 PROVE  PipelineRank[StageOf(x, r)] <= PipelineRank[StageOf(x, records[x])]
      BY DEF Behind
    <2>1. /\ r \in Record /\ Sound(r) /\ records[x] # NoRecord /\ Grown(r, records[x])
      BY <1>1 DEF CopyFits
    <2>2. records[x] \in Record /\ Sound(records[x])
      BY <2>1 DEF PagesInv, RecordsFit
    <2> QED
      BY <2>1, <2>2, StageGrows
  <1>2. \A x \in Cases \ undone : Behind(x, desk.list[x])
    BY <1>1 DEF PagesInv, DeskFits
  <1>3. ASSUME NEW p \in Page
        PROVE  /\ page[p].panel # NoCase => page[p].panel = page[p].case
               /\ page[p].case \notin undone \cup {NoCase} =>
                      /\ Behind(page[p].case, page[p].rec)
                      /\ page[p].panel # NoCase => PanelDue(p, records[page[p].case])
    <2>1. PageFits(p, page[p], records, undone) /\ page[p] \in PageState
      BY DEF PagesInv
    <2>2. page[p].panel # NoCase => page[p].panel = page[p].case
      BY <2>1 DEF PageFits
    <2>3. ASSUME page[p].case \notin undone \cup {NoCase}
          PROVE  /\ Behind(page[p].case, page[p].rec)
                 /\ page[p].panel # NoCase => PanelDue(p, records[page[p].case])
      <3>1. page[p].case \in Cases \ undone
        BY <2>1, <2>3 DEF PageState
      <3>2. CopyFits(page[p].case, page[p].rec, records, undone)
        BY <2>1, <2>3 DEF PageFits
      <3>3. page[p].panel # NoCase => PanelDue(p, records[page[p].case])
        BY <2>1, <2>3 DEF PageFits
      <3> QED
        BY <1>1, <3>1, <3>2, <3>3
    <2> QED
      BY <2>2, <2>3
  <1>4. PagesHold
    BY <1>2, <1>3 DEF PagesHold, PanelDue
  <1>5. PagesTypeOK
    <2>1. \A h \in holds : /\ h.by \in Page \cup {"nobody"} /\ h.case \in Cases
                           /\ h.op \in Awaiting /\ h.rec \in Record
      BY DEF PagesInv, HoldsFit, Hold
    <2>2. \A p \in Page : /\ page[p].case \in Cases \cup {NoCase}
                          /\ page[p].rec \in Record \cup {NoRecord}
                          /\ page[p].panel \in Cases \cup {NoCase}
      <3>1. page \in [Page -> PageState]
        BY DEF PagesInv
      <3> QED
        BY <3>1 DEF PageState
    <2>3. /\ desk.call \in {"closed", "none", "load", "listed"}
          /\ desk.list \in [Cases -> Record \cup {NoRecord}]
          /\ desk.answer \in [Cases -> Record \cup {NoRecord}]
      BY DEF PagesInv, DeskFits, Desk, Lists
    <2>4. /\ records \in [Cases -> Record \cup {NoRecord}]
          /\ led \subseteq Cases /\ undone \subseteq Cases /\ served \in 0 .. MaxServed
      BY DEF PagesInv, RecordsFit
    <2> QED
      BY <2>1, <2>2, <2>3, <2>4 DEF PagesTypeOK
  <1> QED
    BY <1>4, <1>5

\* What the pages show has come about and still is so, unless a held record was saved
\* over a newer one.
THEOREM PagesAlwaysHold == PagesSpec => []PagesHold
  BY PagesAlways, PagesSafe, PTL

=============================================================================
