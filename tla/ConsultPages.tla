---------------------------- MODULE ConsultPages ----------------------------
(***************************************************************************)
(* The pages that an engagement is worked on with: the public consult page *)
(* (app/consult/page.tsx), the page of one engagement                      *)
(* (app/(app)/business/[id]/page.tsx) and the desk with all of them        *)
(* (app/(app)/business/page.tsx), over the routes api/consulting and       *)
(* api/engagements, on one instance of the server.                         *)
(*                                                                         *)
(* A page waits for one call at a time and shows the record that came with *)
(* the last answer.  The server loads a record, changes it and saves it;   *)
(* calls that ask the language model hold the record while they wait, and  *)
(* then save what they hold over whatever was saved meanwhile.  The tabs   *)
(* of the page of an engagement can be chosen at any time, so which one is *)
(* on top is left out: every button can be reached.                        *)
(***************************************************************************)
EXTENDS Engagement

CONSTANTS
    Cases,       \* engagements
    NoCase,
    NoRecord,    \* an engagement that is not there
    Opened,      \* what records there may be when the pages are opened, as calls leave them
    Session,     \* the engagement that the consult page has come to by then
    Steps,       \* the stages whose buttons are pressed
    MaxServed    \* bound on what the server saves

ASSUME PagesAssumption ==
    /\ NoCase \notin Cases
    /\ NoRecord \notin Record
    /\ Opened \subseteq [Cases -> {r \in Record : Sound(r)} \cup {NoRecord}]
    /\ Session \in Cases /\ \A o \in Opened : o[Session] # NoRecord
    /\ Steps \subseteq Stage
    /\ MaxServed \in Nat

VARIABLES
    records,   \* the records of the engagements
    led,       \* those made as a lead, without a consultation
    holds,     \* the calls that wait for the language model
    served,    \* what the server has saved, in number
    undone,    \* history: engagements that a held record, out of date, was saved over
    page,      \* the consult page and the page of one engagement
    desk       \* the page with all engagements

pagesVars == <<records, led, holds, served, undone, page, desk>>

Page == {"consult", "business"}

\* runRest(), runFullAnalysis(): the calls they make, one after the other.
Following == [intelligence |-> "gaps", gaps |-> "review", review |-> "package"]

\* The calls that await the language model.
Awaiting == {"answer", "gaps", "review"}

NoCall == [op |-> "none"]

\* A page that is not open.
Closed == [op |-> "closed"]

\* A page when it is mounted.
Blank(x, call) ==
    [case |-> x, rec |-> NoRecord, panel |-> NoCase, call |-> call]

\* The call of a page; full says that it is one of a run.
Sent(op, full) == [op |-> op, full |-> full, at |-> "sent"]

Answer(c, r) == [op |-> c.op, full |-> c.full, at |-> "answered", rec |-> r]

-----------------------------------------------------------------------------
(* pipeline.tsx                                                            *)

\* PIPELINE_STAGES, in their order.
PipelineRank ==
    [lead |-> 0, discovery |-> 1, analysis |-> 2, proposal |-> 3, approval |-> 4, ready |-> 5]

\* stageOf(): the most advanced first.
StageOf(x, r) ==
    IF r.eligible THEN "ready"
    ELSE IF "client" \in r.given \/ r.stage = "client_approval" THEN "approval"
    ELSE IF r.commercial # NoDna THEN "proposal"
    ELSE IF r.analysis \/ r.reached >= Gaps THEN "analysis"
    ELSE IF x \in led THEN "lead"
    ELSE "discovery"

-----------------------------------------------------------------------------
(* The server.                                                             *)

\* What a call asks of the record it finds.
Accepts(op, r) ==
    CASE op = "intelligence" -> CanResearch(r)
      [] op = "gaps" -> CanFindGaps(r)
      [] op = "review" -> CanReview(r)
      [] op = "package" -> CanPackage(r)
      [] op = "handoff" -> Eligible(r)
      [] op \in Stage -> CanAdvance(r, op)
      [] OTHER -> TRUE

\* What it makes of the record that it holds.
Outcomes(op, r) ==
    CASE op = "answer" -> {Answered(r, sure) : sure \in BOOLEAN}
      [] op = "intelligence" -> {Researched(r)}
      [] op = "gaps" -> {GapsFound(r)}
      [] op = "review" -> {Reviewed(r)}
      [] op = "package" -> {Packaged(r, d) : d \in Designs}
      [] op \in Stage -> {Advanced(r, op)}

Store(x, r) ==
    /\ served < MaxServed
    /\ served' = served + 1
    /\ records' = [records EXCEPT ![x] = r]

\* A new record, with a new id.
StoreNew(x) == records[x] = NoRecord /\ Store(x, New)

\* startConsultation() for the consult page.
ServeStart ==
    /\ page["consult"].call = Sent("start", FALSE)
    /\ \E x \in Cases :
           /\ StoreNew(x)
           /\ page' = [page EXCEPT !["consult"].call =
                          [op |-> "start", full |-> FALSE, at |-> "answered", case |-> x]]
    /\ UNCHANGED <<led, holds, undone, desk>>

\* A call that only reads, ..
ServeRead(p) ==
    LET c == page[p].call
    IN /\ c.op \in {"load", "handoff"} /\ c.at = "sent"
       /\ Accepts(c.op, records[page[p].case])
       /\ page' = [page EXCEPT ![p].call = Answer(c, records[page[p].case])]
       /\ UNCHANGED <<records, led, holds, served, undone, desk>>

\* .. one that changes the record at once, ..
ServeAtOnce(p) ==
    LET c == page[p].call
        x == page[p].case
    IN /\ c.op \in {"intelligence", "package"} \cup Stage /\ c.at = "sent"
       /\ Accepts(c.op, records[x])
       /\ \E r \in Outcomes(c.op, records[x]) :
              Store(x, r) /\ page' = [page EXCEPT ![p].call = Answer(c, r)]
       /\ UNCHANGED <<led, holds, undone, desk>>

\* .. and one that awaits the language model with the record in hand, ..
ServeAwait(p) ==
    LET c == page[p].call
        x == page[p].case
    IN /\ c.op \in Awaiting /\ c.at = "sent"
       /\ Accepts(c.op, records[x])
       /\ holds' = holds \cup {[by |-> p, case |-> x, op |-> c.op, rec |-> records[x]]}
       /\ page' = [page EXCEPT ![p].call.at = "held"]
       /\ UNCHANGED <<records, led, served, undone, desk>>

\* .. and saves it, whatever was saved since.
Resume(h) ==
    /\ \E r \in Outcomes(h.op, h.rec) :
           /\ Store(h.case, r)
           /\ page' = IF h.by = "nobody" THEN page
                      ELSE [page EXCEPT ![h.by].call = Answer(@, r)]
    /\ undone' = IF records[h.case] = h.rec THEN undone ELSE undone \cup {h.case}
    /\ holds' = holds \ {h}
    /\ UNCHANGED <<led, desk>>

\* The record does not allow it, the hour's calls are used up, or the request or its
\* answer is lost; a call that has begun goes on without its page.
Fail(p) ==
    /\ page[p].call \notin {NoCall, Closed}
    /\ page' = [page EXCEPT ![p].call = NoCall]
    /\ holds' = {IF h.by = p THEN [h EXCEPT !.by = "nobody"] ELSE h : h \in holds}
    /\ UNCHANGED <<records, led, served, undone, desk>>

-----------------------------------------------------------------------------
(* The consult page and the page of an engagement.                         *)

\* A button; all of them are disabled while a call is under way.
Push(p, call) ==
    /\ page[p].call = NoCall
    /\ page' = [page EXCEPT ![p].call = call]
    /\ UNCHANGED <<records, led, holds, served, undone, desk>>

Showing(p) == page[p].rec # NoRecord

\* start()
PushStart == Push("consult", Sent("start", FALSE))

\* submitAnswers(), consultAnswer().
PushAnswer(p) == Showing(p) /\ Push(p, Sent("answer", FALSE))

\* runRest()
PushRest == Showing("consult") /\ Push("consult", Sent("intelligence", TRUE))

\* runFullAnalysis(): in the tab of the analysis there always is a button for it.
PushFull == Showing("business") /\ Push("business", Sent("intelligence", TRUE))

\* runConsultingStep(): "Intel only", "Gaps only".
PushStep ==
    /\ Showing("business")
    /\ \E op \in {"intelligence", "gaps"} : Push("business", Sent(op, FALSE))

\* govern(), fetchHandoff(): the buttons do not look at the record.
PushGovern ==
    /\ Showing("business")
    /\ \E op \in Steps \cup {"handoff"} : Push("business", Sent(op, FALSE))

\* A link of the desk.
OpenCase(x) ==
    /\ desk.list[x] # NoRecord
    /\ page' = [page EXCEPT !["business"] = Blank(x, Sent("load", FALSE))]
    /\ holds' = {IF h.by = "business" THEN [h EXCEPT !.by = "nobody"] ELSE h : h \in holds}
    /\ UNCHANGED <<records, led, served, undone, desk>>

\* The answer to start() replaces the engagement, and takes its package away.
GetStart ==
    LET c == page["consult"].call
    IN /\ c.op = "start" /\ c.at = "answered"
       /\ page' = [page EXCEPT !["consult"] = [Blank(c.case, NoCall) EXCEPT !.rec = New]]
       /\ UNCHANGED <<records, led, holds, served, undone, desk>>

\* The call that follows: the next one of a run, if there is one.
Followed(c) ==
    IF c.full /\ c.op # "package" THEN Sent(Following[c.op], TRUE) ELSE NoCall

\* submitAnswers(), runRest(): a package that came with the answer is shown.
GetConsult ==
    LET p == page["consult"]
        c == p.call
    IN /\ c.op \notin {"none", "closed", "start"} /\ c.at = "answered"
       /\ page' = [page EXCEPT !["consult"] =
              [p EXCEPT !.rec = c.rec, !.call = Followed(c),
                        !.panel = IF c.full /\ c.rec.reached = Package THEN p.case ELSE @]]
       /\ UNCHANGED <<records, led, holds, served, undone, desk>>

\* load(), consultAnswer(), runConsultingStep(), runFullAnalysis(), govern() and
\* fetchHandoff(), which leaves the record that is shown.
GetBusiness ==
    LET p == page["business"]
        c == p.call
    IN /\ c.op \notin {"none", "closed"} /\ c.at = "answered"
       /\ page' = [page EXCEPT !["business"] =
              [p EXCEPT !.rec = IF c.op = "handoff" THEN @ ELSE c.rec,
                        !.call = Followed(c),
                        !.panel = IF c.op = "handoff" THEN p.case ELSE @]]
       /\ UNCHANGED <<records, led, holds, served, undone, desk>>

-----------------------------------------------------------------------------
(* The desk.                                                               *)

NoList == [x \in Cases |-> NoRecord]

\* load(), when it is mounted: the list that the server has then is shown later.
DeskServe ==
    /\ desk.call = "load"
    /\ desk' = [desk EXCEPT !.call = "listed", !.answer = records]
    /\ UNCHANGED <<records, led, holds, served, undone, page>>

DeskShow ==
    /\ desk.call = "listed"
    /\ desk' = [call |-> "none", answer |-> NoList, list |-> desk.answer]
    /\ UNCHANGED <<records, led, holds, served, undone, page>>

\* create(), whose answer nothing waits for but the desk: with a story a consultation is started, and its page opened, ..
DeskStart ==
    /\ desk.call = "none"
    /\ \E x \in Cases :
           /\ StoreNew(x)
           /\ page' = [page EXCEPT !["business"] = Blank(x, Sent("load", FALSE))]
    /\ desk' = [call |-> "load", answer |-> NoList, list |-> NoList]
    /\ holds' = {IF h.by = "business" THEN [h EXCEPT !.by = "nobody"] ELSE h : h \in holds}
    /\ UNCHANGED <<led, undone>>

\* .. without one a lead is made, and the list loaded again.
DeskCreate ==
    /\ desk.call = "none"
    /\ \E x \in Cases : StoreNew(x) /\ led' = led \cup {x}
    /\ desk' = [desk EXCEPT !.call = "load"]
    /\ UNCHANGED <<holds, undone, page>>

\* The desk is open; or a session of the consult page has come to the last call of a
\* run, and somebody opens the page of its engagement.
PagesInit ==
    /\ records \in Opened /\ led = {} /\ holds = {} /\ served = 0 /\ undone = {}
    /\ \/ /\ page = [p \in Page |-> Blank(NoCase, Closed)]
          /\ desk = [call |-> "load", answer |-> NoList, list |-> NoList]
       \/ /\ records[Session].reached = Review
          /\ page = [consult |-> [Blank(Session, Sent("package", TRUE))
                                     EXCEPT !.rec = records[Session]],
                     business |-> Blank(Session, Sent("load", FALSE))]
          /\ desk = [call |-> "closed", answer |-> NoList, list |-> NoList]

PagesNext ==
    \/ ServeStart
    \/ \E p \in Page :
           ServeRead(p) \/ ServeAtOnce(p) \/ ServeAwait(p) \/ Fail(p) \/ PushAnswer(p)
    \/ \E h \in holds : Resume(h)
    \/ PushStart \/ PushRest \/ PushFull \/ PushStep \/ PushGovern
    \/ \E x \in Cases : OpenCase(x)
    \/ GetStart \/ GetConsult \/ GetBusiness
    \/ DeskServe \/ DeskShow \/ DeskStart \/ DeskCreate

PagesSpec == PagesInit /\ [][PagesNext]_pagesVars

-----------------------------------------------------------------------------

PagesTypeOK ==
    /\ records \in [Cases -> Record \cup {NoRecord}]
    /\ led \subseteq Cases /\ undone \subseteq Cases
    /\ served \in 0 .. MaxServed
    /\ \A h \in holds :
           /\ h.by \in Page \cup {"nobody"} /\ h.case \in Cases
           /\ h.op \in Awaiting /\ h.rec \in Record
    /\ \A p \in Page :
           /\ page[p].case \in Cases \cup {NoCase}
           /\ page[p].rec \in Record \cup {NoRecord}
           /\ page[p].panel \in Cases \cup {NoCase}
    /\ desk.call \in {"closed", "none", "load", "listed"}
    /\ desk.list \in [Cases -> Record \cup {NoRecord}]
    /\ desk.answer \in [Cases -> Record \cup {NoRecord}]

\* A record that a page shows is not ahead of the engagement.
Behind(x, r) ==
    r # NoRecord => PipelineRank[StageOf(x, r)] <= PipelineRank[StageOf(x, records[x])]

\* What the pages show has come about, and still is so: the stage of an engagement, a
\* package shown is that of the engagement shown, and a handoff that was given was
\* one the factory may have.  Only a call that held its record across the language
\* model takes any of it back.
PagesHold ==
    /\ \A x \in Cases \ undone : Behind(x, desk.list[x])
    /\ \A p \in Page :
           /\ page[p].panel # NoCase => page[p].panel = page[p].case
           /\ page[p].case \notin undone \cup {NoCase} =>
                  LET now == records[page[p].case]
                  IN /\ Behind(page[p].case, page[p].rec)
                     /\ page[p].panel # NoCase =>
                            IF p = "consult" THEN now.reached = Package ELSE Eligible(now)

=============================================================================
