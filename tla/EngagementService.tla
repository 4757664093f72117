------------------------- MODULE EngagementService -------------------------
(***************************************************************************)
(* Engagements as the enterprise app serves them.  Every instance of the   *)
(* app keeps the records as files (packages/enterprise/src/store.js); a    *)
(* cold one copies them from the database, and after a change an instance  *)
(* upserts all its files into the database, whatever their age             *)
(* (apps/enterprise/src/lib/engagement-store.ts).  Requests to an instance *)
(* interleave where they await: the language model, with a record in hand  *)
(* (consulting.js), the database, or, in the payment webhook, the table of *)
(* deposits.  An instance may be recycled at any time, and its files are   *)
(* then gone.  This is the configuration with a database and, as on the    *)
(* serverless platform, files in temporary storage.                        *)
(***************************************************************************)
EXTENDS Engagement, FiniteSets

CONSTANTS
    Instances,
    Engagements,
    Requests,       \* how many requests can be in progress
    NoRecord,       \* an engagement that a store does not have
    Opening,        \* the records that the database may hold in the beginning
    Consultations,  \* the consulting calls that go to a language model
    StoreFails,     \* whether requests to the database may fail
    MaxCalls,       \* bound on the requests that change something
    MaxRecycles     \* bound on the instances recycled

ASSUME ServiceAssumption ==
    /\ NoRecord \notin Record
    /\ Opening \subseteq Record \cup {NoRecord}
    /\ \A e \in Opening \ {NoRecord} : Sound(e)
    /\ Consultations \subseteq {"answer", "gaps", "review"}
    /\ StoreFails \in BOOLEAN
    /\ MaxCalls \in Nat
    /\ MaxRecycles \in Nat

VARIABLES
    files,     \* files[i][x], the record of x in the file store of i
    warm,      \* whether an instance has hydrated its files
    database,  \* the table of engagements
    deposits,  \* the engagements with a row in the table of deposits
    request,   \* what a request in progress is waiting for
    decided,   \* the approvals that somebody gave
    acked,     \* those among them whose giver was answered
    logged,    \* the engagements for which an error of the deposit table was logged
    answered,  \* the engagements for which a webhook was answered
    calls,     \* requests that changed something, so far
    recycles   \* instances recycled, so far

vars == <<files, warm, database, deposits, request, decided, acked, logged, answered,
          calls, recycles>>

Store == [Engagements -> Record \cup {NoRecord}]
Decision == Engagements \X Approval

Idle == [at |-> "idle"]

Request ==
    {Idle}
    \cup [at : {"llm"}, inst : Instances, eng : Engagements,
          call : Consultations, rec : Record]
    \cup [at : {"deposit", "recorded"}, inst : Instances, eng : Engagements]
    \cup [at : {"upsert"}, inst : Instances, rows : Store,
          acks : SUBSET Decision, hook : SUBSET Engagements]

TypeOK ==
    /\ files \in [Instances -> Store]
    /\ warm \in [Instances -> BOOLEAN]
    /\ database \in Store
    /\ deposits \subseteq Engagements
    /\ request \in [Requests -> Request]
    /\ decided \subseteq Decision
    /\ acked \subseteq Decision
    /\ logged \subseteq Engagements
    /\ answered \subseteq Engagements
    /\ calls \in 0 .. MaxCalls
    /\ recycles \in 0 .. MaxRecycles

Init ==
    /\ files = [i \in Instances |-> [x \in Engagements |-> NoRecord]]
    /\ warm = [i \in Instances |-> FALSE]
    /\ database \in [Engagements -> Opening]
    /\ deposits = {}
    /\ request = [r \in Requests |-> Idle]
    /\ decided = {d \in Decision :
                     database[d[1]] # NoRecord /\ d[2] \in database[d[1]].given}
    /\ acked = {}
    /\ logged = {}
    /\ answered = {}
    /\ calls = 0
    /\ recycles = 0

-----------------------------------------------------------------------------
(* Instances.                                                              *)

\* A failed hydration counts as done.
Hydrate(i) ==
    /\ ~warm[i]
    /\ warm' = [warm EXCEPT ![i] = TRUE]
    /\ \/ files' = [files EXCEPT ![i] = database]
       \/ StoreFails /\ UNCHANGED files
    /\ UNCHANGED <<database, deposits, request, decided, acked, logged,
                   answered, calls, recycles>>

\* What is left of a request when its instance is recycled: an upsert may be on
\* its way, but nobody is answered.
Orphaned(q) ==
    IF q.at = "upsert" THEN [q EXCEPT !.acks = {}, !.hook = {}] ELSE Idle

Of(r, i) == request[r].at # "idle" /\ request[r].inst = i

Recycle(i) ==
    /\ warm[i] \/ \E r \in Requests : Of(r, i)
    /\ recycles < MaxRecycles
    /\ recycles' = recycles + 1
    /\ warm' = [warm EXCEPT ![i] = FALSE]
    /\ files' = [files EXCEPT ![i] = [x \in Engagements |-> NoRecord]]
    /\ request' = [r \in Requests |->
                      IF Of(r, i) THEN Orphaned(request[r]) ELSE request[r]]
    /\ UNCHANGED <<database, deposits, decided, acked, logged, answered, calls>>

-----------------------------------------------------------------------------
(* Saving a record and mirroring the files, the end of every handler that  *)
(* changes something.                                                      *)

\* The upsert that a handler of instance i starts: rows are the files it then has.
Upsert(i, rows, acks, hook) ==
    [at |-> "upsert", inst |-> i, rows |-> rows, acks |-> acks, hook |-> hook]

\* The handler of request r saves e as the record of x, which gives the approvals
\* in acks, and awaits the upsert.
Save(r, i, x, e, acks) ==
    /\ files' = [files EXCEPT ![i][x] = e]
    /\ request' = [request EXCEPT ![r] = Upsert(i, files'[i], acks, {})]
    /\ decided' = decided \cup acks
    /\ UNCHANGED <<warm, database, deposits, acked, logged, answered, recycles>>

Begins(r, i) ==
    /\ request[r] = Idle
    /\ warm[i]
    /\ calls < MaxCalls
    /\ calls' = calls + 1

Has(i, x) == files[i][x] # NoRecord

\* The upsert is applied to the database, and the request is answered.
Land(r) ==
    LET q == request[r]
    IN  /\ q.at = "upsert"
        /\ database' = [x \in Engagements |->
                           IF q.rows[x] # NoRecord THEN q.rows[x] ELSE database[x]]
        /\ acked' = acked \cup q.acks
        /\ answered' = answered \cup q.hook
        /\ request' = [request EXCEPT ![r] = Idle]
        /\ UNCHANGED <<files, warm, deposits, decided, logged, calls, recycles>>

\* The upsert fails, which is only logged, and the request is answered.
Lose(r) ==
    LET q == request[r]
    IN  /\ StoreFails
        /\ q.at = "upsert"
        /\ acked' = acked \cup q.acks
        /\ answered' = answered \cup q.hook
        /\ request' = [request EXCEPT ![r] = Idle]
        /\ UNCHANGED <<files, warm, database, deposits, decided, logged, calls,
                       recycles>>

-----------------------------------------------------------------------------
(* The calls.                                                              *)

\* Ids are random: a new engagement is one that no store knows.
Fresh(x) ==
    /\ \A i \in Instances : ~Has(i, x)
    /\ database[x] = NoRecord
    /\ \A r \in Requests : request[r].at = "upsert" => request[r].rows[x] = NoRecord

Create(r, i, x) == Begins(r, i) /\ Fresh(x) /\ Save(r, i, x, New, {})

\* A lead is converted: the new engagement is not mirrored.
Convert(r, i, x) ==
    /\ Begins(r, i)
    /\ Fresh(x)
    /\ files' = [files EXCEPT ![i][x] = New]
    /\ UNCHANGED <<warm, database, deposits, request, decided, acked, logged,
                   answered, recycles>>

\* A ticket, a comment, an upload, a meeting, a delivery: nothing that is kept here
\* changes, but the files are mirrored.
Touch(r, i) ==
    /\ Begins(r, i)
    /\ request' = [request EXCEPT ![r] = Upsert(i, files[i], {}, {})]
    /\ UNCHANGED <<files, warm, database, deposits, decided, acked, logged, answered,
                   recycles>>

\* The calls that change a record at once.
Changed(e) ==
    {Analysed(e)}
    \cup {Designed(e, d) : d \in {n \in Designs : CanDesign(e)}}
    \cup (IF CanQuote(e) THEN {Quoted(e)} ELSE {})
    \cup (IF CanResearch(e) THEN {Researched(e)} ELSE {})
    \cup {Packaged(e, d) : d \in {n \in Designs : CanPackage(e)}}

Edit(r, i, x) ==
    /\ Begins(r, i)
    /\ Has(i, x)
    /\ \E e \in Changed(files[i][x]) : Save(r, i, x, e, {})

\* advanceGovernance(), by the route of that name or from the client's portal.
Advance(r, i, x, s) ==
    /\ Begins(r, i)
    /\ Has(i, x)
    /\ CanAdvance(files[i][x], s)
    /\ Save(r, i, x, Advanced(files[i][x], s), {<<x, a>> : a \in Signs(s)})

-----------------------------------------------------------------------------
(* Consulting calls: the record is loaded before the language model is     *)
(* asked, and saved after it answered or failed to.                        *)

CanConsult(e, call) ==
    /\ call = "gaps" => CanFindGaps(e)
    /\ call = "review" => CanReview(e)

Consulted(e, call) ==
    CASE call = "answer" -> {Answered(e, sure) : sure \in BOOLEAN}
      [] call = "gaps" -> {GapsFound(e)}
      [] call = "review" -> {Reviewed(e)}

Ask(r, i, x, call) ==
    /\ Begins(r, i)
    /\ Has(i, x)
    /\ CanConsult(files[i][x], call)
    /\ request' = [request EXCEPT ![r] =
                      [at |-> "llm", inst |-> i, eng |-> x, call |-> call,
                       rec |-> files[i][x]]]
    /\ UNCHANGED <<files, warm, database, deposits, decided, acked, logged, answered,
                   recycles>>

Resume(r) ==
    LET q == request[r]
    IN  /\ q.at = "llm"
        /\ \E e \in Consulted(q.rec, q.call) : Save(r, q.inst, q.eng, e, {})
        /\ UNCHANGED calls

-----------------------------------------------------------------------------
(* Payments.                                                               *)

\* Stripe delivers the event of a completed checkout session, until it is answered
\* and maybe again: a session can be created for any engagement at any time.
Webhook(r, i, x) ==
    /\ request[r] = Idle
    /\ calls < MaxCalls
    /\ calls' = calls + 1
    /\ request' = [request EXCEPT ![r] = [at |-> "deposit", inst |-> i, eng |-> x]]
    /\ UNCHANGED <<files, warm, database, deposits, decided, acked, logged, answered,
                   recycles>>

\* Mutant: a deposit that cannot be recorded is passed over in silence.
RecordDepositOrNot(r) ==
    LET q == request[r]
    IN  /\ q.at = "deposit"
        /\ request' = [request EXCEPT ![r].at = "recorded"]
        /\ \/ deposits' = deposits \cup {q.eng}
           \/ StoreFails /\ UNCHANGED deposits
        /\ UNCHANGED <<files, warm, database, decided, acked, logged, answered, calls,
                       recycles>>

\* recordDeposit() writes the row, or fails, which is logged and not answered.
RecordDeposit(r) ==
    LET q == request[r]
    IN  /\ q.at = "deposit"
        /\ request' = [request EXCEPT ![r].at = "recorded"]
        /\ \/ /\ deposits' = deposits \cup {q.eng}
              /\ UNCHANGED logged
           \/ /\ StoreFails
              /\ logged' = logged \cup {q.eng}
              /\ UNCHANGED deposits
        /\ UNCHANGED <<files, warm, database, decided, acked, answered, calls,
                       recycles>>

\* One round of the loop of advanceEngineGovernance(), whose errors are ignored.
Tried(e, s) == IF CanAdvance(e, s) THEN Advanced(e, s) ELSE e

PaidFor(e) == Tried(Tried(e, "client_approval"), "deposit_received")

\* The approvals it gives.
PaysFor(e) ==
    {a \in Approval : \E s \in {"client_approval", "deposit_received"} :
                         a \in Signs(s) /\ CanAdvance(e, s)}

AdvancePaid(r) ==
    LET q == request[r]
        e == files[q.inst][q.eng]
        acks == IF e = NoRecord THEN {} ELSE {<<q.eng, a>> : a \in PaysFor(e)}
    IN  /\ q.at = "recorded"
        /\ warm[q.inst]
        /\ files' = IF e = NoRecord THEN files
                    ELSE [files EXCEPT ![q.inst][q.eng] = PaidFor(e)]
        /\ request' = [request EXCEPT ![r] = Upsert(q.inst, files'[q.inst], acks, {q.eng})]
        /\ decided' = decided \cup acks
        /\ UNCHANGED <<warm, database, deposits, acked, logged, answered, calls,
                       recycles>>

-----------------------------------------------------------------------------

Next ==
    \/ \E i \in Instances : Hydrate(i) \/ Recycle(i)
    \/ \E r \in Requests :
          \/ Land(r) \/ Lose(r) \/ Resume(r) \/ RecordDeposit(r) \/ AdvancePaid(r)
          \/ \E i \in Instances : Touch(r, i)
          \/ \E i \in Instances, x \in Engagements :
                \/ Create(r, i, x)
                \/ Convert(r, i, x)
                \/ Edit(r, i, x)
                \/ \E s \in Stage : Advance(r, i, x, s)
                \/ \E call \in Consultations : Ask(r, i, x, call)
                \/ Webhook(r, i, x)

Spec == Init /\ [][Next]_vars

-----------------------------------------------------------------------------
(* What should hold.                                                       *)

\* The copies of the record of x: in the files, in the database, in the hands of a
\* request that asked the language model, and on their way to the database.
Copies(x) ==
    ({files[i][x] : i \in Instances} \cup {database[x]}
       \cup {request[r].rec : r \in {q \in Requests :
                                       request[q].at = "llm" /\ request[q].eng = x}}
       \cup {request[r].rows[x] : r \in {q \in Requests : request[q].at = "upsert"}})
    \ {NoRecord}

\* However stale a copy, it is a record that calls led to: what the factory's gate
\* reads is never a mixture of two histories.
CopiesSound == \A x \in Engagements : \A e \in Copies(x) : Sound(e)

\* No copy has an approval that nobody gave.
ApprovalsDecided ==
    \A x \in Engagements : \A e \in Copies(x) : \A a \in e.given : <<x, a>> \in decided

\* Request r saves what it held while it asked the language model.
Resumes(r, i, x) ==
    /\ request[r].at = "llm"
    /\ request[r].inst = i
    /\ request[r].eng = x
    /\ request'[r] # request[r]

\* An instance that goes on serving forgets an approval only when a consulting call
\* saves the older record that it held: no other call undoes one.
ApprovalsKept ==
    [][\A i \in Instances, x \in Engagements :
          Has(i, x) /\ warm'[i] =>
             \/ files[i][x].given \subseteq files'[i][x].given
             \/ \E r \in Requests : Resumes(r, i, x)]_vars

\* Governance goes back only to a stage whose work is done anew (engagements.js:182,
\* "cannot move governance backwards"), or with such an older record.
StagesForward ==
    [][\A i \in Instances, x \in Engagements :
          Has(i, x) /\ warm'[i] =>
             \/ Rank[files'[i][x].stage] >= Rank[files[i][x].stage]
             \/ files'[i][x].stage \in
                   {"business_analysis", "solution_design", "commercial_review"}
             \/ \E r \in Requests : Resumes(r, i, x)]_vars

\* A payment whose webhook was answered has its row, or is in the error log.
PaymentsAccounted == answered \subseteq deposits \cup logged

\* A payment event that comes again moves no stage, gives no approval and touches no
\* design: at the deposit stage it signs the deposit over, whose date and amount are
\* then the later event's, and beyond it, it changes nothing.
RepeatsContained ==
    [][\A r \in Requests :
          LET q == request[r]
              e == files[q.inst][q.eng]
          IN  /\ q.at = "recorded"
              /\ request'[r].at = "upsert"
              /\ Has(q.inst, q.eng)
              /\ Rank[e.stage] >= Rank["deposit_received"]
              /\ "deposit" \in e.given
              => files' = IF e.stage = "deposit_received"
                          THEN [files EXCEPT ![q.inst][q.eng].overwritten = @ \cup {"deposit"}]
                          ELSE files]_vars

\* The factory is handed only a Project DNA that the client approved
\* (docs/DELIVERY-GOVERNANCE.md, "Factory Build ... Approved Project DNA only").
ApprovedDnaOnly ==
    \A i \in Instances, x \in Engagements :
        Has(i, x) /\ Eligible(files[i][x]) => files[i][x].dna = files[i][x].approved

\* An approval is in the durable store when its giver is answered
\* (api/consulting/route.ts:6, "Persist engine mutations to the durable store before
\* responding"), and stays there.
AnsweredMeansDurable ==
    \A d \in acked : database[d[1]] # NoRecord /\ d[2] \in database[d[1]].given

=============================================================================
