-------------------------- MODULE EngagementProofs --------------------------
(***************************************************************************)
(* EngagementService keeps its types and the soundness of every copy of a  *)
(* record, whatever the instances, engagements, designs, requests and      *)
(* bounds.  The inductive invariant says that wherever the service keeps a *)
(* record, it keeps one of the set Good; the lemmas say that no call leads *)
(* out of that set.  On it rest the theorems on payments, on the approvals *)
(* that somebody gave, and, at the end, on what no step does to the        *)
(* records of an instance that goes on serving.                            *)
(***************************************************************************)
EXTENDS EngagementService, TLAPS

Good == {e \in Record : Sound(e)}

GoodStore == [Engagements -> Good \cup {NoRecord}]

GoodRequest ==
    {Idle}
    \cup [at : {"llm"}, inst : Instances, eng : Engagements,
          call : Consultations, rec : Good]
    \cup [at : {"deposit", "recorded"}, inst : Instances, eng : Engagements]
    \cup [at : {"upsert"}, inst : Instances, rows : GoodStore,
          acks : SUBSET Decision, hook : SUBSET Engagements]

\* The variables that say where records are.
RecordsGood ==
    /\ files \in [Instances -> GoodStore]
    /\ database \in GoodStore
    /\ request \in [Requests -> GoodRequest]

\* The others.
Bookkeeping ==
    /\ warm \in [Instances -> BOOLEAN]
    /\ deposits \subseteq Engagements
    /\ decided \subseteq Decision
    /\ acked \subseteq Decision
    /\ logged \subseteq Engagements
    /\ answered \subseteq Engagements
    /\ calls \in 0 .. MaxCalls
    /\ recycles \in 0 .. MaxRecycles

IInv == RecordsGood /\ Bookkeeping

-----------------------------------------------------------------------------
(* No call leads out of Good.                                              *)

\* A new engagement is a sound record.
LEMMA NewGood == New \in Good
  BY DesignAssumption DEF New, Good, Record, Sound, Stage, Rank, Interview, Package

\* The calls of engagements.js that need no more than a record.
LEMMA AnalysedGood ==
    ASSUME NEW e \in Good
    PROVE  Analysed(e) \in Good
  BY DesignAssumption
   DEF Analysed, Good, Record, Sound, Stage, Rank, Interview, Package

LEMMA DesignedGood ==
    ASSUME NEW e \in Good, NEW d \in Designs, CanDesign(e)
    PROVE  Designed(e, d) \in Good
  BY DesignAssumption
   DEF Designed, CanDesign, Good, Record, Sound, Stage, Rank, Interview, Package

LEMMA QuotedGood ==
    ASSUME NEW e \in Good, CanQuote(e)
    PROVE  Quoted(e) \in Good
  BY DesignAssumption
   DEF Quoted, CanQuote, Good, Record, Sound, Stage, Rank, Interview, Package

LEMMA AdvancedGood ==
    ASSUME NEW e \in Good, NEW s \in Stage, CanAdvance(e, s)
    PROVE  Advanced(e, s) \in Good
  BY DesignAssumption
   DEF Advanced, CanAdvance, Eligible, Signs, Approval, Good, Record, Sound, Stage, Rank,
       Interview, Package

LEMMA AnsweredGood ==
    ASSUME NEW e \in Good, NEW sure \in BOOLEAN
    PROVE  Answered(e, sure) \in Good
  BY DEF Answered, Good, Record, Sound

LEMMA ResearchedGood ==
    ASSUME NEW e \in Good
    PROVE  Researched(e) \in Good
  BY DEF Researched, Reach, Good, Record, Sound, Interview, Intelligence, Package

LEMMA GapsFoundGood ==
    ASSUME NEW e \in Good
    PROVE  GapsFound(e) \in Good
  BY DEF GapsFound, Reach, Good, Record, Sound, Interview, Gaps, Package

LEMMA ReviewedGood ==
    ASSUME NEW e \in Good
    PROVE  Reviewed(e) \in Good
  BY DEF Reviewed, Reach, Good, Record, Sound, Interview, Review, Package

LEMMA PackagedGood ==
    ASSUME NEW e \in Good, NEW d \in Designs
    PROVE  Packaged(e, d) \in Good
  <1> DEFINE f == Reach(e, Package)
  <1>1. /\ f \in Record
        /\ f.reached = Package
        /\ f.given = e.given
        /\ f.approved = e.approved
        /\ f.eligible = e.eligible
    BY DEF Reach, Good, Record, Interview, Package
  <1>2. Sound(e)
    BY DEF Good
  <1> HIDE DEF f
  <1>3. [f EXCEPT !.analysis = TRUE, !.dna = d, !.commercial = d,
                  !.stage = "commercial_review"] \in Good
    BY <1>1, <1>2, DesignAssumption
       DEF Good, Record, Sound, Stage, Rank, Interview, Package
  <1> QED
    BY <1>3 DEF Packaged, f

-----------------------------------------------------------------------------
(* The invariant holds initially and after every step.                     *)

LEMMA GoodAtFirst == Init => IInv
  <1> SUFFICES ASSUME Init PROVE IInv
    OBVIOUS
  <1>1. Opening \subseteq Good \cup {NoRecord}
    BY ServiceAssumption DEF Good
  <1>2. RecordsGood
    BY <1>1 DEF Init, RecordsGood, GoodStore, GoodRequest
  <1>3. Bookkeeping
    BY ServiceAssumption DEF Init, Bookkeeping
  <1> QED
    BY <1>2, <1>3 DEF IInv

\* A good record saved by a request keeps the records good.
LEMMA SaveGood ==
    ASSUME IInv, NEW r \in Requests, NEW i \in Instances, NEW x \in Engagements,
           NEW e \in Good, NEW acks \in SUBSET Decision, Save(r, i, x, e, acks),
           calls' \in 0 .. MaxCalls
    PROVE  IInv'
  <1>1. files' \in [Instances -> GoodStore]
    BY DEF Save, IInv, RecordsGood, GoodStore
  <1>2. Upsert(i, files'[i], acks, {}) \in GoodRequest
    BY <1>1 DEF Upsert, GoodRequest
  <1>3. request' \in [Requests -> GoodRequest]
    BY <1>2 DEF Save, IInv, RecordsGood
  <1>4. RecordsGood'
    BY <1>1, <1>3 DEF Save, IInv, RecordsGood
  <1>5. Bookkeeping'
    BY DEF Save, IInv, Bookkeeping
  <1> QED
    BY <1>4, <1>5 DEF IInv

\* What an instance has of an engagement it has.
LEMMA HasGood ==
    ASSUME IInv, NEW i \in Instances, NEW x \in Engagements, Has(i, x)
    PROVE  files[i][x] \in Good
  BY DEF IInv, RecordsGood, GoodStore, Has

\* A request counted is counted within its bound.
LEMMA CallCounted ==
    ASSUME IInv, calls < MaxCalls, calls' = calls + 1
    PROVE  calls' \in 0 .. MaxCalls
  BY ServiceAssumption DEF IInv, Bookkeeping


\* Every step keeps the invariant: each action keeps the records good, the ones
\* that save a record by the lemma on the call.
LEMMA GoodAlways == IInv /\ [Next]_vars => IInv'
  <1> SUFFICES ASSUME IInv, [Next]_vars PROVE IInv'
    OBVIOUS
  <1> USE DEF IInv
  <1>1. ASSUME NEW i \in Instances, Hydrate(i) PROVE IInv'
    <2>1. files' \in [Instances -> GoodStore]
      BY <1>1 DEF Hydrate, RecordsGood
    <2> QED
      BY <1>1, <2>1 DEF Hydrate, RecordsGood, Bookkeeping
  <1>2. ASSUME NEW i \in Instances, Recycle(i) PROVE IInv'
    <2>1. files' \in [Instances -> GoodStore]
      BY <1>2 DEF Recycle, RecordsGood, GoodStore
    <2>2. ASSUME NEW r \in Requests PROVE Orphaned(request[r]) \in GoodRequest
      <3>1. request[r] \in GoodRequest
        BY DEF RecordsGood
      <3> QED
        BY <3>1 DEF Orphaned, GoodRequest, Idle
    <2>3. request' \in [Requests -> GoodRequest]
      BY <1>2, <2>2 DEF Recycle, RecordsGood
    <2>4. recycles' \in 0 .. MaxRecycles
      BY <1>2, ServiceAssumption DEF Recycle, Bookkeeping
    <2> QED
      BY <1>2, <2>1, <2>3, <2>4 DEF Recycle, RecordsGood, Bookkeeping
  <1>3. ASSUME NEW r \in Requests, Land(r) \/ Lose(r) PROVE IInv'
    <2>1. request[r] \in GoodRequest
      BY DEF RecordsGood
    <2>2. request[r].at = "upsert"
      BY <1>3 DEF Land, Lose
    <2>3. /\ request[r].rows \in GoodStore
          /\ request[r].acks \subseteq Decision
          /\ request[r].hook \subseteq Engagements
      BY <2>1, <2>2 DEF GoodRequest, Idle
    <2>4. database' \in GoodStore
      BY <1>3, <2>3 DEF Land, Lose, RecordsGood, GoodStore
    <2>5. request' \in [Requests -> GoodRequest]
      BY <1>3 DEF Land, Lose, RecordsGood, GoodRequest
    <2>6. acked' \subseteq Decision /\ answered' \subseteq Engagements
      BY <1>3, <2>3 DEF Land, Lose, Bookkeeping
    <2> QED
      BY <1>3, <2>4, <2>5, <2>6 DEF Land, Lose, RecordsGood, Bookkeeping
  <1>4. ASSUME NEW r \in Requests, Resume(r) PROVE IInv'
    <2>1. request[r] \in GoodRequest
      BY DEF RecordsGood
    <2>2. /\ request[r].inst \in Instances
          /\ request[r].eng \in Engagements
          /\ request[r].call \in Consultations
          /\ request[r].rec \in Good
      BY <1>4, <2>1 DEF Resume, GoodRequest, Idle
    <2>3. PICK e \in Consulted(request[r].rec, request[r].call) :
              Save(r, request[r].inst, request[r].eng, e, {})
      BY <1>4 DEF Resume
    <2>4. e \in Good
      BY <2>2, <2>3, ServiceAssumption, AnsweredGood, GapsFoundGood, ReviewedGood
         DEF Consulted
    <2>5. calls' \in 0 .. MaxCalls
      BY <1>4 DEF Resume, Bookkeeping
    <2> QED
      BY <2>2, <2>3, <2>4, <2>5, SaveGood
  <1>5. ASSUME NEW r \in Requests, RecordDeposit(r) PROVE IInv'
    <2>1. request[r] \in GoodRequest
      BY DEF RecordsGood
    <2>2. request[r].inst \in Instances /\ request[r].eng \in Engagements
      BY <1>5, <2>1 DEF RecordDeposit, GoodRequest, Idle
    <2>3. [request[r] EXCEPT !.at = "recorded"] \in GoodRequest
      BY <1>5, <2>1 DEF RecordDeposit, GoodRequest, Idle
    <2>4. request' \in [Requests -> GoodRequest]
      BY <1>5, <2>3 DEF RecordDeposit, RecordsGood
    <2> QED
      BY <1>5, <2>2, <2>4 DEF RecordDeposit, RecordsGood, Bookkeeping
  <1>6. ASSUME NEW r \in Requests, AdvancePaid(r) PROVE IInv'
    <2> DEFINE i == request[r].inst
               x == request[r].eng
               acks == IF files[i][x] = NoRecord THEN {}
                       ELSE {<<x, a>> : a \in PaysFor(files[i][x])}
    <2>1. request[r] \in GoodRequest
      BY DEF RecordsGood
    <2>2. i \in Instances /\ x \in Engagements
      BY <1>6, <2>1 DEF AdvancePaid, GoodRequest, Idle
    <2>3. acks \in SUBSET Decision
      BY <2>2 DEF PaysFor, Decision
    <2>4. /\ decided' = decided \cup acks
          /\ request' = [request EXCEPT ![r] = Upsert(i, files'[i], acks, {x})]
      BY <1>6 DEF AdvancePaid
    <2> HIDE DEF i, x, acks
    <2>5. ASSUME files[i][x] # NoRecord PROVE PaidFor(files[i][x]) \in Good
      <3>1. files[i][x] \in Good
        BY <2>2, <2>5, HasGood DEF Has
      <3>2. \A e \in Good, s \in Stage : Tried(e, s) \in Good
        BY AdvancedGood DEF Tried
      <3>3. "client_approval" \in Stage /\ "deposit_received" \in Stage
        BY DEF Stage, Rank
      <3> QED
        BY <3>1, <3>2, <3>3 DEF PaidFor
    <2>6. files' \in [Instances -> GoodStore]
      BY <1>6, <2>2, <2>5 DEF AdvancePaid, RecordsGood, GoodStore, i, x
    <2>7. request' \in [Requests -> GoodRequest]
      BY <2>2, <2>3, <2>4, <2>6 DEF Upsert, GoodRequest, RecordsGood
    <2> QED
      BY <1>6, <2>3, <2>4, <2>6, <2>7 DEF AdvancePaid, RecordsGood, Bookkeeping
  <1>7. ASSUME NEW r \in Requests, NEW i \in Instances, Touch(r, i) PROVE IInv'
    <2>1. Upsert(i, files[i], {}, {}) \in GoodRequest
      BY DEF Upsert, GoodRequest, RecordsGood
    <2>2. request' \in [Requests -> GoodRequest]
      BY <1>7, <2>1 DEF Touch, RecordsGood
    <2>3. calls' \in 0 .. MaxCalls
      BY <1>7, CallCounted DEF Touch, Begins
    <2> QED
      BY <1>7, <2>2, <2>3 DEF Touch, RecordsGood, Bookkeeping
  <1>8. ASSUME NEW r \in Requests, NEW i \in Instances, NEW x \in Engagements,
               Create(r, i, x)
        PROVE  IInv'
    <2>1. calls' \in 0 .. MaxCalls
      BY <1>8, CallCounted DEF Create, Begins
    <2> QED
      BY <1>8, <2>1, NewGood, SaveGood DEF Create
  <1>9. ASSUME NEW r \in Requests, NEW i \in Instances, NEW x \in Engagements,
               Convert(r, i, x)
        PROVE  IInv'
    <2>1. calls' \in 0 .. MaxCalls
      BY <1>9, CallCounted DEF Convert, Begins
    <2>2. files' \in [Instances -> GoodStore]
      BY <1>9, NewGood DEF Convert, RecordsGood, GoodStore
    <2> QED
      BY <1>9, <2>1, <2>2 DEF Convert, RecordsGood, Bookkeeping
  <1>10. ASSUME NEW r \in Requests, NEW i \in Instances, NEW x \in Engagements,
                Edit(r, i, x)
         PROVE  IInv'
    <2>1. calls' \in 0 .. MaxCalls
      BY <1>10, CallCounted DEF Edit, Begins
    <2>2. PICK e \in Changed(files[i][x]) : Save(r, i, x, e, {})
      BY <1>10 DEF Edit
    <2>3. files[i][x] \in Good
      BY <1>10, HasGood DEF Edit
    <2>4. e \in Good
      BY <2>2, <2>3, AnalysedGood, DesignedGood, QuotedGood, ResearchedGood, PackagedGood
         DEF Changed
    <2> QED
      BY <2>1, <2>2, <2>4, SaveGood
  <1>11. ASSUME NEW r \in Requests, NEW i \in Instances, NEW x \in Engagements,
                NEW s \in Stage, Advance(r, i, x, s)
         PROVE  IInv'
    <2>1. calls' \in 0 .. MaxCalls
      BY <1>11, CallCounted DEF Advance, Begins
    <2>2. Advanced(files[i][x], s) \in Good
      BY <1>11, HasGood, AdvancedGood DEF Advance
    <2>3. {<<x, a>> : a \in Signs(s)} \subseteq Decision
      BY DEF Signs, Decision, Approval
    <2> QED
      BY <1>11, <2>1, <2>2, <2>3, SaveGood DEF Advance
  <1>12. ASSUME NEW r \in Requests, NEW i \in Instances, NEW x \in Engagements,
                NEW call \in Consultations, Ask(r, i, x, call)
         PROVE  IInv'
    <2>1. calls' \in 0 .. MaxCalls
      BY <1>12, CallCounted DEF Ask, Begins
    <2>2. files[i][x] \in Good
      BY <1>12, HasGood DEF Ask
    <2>3. request' \in [Requests -> GoodRequest]
      BY <1>12, <2>2 DEF Ask, RecordsGood, GoodRequest
    <2> QED
      BY <1>12, <2>1, <2>3 DEF Ask, RecordsGood, Bookkeeping
  <1>13. ASSUME NEW r \in Requests, NEW i \in Instances, NEW x \in Engagements,
                Webhook(r, i, x)
         PROVE  IInv'
    <2>1. calls' \in 0 .. MaxCalls
      BY <1>13, CallCounted DEF Webhook
    <2>2. request' \in [Requests -> GoodRequest]
      BY <1>13 DEF Webhook, RecordsGood, GoodRequest
    <2> QED
      BY <1>13, <2>1, <2>2 DEF Webhook, RecordsGood, Bookkeeping
  <1>14. CASE UNCHANGED vars
    BY <1>14 DEF vars, RecordsGood, Bookkeeping
  <1> QED
    BY <1>1, <1>2, <1>3, <1>4, <1>5, <1>6, <1>7, <1>8, <1>9, <1>10, <1>11, <1>12, <1>13,
       <1>14
    DEF Next

-----------------------------------------------------------------------------

LEMMA AlwaysGood == Spec => []IInv
  BY GoodAtFirst, GoodAlways, PTL DEF Spec

\* The variables are well typed, whatever the constants.
THEOREM EngagementTyped == Spec => []TypeOK
  <1>1. IInv => TypeOK
    <2> SUFFICES ASSUME IInv PROVE TypeOK
      OBVIOUS
    <2>1. Good \subseteq Record
      BY DEF Good
    <2>2. GoodStore \subseteq Store
      BY <2>1 DEF GoodStore, Store
    <2>3. GoodRequest \subseteq Request
      BY <2>1, <2>2 DEF GoodRequest, Request
    <2> QED
      BY <2>2, <2>3 DEF IInv, RecordsGood, Bookkeeping, TypeOK
  <1> QED
    BY <1>1, AlwaysGood, PTL

\* However many instances serve stale copies, whatever a request holds while it
\* waits, and in whatever order upserts land: no copy of an engagement is eligible
\* for the factory without the approvals, the DNA and the commercial package.
THEOREM CopiesAreSound == Spec => []CopiesSound
  <1>1. IInv => CopiesSound
    <2> SUFFICES ASSUME IInv, NEW x \in Engagements, NEW e \in Copies(x) PROVE e \in Good
      BY DEF CopiesSound, Good
    <2>1. CASE \E i \in Instances : e = files[i][x]
      BY <2>1 DEF Copies, IInv, RecordsGood, GoodStore
    <2>2. CASE e = database[x]
      BY <2>2 DEF Copies, IInv, RecordsGood, GoodStore
    <2>3. ASSUME NEW r \in Requests, request[r].at = "llm", e = request[r].rec
          PROVE  e \in Good
      <3>1. request[r] \in GoodRequest
        BY DEF IInv, RecordsGood
      <3> QED
        BY <2>3, <3>1 DEF GoodRequest, Idle
    <2>4. ASSUME NEW r \in Requests, request[r].at = "upsert", e = request[r].rows[x]
          PROVE  e \in Good
      <3>1. request[r] \in GoodRequest
        BY DEF IInv, RecordsGood
      <3>2. request[r].rows \in GoodStore
        BY <2>4, <3>1 DEF GoodRequest, Idle
      <3>3. e # NoRecord
        BY DEF Copies
      <3> QED
        BY <2>4, <3>2, <3>3 DEF GoodStore
    <2> QED
      BY <2>1, <2>2, <2>3, <2>4 DEF Copies
  <1> QED
    BY <1>1, AlwaysGood, PTL

-----------------------------------------------------------------------------
(* Payments.                                                               *)

Accounted == deposits \cup logged

\* A request past the table of deposits has its payment accounted for, until the
\* webhook is answered and afterwards.
PaymentInv ==
    /\ answered \subseteq Accounted
    /\ \A r \in Requests :
          /\ request[r].at = "recorded" => request[r].eng \in Accounted
          /\ request[r].at = "upsert" => request[r].hook \subseteq Accounted

LEMMA PaymentAlways == IInv /\ PaymentInv /\ [Next]_vars => PaymentInv'
  <1> SUFFICES ASSUME IInv, PaymentInv, [Next]_vars PROVE PaymentInv'
    OBVIOUS
  <1> USE DEF Accounted
  <1>0. /\ DOMAIN request = Requests
        /\ \A r \in Requests : request[r] \in GoodRequest
    BY DEF IInv, RecordsGood
  <1>1. ASSUME NEW i \in Instances, Hydrate(i) PROVE PaymentInv'
    BY <1>1 DEF Hydrate, PaymentInv
  <1>2. ASSUME NEW i \in Instances, Recycle(i) PROVE PaymentInv'
    <2>1. ASSUME NEW r \in Requests
          PROVE  /\ Orphaned(request[r]).at = "recorded" =>
                       Orphaned(request[r]).eng \in Accounted
                 /\ Orphaned(request[r]).at = "upsert" =>
                       Orphaned(request[r]).hook \subseteq Accounted
      BY <1>0 DEF Orphaned, Idle, PaymentInv, GoodRequest
    <2> QED
      BY <1>2, <2>1 DEF Recycle, PaymentInv
  <1>3. ASSUME NEW r \in Requests, Land(r) \/ Lose(r) PROVE PaymentInv'
    <2>1. answered' \subseteq Accounted
      BY <1>3 DEF Land, Lose, PaymentInv
    <2> QED
      BY <1>0, <1>3, <2>1 DEF Land, Lose, PaymentInv, Idle
  <1>4. ASSUME NEW r \in Requests, RecordDeposit(r) PROVE PaymentInv'
    <2>1. request[r] \in GoodRequest /\ request[r].at = "deposit"
      BY <1>0, <1>4 DEF RecordDeposit
    <2>2. request[r].eng \in Accounted'
      BY <1>4 DEF RecordDeposit
    <2>3. Accounted \subseteq Accounted'
      BY <1>4 DEF RecordDeposit
    <2>4. request'[r].at = "recorded" /\ request'[r].eng = request[r].eng
      BY <1>0, <1>4, <2>1 DEF RecordDeposit, GoodRequest, Idle
    <2> QED
      BY <1>0, <1>4, <2>2, <2>3, <2>4 DEF RecordDeposit, PaymentInv
  <1>5. ASSUME NEW r \in Requests, AdvancePaid(r) PROVE PaymentInv'
    <2>1. request[r].eng \in Accounted
      BY <1>5 DEF AdvancePaid, PaymentInv
    <2>2. request'[r].at = "upsert" /\ request'[r].hook = {request[r].eng}
      BY <1>0, <1>5 DEF AdvancePaid, Upsert
    <2> QED
      BY <1>0, <1>5, <2>1, <2>2 DEF AdvancePaid, PaymentInv
  <1>6. ASSUME NEW r \in Requests, NEW i \in Instances, NEW x \in Engagements, NEW e,
               NEW acks, Save(r, i, x, e, acks)
        PROVE  PaymentInv'
    <2>1. request'[r].at = "upsert" /\ request'[r].hook = {}
      BY <1>0, <1>6 DEF Save, Upsert
    <2> QED
      BY <1>0, <1>6, <2>1 DEF Save, PaymentInv
  <1>7. ASSUME NEW r \in Requests, Resume(r) PROVE PaymentInv'
    <2>1. request[r].inst \in Instances /\ request[r].eng \in Engagements
      BY <1>0, <1>7 DEF Resume, GoodRequest, Idle
    <2> QED
      BY <1>6, <1>7, <2>1 DEF Resume
  <1>8. ASSUME NEW r \in Requests, NEW i \in Instances, Touch(r, i) PROVE PaymentInv'
    <2>1. request'[r].at = "upsert" /\ request'[r].hook = {}
      BY <1>0, <1>8 DEF Touch, Upsert
    <2> QED
      BY <1>0, <1>8, <2>1 DEF Touch, PaymentInv
  <1>9. ASSUME NEW r \in Requests, NEW i \in Instances, NEW x \in Engagements
        PROVE  /\ Create(r, i, x) => PaymentInv'
               /\ Convert(r, i, x) => PaymentInv'
               /\ Edit(r, i, x) => PaymentInv'
               /\ \A s \in Stage : Advance(r, i, x, s) => PaymentInv'
               /\ \A call \in Consultations : Ask(r, i, x, call) => PaymentInv'
               /\ Webhook(r, i, x) => PaymentInv'
    <2>1. Create(r, i, x) => PaymentInv'
      BY <1>6 DEF Create
    <2>2. Convert(r, i, x) => PaymentInv'
      BY DEF Convert, PaymentInv
    <2>3. Edit(r, i, x) => PaymentInv'
      BY <1>6 DEF Edit
    <2>4. \A s \in Stage : Advance(r, i, x, s) => PaymentInv'
      BY <1>6 DEF Advance
    <2>5. \A call \in Consultations : Ask(r, i, x, call) => PaymentInv'
      BY <1>0 DEF Ask, PaymentInv
    <2>6. Webhook(r, i, x) => PaymentInv'
      BY <1>0 DEF Webhook, PaymentInv
    <2> QED
      BY <2>1, <2>2, <2>3, <2>4, <2>5, <2>6
  <1>10. CASE UNCHANGED vars
    BY <1>10 DEF vars, PaymentInv
  <1> QED
    BY <1>1, <1>2, <1>3, <1>4, <1>5, <1>7, <1>8, <1>9, <1>10 DEF Next

\* Recycled instances and failing stores included, a payment whose webhook was
\* answered has its row in the table of deposits or its error in the log.
THEOREM PaymentsAreAccounted == Spec => []PaymentsAccounted
  <1>1. Init => PaymentInv
    BY DEF Init, PaymentInv, Idle
  <1>2. PaymentInv => PaymentsAccounted
    BY DEF PaymentInv, PaymentsAccounted, Accounted
  <1> QED
    BY <1>1, <1>2, PaymentAlways, AlwaysGood, PTL DEF Spec

-----------------------------------------------------------------------------
(* What the calls do to the approvals of a record.                         *)

\* Only advanceGovernance() adds to them.
LEMMA GivenKept ==
    /\ New.given = {}
    /\ \A e \in Good : /\ Analysed(e).given = e.given
                       /\ Quoted(e).given = e.given
                       /\ Researched(e).given = e.given
                       /\ GapsFound(e).given = e.given
                       /\ Reviewed(e).given = e.given
    /\ \A e \in Good, d \in Designs : /\ Designed(e, d).given = e.given
                                      /\ Packaged(e, d).given = e.given
    /\ \A e \in Good, sure \in BOOLEAN : Answered(e, sure).given = e.given
    /\ \A e \in Good, s \in Stage : Advanced(e, s).given = e.given \cup Signs(s)
  <1>1. New.given = {}
    BY DEF New
  <1>2. ASSUME NEW e \in Good
        PROVE  /\ Analysed(e).given = e.given
               /\ Quoted(e).given = e.given
               /\ \A sure \in BOOLEAN : Answered(e, sure).given = e.given
               /\ \A d \in Designs : Designed(e, d).given = e.given
               /\ \A s \in Stage : Advanced(e, s).given = e.given \cup Signs(s)
    BY DEF Good, Record, Analysed, Quoted, Answered, Designed, Advanced
  <1>3. ASSUME NEW e \in Good, NEW n
        PROVE  /\ Reach(e, n).given = e.given
               /\ "given" \in DOMAIN Reach(e, n)
    BY DEF Reach, Good, Record
  <1>4. ASSUME NEW e \in Good, NEW d \in Designs
        PROVE  Packaged(e, d).given = e.given
    <2> DEFINE f == Reach(e, Package)
    <2>1. f.given = e.given /\ "given" \in DOMAIN f
      BY <1>3
    <2> HIDE DEF f
    <2>2. [f EXCEPT !.analysis = TRUE, !.dna = d, !.commercial = d,
                    !.stage = "commercial_review"].given = f.given
      BY <2>1
    <2> QED
      BY <2>1, <2>2 DEF Packaged, f
  <1> QED
    BY <1>1, <1>2, <1>3, <1>4 DEF Researched, GapsFound, Reviewed

-----------------------------------------------------------------------------
(* The invariant.                                                          *)

\* Every approval of e, a copy of the record of x, is among the decisions d.
Vouched(d, x, e) == e = NoRecord \/ \A a \in e.given : <<x, a>> \in d

\* The copies are in the files, in the database, in the hands of requests that
\* wait for the language model, and on their way to the database.
InFiles(d, f) == \A i \in Instances, x \in Engagements : Vouched(d, x, f[i][x])

InRows(d, rows) == \A x \in Engagements : Vouched(d, x, rows[x])

InRequest(d, q) ==
    /\ q.at = "llm" => Vouched(d, q.eng, q.rec)
    /\ q.at = "upsert" => InRows(d, q.rows)

DecidedInv ==
    /\ InFiles(decided, files)
    /\ InRows(decided, database)
    /\ \A r \in Requests : InRequest(decided, request[r])

\* What is vouched for stays so as decisions are added.
LEMMA VouchedStays ==
    ASSUME NEW d, NEW b, d \subseteq b
    PROVE  /\ \A x, e : Vouched(d, x, e) => Vouched(b, x, e)
           /\ \A f : InFiles(d, f) => InFiles(b, f)
           /\ \A rows : InRows(d, rows) => InRows(b, rows)
           /\ \A q : InRequest(d, q) => InRequest(b, q)
  <1>1. \A x, e : Vouched(d, x, e) => Vouched(b, x, e)
    BY DEF Vouched
  <1>2. \A rows : InRows(d, rows) => InRows(b, rows)
    BY <1>1 DEF InRows
  <1>3. \A f : InFiles(d, f) => InFiles(b, f)
    BY <1>1 DEF InFiles
  <1> QED
    BY <1>1, <1>2, <1>3 DEF InRequest

\* Saving a record whose approvals were decided.
LEMMA SaveVouched ==
    ASSUME IInv, DecidedInv, NEW r \in Requests, NEW i \in Instances,
           NEW x \in Engagements, NEW e, NEW acks, Save(r, i, x, e, acks),
           Vouched(decided', x, e)
    PROVE  DecidedInv'
  <1>1. decided \subseteq decided' /\ database' = database
    BY DEF Save
  <1>2. /\ InFiles(decided', files) /\ InRows(decided', database)
        /\ \A q \in Requests : InRequest(decided', request[q])
    BY <1>1, VouchedStays DEF DecidedInv
  <1>3. /\ files \in [Instances -> [Engagements -> Good \cup {NoRecord}]]
        /\ files' = [files EXCEPT ![i] = [files[i] EXCEPT ![x] = e]]
    BY DEF IInv, RecordsGood, GoodStore, Save
  <1>4. \A k \in Instances, y \in Engagements :
           files'[k][y] = IF k = i /\ y = x THEN e ELSE files[k][y]
    BY <1>3
  <1>5. InFiles(decided', files')
    BY <1>2, <1>4 DEF InFiles
  <1>6. InRows(decided', files'[i])
    BY <1>5 DEF InFiles, InRows
  <1>7. \A q \in Requests : request'[q] = IF q = r THEN Upsert(i, files'[i], acks, {})
                                                 ELSE request[q]
    BY DEF Save, IInv, RecordsGood
  <1>8. InRequest(decided', Upsert(i, files'[i], acks, {}))
    BY <1>6 DEF InRequest, Upsert
  <1>9. \A q \in Requests : InRequest(decided', request'[q])
    BY <1>2, <1>7, <1>8
  <1> QED
    BY <1>1, <1>2, <1>5, <1>9 DEF DecidedInv

\* A request that goes idle or waits with nothing in hand needs no voucher.
LEMMA EmptyHands ==
    /\ \A d : InRequest(d, Idle)
    /\ \A d, q : q.at \notin {"llm", "upsert"} => InRequest(d, q)
  BY DEF InRequest, Idle

\* What an instance has is vouched for, and good.
LEMMA HasVouched ==
    ASSUME IInv, DecidedInv, NEW i \in Instances, NEW x \in Engagements, Has(i, x)
    PROVE  /\ files[i][x] \in Good
           /\ \A a \in files[i][x].given : <<x, a>> \in decided
  BY HasGood DEF DecidedInv, InFiles, Vouched, Has

-----------------------------------------------------------------------------
(* Every step keeps it.                                                    *)

\* The calls that change a record at once.
LEMMA CallVouched ==
    ASSUME IInv, DecidedInv, NEW r \in Requests, NEW i \in Instances,
           NEW x \in Engagements
    PROVE  /\ Create(r, i, x) => DecidedInv'
           /\ Edit(r, i, x) => DecidedInv'
           /\ \A s \in Stage : Advance(r, i, x, s) => DecidedInv'
  <1>1. ASSUME Create(r, i, x) PROVE DecidedInv'
    <2>1. Vouched(decided', x, New)
      BY GivenKept DEF Vouched
    <2> QED
      BY <1>1, <2>1, SaveVouched DEF Create
  <1>2. ASSUME Edit(r, i, x) PROVE DecidedInv'
    <2>1. PICK e \in Changed(files[i][x]) : Save(r, i, x, e, {})
      BY <1>2 DEF Edit
    <2>2. /\ files[i][x] \in Good
          /\ \A a \in files[i][x].given : <<x, a>> \in decided
      BY <1>2, HasVouched DEF Edit
    <2>3. e.given = files[i][x].given
      BY <2>1, <2>2, GivenKept DEF Changed
    <2>4. decided \subseteq decided'
      BY <2>1 DEF Save
    <2>5. Vouched(decided', x, e)
      BY <2>2, <2>3, <2>4 DEF Vouched
    <2> QED
      BY <2>1, <2>5, SaveVouched
  <1>3. ASSUME NEW s \in Stage, Advance(r, i, x, s) PROVE DecidedInv'
    <2> DEFINE acks == {<<x, a>> : a \in Signs(s)}
               e == Advanced(files[i][x], s)
    <2>1. /\ files[i][x] \in Good
          /\ \A a \in files[i][x].given : <<x, a>> \in decided
      BY <1>3, HasVouched DEF Advance
    <2>2. e.given = files[i][x].given \cup Signs(s)
      BY <2>1, GivenKept
    <2>3. Save(r, i, x, e, acks) /\ decided' = decided \cup acks
      BY <1>3 DEF Advance, Save
    <2>4. \A a \in e.given : <<x, a>> \in decided'
      BY <2>1, <2>2, <2>3
    <2> HIDE DEF e
    <2>5. Vouched(decided', x, e)
      BY <2>4 DEF Vouched
    <2> QED
      BY <2>3, <2>5, SaveVouched
  <1> QED
    BY <1>1, <1>2, <1>3

\* A consulting call saves what it held, with the approvals it had then.
LEMMA ResumeVouched ==
    ASSUME IInv, DecidedInv, NEW r \in Requests, Resume(r)
    PROVE  DecidedInv'
  <1>1. request[r] \in GoodRequest /\ request[r].at = "llm"
    BY DEF IInv, RecordsGood, Resume
  <1>2. /\ request[r].inst \in Instances
        /\ request[r].eng \in Engagements
        /\ request[r].call \in Consultations
        /\ request[r].rec \in Good
    BY <1>1 DEF GoodRequest, Idle
  <1>3. PICK e \in Consulted(request[r].rec, request[r].call) :
            Save(r, request[r].inst, request[r].eng, e, {})
    BY DEF Resume
  <1>4. e.given = request[r].rec.given
    BY <1>2, <1>3, ServiceAssumption, GivenKept DEF Consulted
  <1>5. \A a \in request[r].rec.given : <<request[r].eng, a>> \in decided
    <2>1. Vouched(decided, request[r].eng, request[r].rec)
      BY <1>1 DEF DecidedInv, InRequest
    <2>2. request[r].rec # NoRecord
      BY <1>2, ServiceAssumption DEF Good
    <2> QED
      BY <2>1, <2>2 DEF Vouched
  <1>6. Vouched(decided', request[r].eng, e)
    BY <1>3, <1>4, <1>5 DEF Vouched, Save
  <1> QED
    BY <1>2, <1>3, <1>6, SaveVouched

\* The webhook signs for the client and the deposit, and says so.
LEMMA PaidVouched ==
    ASSUME NEW e \in Good
    PROVE  \A a \in PaidFor(e).given : a \in e.given \/ a \in PaysFor(e)
  <1> DEFINE f == Tried(e, "client_approval")
  <1>1. "client_approval" \in Stage /\ "deposit_received" \in Stage
    BY DEF Stage, Rank
  <1>2. f \in Good
    BY <1>1, AdvancedGood DEF Tried
  <1>3. \A a \in f.given : a \in e.given \/ a \in PaysFor(e)
    <2>1. CASE CanAdvance(e, "client_approval")
      <3>1. f.given = e.given \cup Signs("client_approval")
        BY <1>1, <2>1, GivenKept DEF Tried
      <3>2. \A a \in Signs("client_approval") : a \in PaysFor(e)
        BY <2>1 DEF PaysFor, Signs, Approval
      <3> QED
        BY <3>1, <3>2
    <2>2. CASE ~CanAdvance(e, "client_approval")
      BY <2>2 DEF Tried
    <2> QED
      BY <2>1, <2>2
  <1>4. CanAdvance(f, "deposit_received") => CanAdvance(e, "deposit_received")
    BY <1>1, DesignAssumption DEF Tried, CanAdvance, Advanced, Good, Record, Rank, Stage
  <1> HIDE DEF f
  <1>5. \A a \in Tried(f, "deposit_received").given : a \in f.given \/ a \in PaysFor(e)
    <2>1. CASE CanAdvance(f, "deposit_received")
      <3>1. Tried(f, "deposit_received").given = f.given \cup Signs("deposit_received")
        BY <1>1, <1>2, <2>1, GivenKept DEF Tried
      <3>2. \A a \in Signs("deposit_received") : a \in PaysFor(e)
        BY <1>4, <2>1 DEF PaysFor, Signs, Approval
      <3> QED
        BY <3>1, <3>2
    <2>2. CASE ~CanAdvance(f, "deposit_received")
      BY <2>2 DEF Tried
    <2> QED
      BY <2>1, <2>2
  <1>6. PaidFor(e) = Tried(f, "deposit_received")
    BY DEF PaidFor, f
  <1> QED
    BY <1>3, <1>5, <1>6

LEMMA PaymentVouched ==
    ASSUME IInv, DecidedInv, NEW r \in Requests, AdvancePaid(r)
    PROVE  DecidedInv'
  <1> PICK i, x : i = request[r].inst /\ x = request[r].eng
    OBVIOUS
  <1>1. i \in Instances /\ x \in Engagements
    <2>1. request[r] \in GoodRequest /\ request[r].at = "recorded"
      BY DEF IInv, RecordsGood, AdvancePaid
    <2> QED
      BY <2>1 DEF GoodRequest, Idle
  <1> PICK e : e = files[i][x]
    OBVIOUS
  <1> PICK acks : acks = IF e = NoRecord THEN {} ELSE {<<x, a>> : a \in PaysFor(e)}
    OBVIOUS
  <1>2. /\ decided' = decided \cup acks
        /\ database' = database
        /\ request' = [request EXCEPT ![r] = Upsert(i, files'[i], acks, {x})]
        /\ files' = IF e = NoRecord THEN files
                    ELSE [files EXCEPT ![i] = [files[i] EXCEPT ![x] = PaidFor(e)]]
    BY DEF AdvancePaid
  <1>3. /\ InFiles(decided', files) /\ InRows(decided', database)
        /\ \A q \in Requests : InRequest(decided', request[q])
    BY <1>2, VouchedStays DEF DecidedInv
  <1>4. InFiles(decided', files')
    <2>1. CASE e = NoRecord
      BY <1>2, <1>3, <2>1
    <2>2. CASE e # NoRecord
      <3>1. e \in Good /\ \A a \in e.given : <<x, a>> \in decided
        <4>1. Has(i, x)
          BY <2>2 DEF Has
        <4> QED
          BY <1>1, <4>1, HasVouched
      <3>2. \A a \in PaidFor(e).given : <<x, a>> \in decided'
        <4>1. \A a \in PaidFor(e).given : a \in e.given \/ a \in PaysFor(e)
          BY <3>1, PaidVouched
        <4>2. \A a \in PaysFor(e) : <<x, a>> \in acks
          BY <2>2
        <4>3. \A a : <<x, a>> \in decided \/ <<x, a>> \in acks => <<x, a>> \in decided'
          BY <1>2
        <4> QED
          BY <3>1, <4>1, <4>2, <4>3
      <3>3. files \in [Instances -> [Engagements -> Good \cup {NoRecord}]]
        BY DEF IInv, RecordsGood, GoodStore
      <3>4. \A k \in Instances, y \in Engagements :
               files'[k][y] = IF k = i /\ y = x THEN PaidFor(e) ELSE files[k][y]
        BY <1>2, <2>2, <3>3
      <3> QED
        BY <1>3, <3>2, <3>4 DEF InFiles, Vouched
    <2> QED
      BY <2>1, <2>2
  <1>5. InRows(decided', files'[i])
    BY <1>1, <1>4 DEF InFiles, InRows
  <1>6. InRequest(decided', Upsert(i, files'[i], acks, {x}))
    BY <1>5 DEF InRequest, Upsert
  <1>7. \A q \in Requests : InRequest(decided', request'[q])
    BY <1>2, <1>3, <1>6 DEF IInv, RecordsGood
  <1> QED
    BY <1>2, <1>3, <1>4, <1>7 DEF DecidedInv

LEMMA DecidedAlways == IInv /\ DecidedInv /\ [Next]_vars => DecidedInv'
  <1> SUFFICES ASSUME IInv, DecidedInv, [Next]_vars PROVE DecidedInv'
    OBVIOUS
  <1>0. /\ InFiles(decided, files) /\ InRows(decided, database)
        /\ \A r \in Requests : InRequest(decided, request[r]) /\ request[r] \in GoodRequest
        /\ request \in [Requests -> GoodRequest]
        /\ files \in [Instances -> GoodStore]
    BY DEF DecidedInv, IInv, RecordsGood
  <1>1. ASSUME NEW i \in Instances, Hydrate(i) PROVE DecidedInv'
    <2>1. InFiles(decided, files')
      BY <1>0, <1>1 DEF Hydrate, InFiles, InRows
    <2> QED
      BY <1>0, <1>1, <2>1 DEF Hydrate, DecidedInv
  <1>2. ASSUME NEW i \in Instances, Recycle(i) PROVE DecidedInv'
    <2>1. InFiles(decided, files')
      BY <1>0, <1>2 DEF Recycle, InFiles, Vouched
    <2>2. ASSUME NEW r \in Requests PROVE InRequest(decided, Orphaned(request[r]))
      <3>1. CASE request[r].at = "upsert"
        <4>1. /\ Orphaned(request[r]).at = "upsert"
              /\ Orphaned(request[r]).rows = request[r].rows
          BY <1>0, <3>1 DEF Orphaned, GoodRequest, Idle
        <4> QED
          BY <1>0, <3>1, <4>1 DEF InRequest
      <3>2. CASE request[r].at # "upsert"
        BY <3>2, EmptyHands DEF Orphaned
      <3> QED
        BY <3>1, <3>2
    <2>3. \A r \in Requests : InRequest(decided, request'[r])
      BY <1>0, <1>2, <2>2 DEF Recycle
    <2> QED
      BY <1>0, <1>2, <2>1, <2>3 DEF Recycle, DecidedInv
  <1>3. ASSUME NEW r \in Requests, Land(r) \/ Lose(r) PROVE DecidedInv'
    <2>1. request[r].at = "upsert" /\ InRows(decided, request[r].rows)
      BY <1>0, <1>3 DEF Land, Lose, InRequest
    <2>2. InRows(decided, database')
      BY <1>0, <1>3, <2>1 DEF Land, Lose, InRows
    <2>3. \A q \in Requests : InRequest(decided, request'[q])
      BY <1>0, <1>3, EmptyHands DEF Land, Lose
    <2> QED
      BY <1>0, <1>3, <2>2, <2>3 DEF Land, Lose, DecidedInv
  <1>4. ASSUME NEW r \in Requests, RecordDeposit(r) PROVE DecidedInv'
    <2>1. request'[r].at = "recorded"
      BY <1>0, <1>4 DEF RecordDeposit, GoodRequest, Idle
    <2>2. \A q \in Requests : InRequest(decided, request'[q])
      BY <1>0, <1>4, <2>1, EmptyHands DEF RecordDeposit
    <2> QED
      BY <1>0, <1>4, <2>2 DEF RecordDeposit, DecidedInv
  <1>5. ASSUME NEW r \in Requests, NEW i \in Instances, Touch(r, i) PROVE DecidedInv'
    <2>1. InRequest(decided, Upsert(i, files[i], {}, {}))
      BY <1>0 DEF InFiles, InRows, InRequest, Upsert
    <2>2. \A q \in Requests : InRequest(decided, request'[q])
      BY <1>0, <1>5, <2>1 DEF Touch
    <2> QED
      BY <1>0, <1>5, <2>2 DEF Touch, DecidedInv
  <1>6. ASSUME NEW r \in Requests, NEW i \in Instances, NEW x \in Engagements,
               Convert(r, i, x)
        PROVE  DecidedInv'
    <2>1. InFiles(decided, files')
      BY <1>0, <1>6, GivenKept DEF Convert, InFiles, Vouched, GoodStore
    <2> QED
      BY <1>0, <1>6, <2>1 DEF Convert, DecidedInv
  <1>7. ASSUME NEW r \in Requests, NEW i \in Instances, NEW x \in Engagements,
               NEW call \in Consultations, Ask(r, i, x, call)
        PROVE  DecidedInv'
    <2>1. Vouched(decided, x, files[i][x])
      BY <1>0 DEF InFiles
    <2>2. InRequest(decided, [at |-> "llm", inst |-> i, eng |-> x, call |-> call,
                              rec |-> files[i][x]])
      BY <2>1 DEF InRequest
    <2>3. \A q \in Requests : InRequest(decided, request'[q])
      BY <1>0, <1>7, <2>2 DEF Ask
    <2> QED
      BY <1>0, <1>7, <2>3 DEF Ask, DecidedInv
  <1>8. ASSUME NEW r \in Requests, NEW i \in Instances, NEW x \in Engagements,
               Webhook(r, i, x)
        PROVE  DecidedInv'
    <2>1. \A q \in Requests : InRequest(decided, request'[q])
      BY <1>0, <1>8, EmptyHands DEF Webhook
    <2> QED
      BY <1>0, <1>8, <2>1 DEF Webhook, DecidedInv
  <1>9. CASE UNCHANGED vars
    BY <1>9 DEF vars, DecidedInv
  <1> QED
    BY <1>1, <1>2, <1>3, <1>4, <1>5, <1>6, <1>7, <1>8, <1>9, CallVouched, ResumeVouched,
       PaymentVouched
    DEF Next

\* Whatever is stale, lost, orphaned or held over a call of the language model, no
\* copy of an engagement carries an approval that nobody gave.
THEOREM ApprovalsAreDecided == Spec => []ApprovalsDecided
  <1>1. Init => DecidedInv
    <2> SUFFICES ASSUME Init PROVE DecidedInv
      OBVIOUS
    <2>1. ASSUME NEW x \in Engagements, database[x] # NoRecord, NEW a \in database[x].given
          PROVE  <<x, a>> \in decided
      <3>1. database[x] \in Record
        BY <2>1, ServiceAssumption DEF Init
      <3>2. a \in Approval
        BY <2>1, <3>1 DEF Record
      <3>3. /\ <<x, a>> \in Decision /\ <<x, a>>[1] = x /\ <<x, a>>[2] = a
        BY <3>2 DEF Decision
      <3> QED
        BY <2>1, <3>3 DEF Init
    <2>2. InRows(decided, database)
      BY <2>1 DEF InRows, Vouched
    <2>3. InFiles(decided, files)
      BY DEF Init, InFiles, Vouched
    <2>4. \A r \in Requests : InRequest(decided, request[r])
      BY EmptyHands DEF Init
    <2> QED
      BY <2>2, <2>3, <2>4 DEF DecidedInv
  <1>2. IInv /\ DecidedInv => ApprovalsDecided
    <2> SUFFICES ASSUME DecidedInv, NEW x \in Engagements, NEW e \in Copies(x)
                 PROVE  Vouched(decided, x, e) /\ e # NoRecord
      BY DEF ApprovalsDecided, Vouched
    <2> QED
      BY DEF Copies, DecidedInv, InFiles, InRows, InRequest
  <1> QED
    BY <1>1, <1>2, AlwaysGood, DecidedAlways, PTL DEF Spec

-----------------------------------------------------------------------------
(* What no step does to the records of an instance that goes on serving.   *)

\* An instance that has not hydrated has no files, and no consulting call waits there.
WarmInv ==
    \A i \in Instances : ~warm[i] =>
       /\ \A x \in Engagements : files[i][x] = NoRecord
       /\ \A r \in Requests : ~(request[r].at = "llm" /\ request[r].inst = i)

\* The records that a call at once makes of e.
Called(e) ==
    Changed(e)
    \cup {Advanced(e, s) : s \in {t \in Stage : CanAdvance(e, t)}}
    \cup {PaidFor(e)}

\* Saving a record changes one entry of one instance's files, and leaves the request
\* with an upsert.
LEMMA SaveOne ==
    ASSUME IInv, NEW r \in Requests, NEW i \in Instances, NEW x \in Engagements, NEW e,
           NEW acks, Save(r, i, x, e, acks)
    PROVE  /\ \A j \in Instances, y \in Engagements :
                 files'[j][y] = IF j = i /\ y = x THEN e ELSE files[j][y]
           /\ \A q \in Requests : q # r => request'[q] = request[q]
           /\ request'[r].at = "upsert"
           /\ warm' = warm
  <1>1. /\ files \in [Instances -> [Engagements -> Good \cup {NoRecord}]]
        /\ files' = [files EXCEPT ![i] = [files[i] EXCEPT ![x] = e]]
        /\ DOMAIN request = Requests
    BY DEF IInv, RecordsGood, GoodStore, Save
  <1>2. request' = [request EXCEPT ![r] = Upsert(i, files'[i], acks, {})] /\ warm' = warm
    BY DEF Save
  <1>3. \A j \in Instances, y \in Engagements :
           files'[j][y] = IF j = i /\ y = x THEN e ELSE files[j][y]
    BY <1>1
  <1>4. /\ \A q \in Requests : q # r => request'[q] = request[q]
        /\ request'[r] = Upsert(i, files'[i], acks, {})
    BY <1>1, <1>2
  <1> QED
    BY <1>2, <1>3, <1>4 DEF Upsert

\* A request that waits says for which instance and engagement.
LEMMA Waits ==
    ASSUME IInv, NEW r \in Requests
    PROVE  /\ request[r].at = "llm" =>
                 /\ request[r].inst \in Instances /\ request[r].eng \in Engagements
                 /\ request[r].call \in Consultations /\ request[r].rec \in Good
           /\ request[r].at \in {"deposit", "recorded"} =>
                 request[r].inst \in Instances /\ request[r].eng \in Engagements
  <1>1. request[r] \in GoodRequest
    BY DEF IInv, RecordsGood
  <1> QED
    BY <1>1 DEF GoodRequest, Idle

\* The webhook's step on the files.
LEMMA PaidOne ==
    ASSUME IInv, NEW r \in Requests, AdvancePaid(r)
    PROVE  /\ \A j \in Instances, y \in Engagements :
                 files'[j][y] = IF /\ j = request[r].inst /\ y = request[r].eng
                                   /\ Has(j, y)
                                THEN PaidFor(files[j][y]) ELSE files[j][y]
           /\ \A q \in Requests : q # r => request'[q] = request[q]
           /\ request'[r].at = "upsert"
           /\ warm[request[r].inst]
           /\ warm' = warm
  <1> PICK i, x : i = request[r].inst /\ x = request[r].eng
    OBVIOUS
  <1>1. i \in Instances /\ x \in Engagements
    BY Waits DEF AdvancePaid
  <1>2. /\ files \in [Instances -> [Engagements -> Good \cup {NoRecord}]]
        /\ DOMAIN request = Requests
    BY DEF IInv, RecordsGood, GoodStore
  <1> PICK acks : acks = IF files[i][x] = NoRecord THEN {}
                         ELSE {<<x, a>> : a \in PaysFor(files[i][x])}
    OBVIOUS
  <1>3. /\ warm[i]
        /\ files' = IF files[i][x] = NoRecord THEN files
                    ELSE [files EXCEPT ![i] = [files[i] EXCEPT ![x] = PaidFor(files[i][x])]]
        /\ request' = [request EXCEPT ![r] = Upsert(i, files'[i], acks, {x})]
        /\ warm' = warm
    BY DEF AdvancePaid
  <1>4. \A j \in Instances, y \in Engagements :
           files'[j][y] = IF j = i /\ y = x /\ Has(j, y)
                          THEN PaidFor(files[j][y]) ELSE files[j][y]
    BY <1>1, <1>2, <1>3 DEF Has
  <1>5. /\ \A q \in Requests : q # r => request'[q] = request[q]
        /\ request'[r] = Upsert(i, files'[i], acks, {x})
    BY <1>2, <1>3
  <1> QED
    BY <1>3, <1>4, <1>5 DEF Upsert

\* The calls that a request makes at once: which record they leave, if they leave one.
LEMMA CallSaves ==
    ASSUME NEW r \in Requests, NEW i \in Instances, NEW x \in Engagements
    PROVE  /\ Create(r, i, x) => /\ warm[i] /\ ~Has(i, x)
                                 /\ Save(r, i, x, New, {})
           /\ Edit(r, i, x) => /\ warm[i]
                               /\ \E e \in Changed(files[i][x]) : Save(r, i, x, e, {})
           /\ \A s \in Stage : Advance(r, i, x, s) =>
                 /\ warm[i] /\ CanAdvance(files[i][x], s)
                 /\ Save(r, i, x, Advanced(files[i][x], s), {<<x, a>> : a \in Signs(s)})
  BY DEF Create, Edit, Advance, Begins, Fresh

LEMMA WarmAlways == IInv /\ WarmInv /\ [Next]_vars => WarmInv'
  <1> SUFFICES ASSUME IInv, WarmInv, [Next]_vars PROVE WarmInv'
    OBVIOUS
  <1>0. /\ DOMAIN request = Requests
        /\ files \in [Instances -> [Engagements -> Good \cup {NoRecord}]]
        /\ warm \in [Instances -> BOOLEAN]
    BY DEF IInv, RecordsGood, GoodStore, Bookkeeping
  <1>1. ASSUME NEW r \in Requests, NEW i \in Instances, NEW x \in Engagements, NEW e,
               NEW acks, warm[i], Save(r, i, x, e, acks)
        PROVE  WarmInv'
    BY <1>1, SaveOne DEF WarmInv
  <1>2. ASSUME NEW i \in Instances, Hydrate(i) PROVE WarmInv'
    <2>1. /\ \A j \in Instances : ~warm'[j] => j # i /\ ~warm[j]
          /\ \A j \in Instances : j # i => files'[j] = files[j]
          /\ request' = request
      BY <1>0, <1>2 DEF Hydrate
    <2> QED
      BY <2>1 DEF WarmInv
  <1>3. ASSUME NEW i \in Instances, Recycle(i) PROVE WarmInv'
    <2>1. /\ \A j \in Instances : j # i => warm'[j] = warm[j] /\ files'[j] = files[j]
          /\ \A x \in Engagements : files'[i][x] = NoRecord
          /\ \A r \in Requests : request'[r] = IF Of(r, i) THEN Orphaned(request[r])
                                                           ELSE request[r]
      BY <1>0, <1>3 DEF Recycle
    <2>2. ASSUME NEW r \in Requests, request'[r].at = "llm"
          PROVE  request'[r] = request[r] /\ ~(request[r].inst = i)
      <3>1. request[r] \in GoodRequest
        BY DEF IInv, RecordsGood
      <3>2. Orphaned(request[r]).at # "llm"
        BY <3>1 DEF Orphaned, Idle, GoodRequest
      <3>3. ~Of(r, i)
        BY <2>1, <2>2, <3>2
      <3> QED
        BY <2>1, <2>2, <3>3 DEF Of
    <2> QED
      BY <2>1, <2>2 DEF WarmInv
  <1>4. ASSUME NEW r \in Requests, Land(r) \/ Lose(r) PROVE WarmInv'
    BY <1>0, <1>4 DEF Land, Lose, WarmInv, Idle
  <1>5. ASSUME NEW r \in Requests, Resume(r) PROVE WarmInv'
    <2>1. /\ request[r].inst \in Instances /\ request[r].eng \in Engagements
          /\ request[r].at = "llm"
      BY <1>5, Waits DEF Resume
    <2>2. warm[request[r].inst]
      BY <2>1 DEF WarmInv
    <2>3. \E e \in Consulted(request[r].rec, request[r].call) :
             Save(r, request[r].inst, request[r].eng, e, {})
      BY <1>5 DEF Resume
    <2> QED
      BY <1>1, <2>1, <2>2, <2>3
  <1>6. ASSUME NEW r \in Requests, RecordDeposit(r) PROVE WarmInv'
    <2>1. request'[r].at = "recorded"
      <3>1. request[r] \in GoodRequest
        BY DEF IInv, RecordsGood
      <3> QED
        BY <1>0, <1>6, <3>1 DEF RecordDeposit, GoodRequest, Idle
    <2>2. \A q \in Requests : q # r => request'[q] = request[q]
      BY <1>0, <1>6 DEF RecordDeposit
    <2>3. files' = files /\ warm' = warm
      BY <1>6 DEF RecordDeposit
    <2> QED
      BY <2>1, <2>2, <2>3 DEF WarmInv
  <1>7. ASSUME NEW r \in Requests, AdvancePaid(r) PROVE WarmInv'
    BY <1>7, PaidOne DEF WarmInv
  <1>8. ASSUME NEW r \in Requests, NEW i \in Instances, Touch(r, i) PROVE WarmInv'
    <2>1. /\ request'[r].at = "upsert" /\ files' = files /\ warm' = warm
          /\ \A q \in Requests : q # r => request'[q] = request[q]
      BY <1>0, <1>8 DEF Touch, Upsert
    <2> QED
      BY <2>1 DEF WarmInv
  <1>9. ASSUME NEW r \in Requests, NEW i \in Instances, NEW x \in Engagements
        PROVE  /\ Create(r, i, x) => WarmInv'
               /\ Convert(r, i, x) => WarmInv'
               /\ Edit(r, i, x) => WarmInv'
               /\ \A s \in Stage : Advance(r, i, x, s) => WarmInv'
               /\ \A call \in Consultations : Ask(r, i, x, call) => WarmInv'
               /\ Webhook(r, i, x) => WarmInv'
    <2>1. /\ Create(r, i, x) => WarmInv'
          /\ Edit(r, i, x) => WarmInv'
          /\ \A s \in Stage : Advance(r, i, x, s) => WarmInv'
      BY <1>1, CallSaves
    <2>2. ASSUME Convert(r, i, x) PROVE WarmInv'
      <3>1. /\ warm[i] /\ request' = request /\ warm' = warm
            /\ \A j \in Instances : j # i => files'[j] = files[j]
        BY <1>0, <2>2 DEF Convert, Begins
      <3> QED
        BY <3>1 DEF WarmInv
    <2>3. ASSUME NEW call \in Consultations, Ask(r, i, x, call) PROVE WarmInv'
      <3>1. /\ warm[i] /\ files' = files /\ warm' = warm
            /\ request'[r].inst = i
            /\ \A q \in Requests : q # r => request'[q] = request[q]
        BY <1>0, <2>3 DEF Ask, Begins
      <3> QED
        BY <3>1 DEF WarmInv
    <2>4. ASSUME Webhook(r, i, x) PROVE WarmInv'
      <3>1. /\ request'[r].at = "deposit" /\ files' = files /\ warm' = warm
            /\ \A q \in Requests : q # r => request'[q] = request[q]
        BY <1>0, <2>4 DEF Webhook
      <3> QED
        BY <3>1 DEF WarmInv
    <2> QED
      BY <2>1, <2>2, <2>3, <2>4
  <1>10. CASE UNCHANGED vars
    BY <1>10 DEF vars, WarmInv
  <1> QED
    BY <1>2, <1>3, <1>4, <1>5, <1>6, <1>7, <1>8, <1>9, <1>10 DEF Next

\* What a step makes of a record in an instance that goes on serving: nothing, what
\* a call makes of it, or what a consulting call held.
LEMMA RecordStep ==
    ASSUME IInv, WarmInv, [Next]_vars, NEW i \in Instances, NEW x \in Engagements,
           Has(i, x), warm'[i]
    PROVE  \/ files'[i][x] = files[i][x]
           \/ files'[i][x] \in Called(files[i][x])
           \/ \E r \in Requests : Resumes(r, i, x)
  <1> DEFINE Ok == \/ files'[i][x] = files[i][x]
                   \/ files'[i][x] \in Called(files[i][x])
                   \/ \E r \in Requests : Resumes(r, i, x)
  <1>0. files \in [Instances -> [Engagements -> Good \cup {NoRecord}]]
    BY DEF IInv, RecordsGood, GoodStore
  <1>1. ASSUME NEW j \in Instances, Hydrate(j) PROVE Ok
    BY <1>0, <1>1 DEF Hydrate, WarmInv, Has
  <1>2. ASSUME NEW j \in Instances, Recycle(j) PROVE Ok
    <2>1. j # i
      BY <1>2 DEF Recycle, IInv, Bookkeeping
    <2> QED
      BY <1>0, <1>2, <2>1 DEF Recycle
  <1>3. ASSUME NEW r \in Requests, \/ Land(r) \/ Lose(r) \/ RecordDeposit(r) PROVE Ok
    BY <1>3 DEF Land, Lose, RecordDeposit
  <1>4. ASSUME NEW r \in Requests, Resume(r) PROVE Ok
    <2>1. /\ request[r].inst \in Instances /\ request[r].eng \in Engagements
          /\ request[r].at = "llm"
      BY <1>4, Waits DEF Resume
    <2>2. PICK e \in Consulted(request[r].rec, request[r].call) :
                  Save(r, request[r].inst, request[r].eng, e, {})
      BY <1>4 DEF Resume
    <2>3. CASE request[r].inst = i /\ request[r].eng = x
      <3>1. request'[r] # request[r]
        BY <2>1, <2>2, SaveOne
      <3> QED
        BY <2>1, <2>3, <3>1 DEF Resumes
    <2>4. CASE ~(request[r].inst = i /\ request[r].eng = x)
      <3>1. files'[i][x] = files[i][x]
        BY <2>1, <2>2, <2>4, SaveOne
      <3> QED
        BY <3>1
    <2> QED
      BY <2>3, <2>4
  <1>5. ASSUME NEW r \in Requests, AdvancePaid(r) PROVE Ok
    <2>1. files'[i][x] \in {files[i][x], PaidFor(files[i][x])}
      BY <1>5, PaidOne
    <2> QED
      BY <2>1 DEF Called
  <1>6. ASSUME NEW r \in Requests, NEW j \in Instances, Touch(r, j) PROVE Ok
    BY <1>6 DEF Touch
  <1>7. ASSUME NEW r \in Requests, NEW j \in Instances, NEW y \in Engagements
        PROVE  /\ Create(r, j, y) => Ok
               /\ Convert(r, j, y) => Ok
               /\ Edit(r, j, y) => Ok
               /\ \A s \in Stage : Advance(r, j, y, s) => Ok
               /\ \A call \in Consultations : Ask(r, j, y, call) => Ok
               /\ Webhook(r, j, y) => Ok
    <2>1. ASSUME Create(r, j, y) PROVE Ok
      <3>1. ~Has(j, y) /\ Save(r, j, y, New, {})
        BY <2>1, CallSaves
      <3>2. files'[i][x] = files[i][x]
        BY <3>1, SaveOne
      <3> QED
        BY <3>2
    <2>2. ASSUME Convert(r, j, y) PROVE Ok
      <3>1. /\ ~Has(j, y)
            /\ files' = [files EXCEPT ![j] = [files[j] EXCEPT ![y] = New]]
        BY <2>2 DEF Convert, Fresh
      <3>2. files'[i][x] = files[i][x]
        BY <1>0, <3>1
      <3> QED
        BY <3>2
    <2>3. ASSUME Edit(r, j, y) PROVE Ok
      <3>1. PICK e \in Changed(files[j][y]) : Save(r, j, y, e, {})
        BY <2>3, CallSaves
      <3>2. files'[i][x] = IF i = j /\ x = y THEN e ELSE files[i][x]
        BY <3>1, SaveOne
      <3> QED
        BY <3>1, <3>2 DEF Called
    <2>4. ASSUME NEW s \in Stage, Advance(r, j, y, s) PROVE Ok
      <3>1. /\ CanAdvance(files[j][y], s)
            /\ Save(r, j, y, Advanced(files[j][y], s), {<<y, a>> : a \in Signs(s)})
        BY <2>4, CallSaves
      <3>2. files'[i][x] = IF i = j /\ x = y THEN Advanced(files[j][y], s) ELSE files[i][x]
        BY <3>1, SaveOne
      <3> QED
        BY <3>1, <3>2 DEF Called
    <2>5. ASSUME NEW call \in Consultations, Ask(r, j, y, call) PROVE Ok
      BY <2>5 DEF Ask
    <2>6. ASSUME Webhook(r, j, y) PROVE Ok
      BY <2>6 DEF Webhook
    <2> QED
      BY <2>1, <2>2, <2>3, <2>4, <2>5, <2>6
  <1>8. CASE UNCHANGED vars
    BY <1>8 DEF vars
  <1> QED
    BY <1>1, <1>2, <1>3, <1>4, <1>5, <1>6, <1>7, <1>8 DEF Next

LEMMA PaidLeaves ==
    ASSUME NEW e \in Good
    PROVE  /\ e.given \subseteq PaidFor(e).given
           /\ Rank[PaidFor(e).stage] >= Rank[e.stage]
  <1>1. "client_approval" \in Stage /\ "deposit_received" \in Stage
    BY DEF Stage, Rank
  <1>2. ASSUME NEW f \in Good, NEW s \in Stage
        PROVE  /\ Tried(f, s) \in Good
               /\ f.given \subseteq Tried(f, s).given
               /\ Rank[Tried(f, s).stage] >= Rank[f.stage]
    <2>1. CASE CanAdvance(f, s)
      <3>1. Tried(f, s) = Advanced(f, s) /\ Advanced(f, s) \in Good
        BY <2>1, AdvancedGood DEF Tried
      <3>2. f.given \subseteq Advanced(f, s).given
        BY GivenKept
      <3>3. Advanced(f, s).stage = s
        BY DEF Advanced, Good, Record
      <3> QED
        BY <2>1, <3>1, <3>2, <3>3 DEF CanAdvance
    <2>2. CASE ~CanAdvance(f, s)
      <3>1. Tried(f, s) = f
        BY <2>2 DEF Tried
      <3>2. Rank[f.stage] >= Rank[f.stage]
        BY DEF Good, Record, Stage, Rank
      <3> QED
        BY <3>1, <3>2
    <2> QED
      BY <2>1, <2>2
  <1> PICK f : f = Tried(e, "client_approval")
    OBVIOUS
  <1>3. /\ f \in Good /\ e.given \subseteq f.given
        /\ Rank[f.stage] >= Rank[e.stage]
    BY <1>1, <1>2
  <1> PICK g : g = Tried(f, "deposit_received")
    OBVIOUS
  <1>4. /\ g \in Good /\ f.given \subseteq g.given
        /\ Rank[g.stage] >= Rank[f.stage]
    BY <1>1, <1>2, <1>3
  <1>5. PaidFor(e) = g
    BY DEF PaidFor
  <1>6. \A h \in Good : Rank[h.stage] \in Nat
    BY DEF Good, Record, Stage, Rank
  <1> QED
    BY <1>3, <1>4, <1>5, <1>6

\* The stages whose work a call does anew.
DoneAnew == {"business_analysis", "solution_design", "commercial_review"}

\* No call at once takes an approval back, and none goes back with governance except
\* to a stage whose work it does anew.
LEMMA CalledKeeps ==
    ASSUME NEW e \in Good, NEW f \in Called(e)
    PROVE  /\ e.given \subseteq f.given
           /\ f.stage \in DoneAnew \/ Rank[f.stage] >= Rank[e.stage]
  <1>0. Rank[e.stage] >= Rank[e.stage]
    BY DEF Good, Record, Stage, Rank
  <1>1. CASE f = Analysed(e)
    BY <1>1, GivenKept DEF Analysed, Good, Record, DoneAnew
  <1>2. ASSUME NEW d \in Designs, f = Designed(e, d)
        PROVE  e.given \subseteq f.given /\ f.stage \in DoneAnew
    BY <1>2, GivenKept DEF Designed, Good, Record, DoneAnew
  <1>3. CASE f = Quoted(e)
    BY <1>3, GivenKept DEF Quoted, Good, Record, DoneAnew
  <1>4. CASE f = Researched(e)
    <2>1. f.stage = e.stage
      BY <1>4 DEF Researched, Reach, Good, Record
    <2> QED
      BY <1>0, <1>4, <2>1, GivenKept
  <1>5. ASSUME NEW d \in Designs, f = Packaged(e, d)
        PROVE  e.given \subseteq f.given /\ f.stage \in DoneAnew
    <2> PICK h : h = Reach(e, Package)
      OBVIOUS
    <2>1. h \in Record
      BY DEF Reach, Good, Record, Interview, Package
    <2>2. f.stage = "commercial_review"
      BY <1>5, <2>1 DEF Packaged, Record
    <2> QED
      BY <1>5, <2>2, GivenKept DEF DoneAnew
  <1>6. ASSUME NEW s \in Stage, CanAdvance(e, s), f = Advanced(e, s)
        PROVE  e.given \subseteq f.given /\ Rank[f.stage] >= Rank[e.stage]
    <2>1. f.stage = s
      BY <1>6 DEF Advanced, Good, Record
    <2> QED
      BY <1>6, <2>1, GivenKept DEF CanAdvance
  <1>7. CASE f = PaidFor(e)
    BY <1>7, PaidLeaves
  <1> QED
    BY <1>1, <1>2, <1>3, <1>4, <1>5, <1>6, <1>7 DEF Called, Changed

\* Where the deposit stage was reached and signed, paying again signs the deposit over
\* at most.
LEMMA PaidSettled ==
    ASSUME NEW e \in Good, Rank[e.stage] >= Rank["deposit_received"],
           "deposit" \in e.given
    PROVE  PaidFor(e) = IF e.stage = "deposit_received"
                        THEN [e EXCEPT !.overwritten = @ \cup {"deposit"}]
                        ELSE e
  <1>1. Tried(e, "client_approval") = e
    <2>1. Rank["client_approval"] = 7 /\ Rank["deposit_received"] = 8
      BY DEF Rank
    <2>2. Rank[e.stage] \in Nat
      BY DEF Good, Record, Stage, Rank
    <2>3. ~CanAdvance(e, "client_approval")
      BY <2>1, <2>2 DEF CanAdvance
    <2> QED
      BY <2>3 DEF Tried
  <1>2. CASE e.stage = "deposit_received"
    <2>1. Signs("deposit_received") = {"deposit"}
      BY DEF Signs
    <2>2. e.eligible \in BOOLEAN /\ e \in Record
      BY DEF Good, Record
    <2>3. Advanced(e, "deposit_received") = [e EXCEPT !.overwritten = @ \cup {"deposit"}]
      <3>1. e.given \cup {"deposit"} = e.given /\ e.given \cap {"deposit"} = {"deposit"}
        OBVIOUS
      <3>2. (e.eligible \/ "deposit_received" = "factory_ready") = e.eligible
        BY <2>2
      <3>3. Advanced(e, "deposit_received") =
              [e EXCEPT !.stage = e.stage, !.given = e.given,
                        !.overwritten = e.overwritten \cup {"deposit"},
                        !.approved = e.approved, !.eligible = e.eligible]
        BY <1>2, <2>1, <2>2, <3>1, <3>2 DEF Advanced, Record
      <3> QED
        BY <2>2, <3>3 DEF Record
    <2>4. CanAdvance(e, "deposit_received")
      BY <1>2 DEF CanAdvance, Rank
    <2> QED
      BY <1>1, <1>2, <2>3, <2>4 DEF PaidFor, Tried
  <1>3. CASE e.stage # "deposit_received"
    <2>1. ~(Rank["deposit_received"] >= Rank[e.stage])
      BY <1>3 DEF Good, Record, Stage, Rank
    <2> QED
      BY <1>1, <1>3, <2>1 DEF PaidFor, Tried, CanAdvance
  <1> QED
    BY <1>2, <1>3

LEMMA AlwaysWarm == Spec => []WarmInv
  <1>1. Init => WarmInv
    BY DEF Init, WarmInv, Idle
  <1> QED
    BY <1>1, WarmAlways, AlwaysGood, PTL DEF Spec

\* Whatever the instances, requests and interleavings, an instance that goes on
\* serving forgets an approval only when a consulting call saves the record it held.
THEOREM ApprovalsAreKept == Spec => ApprovalsKept
  <1>1. ASSUME IInv, WarmInv, [Next]_vars, NEW i \in Instances, NEW x \in Engagements,
               Has(i, x), warm'[i]
        PROVE  \/ files[i][x].given \subseteq files'[i][x].given
               \/ \E r \in Requests : Resumes(r, i, x)
    <2>1. files[i][x] \in Good
      BY <1>1, HasGood
    <2>2. \A f \in Called(files[i][x]) : files[i][x].given \subseteq f.given
      BY <2>1, CalledKeeps
    <2> QED
      BY <1>1, <2>2, RecordStep
  <1> DEFINE Kept == \A i \in Instances, x \in Engagements :
                        Has(i, x) /\ warm'[i] =>
                           \/ files[i][x].given \subseteq files'[i][x].given
                           \/ \E r \in Requests : Resumes(r, i, x)
  <1>2. IInv /\ WarmInv /\ [Next]_vars => Kept
    BY <1>1
  <1>3. IInv /\ WarmInv /\ [Next]_vars => [Kept]_vars
    BY <1>2
  <1> QED
    BY <1>3, AlwaysGood, AlwaysWarm, PTL DEF Spec, ApprovalsKept

\* Governance goes back only to a stage whose work is done anew, or with such an
\* older record.
THEOREM StagesGoForward == Spec => StagesForward
  <1>1. ASSUME IInv, WarmInv, [Next]_vars, NEW i \in Instances, NEW x \in Engagements,
               Has(i, x), warm'[i]
        PROVE  \/ Rank[files'[i][x].stage] >= Rank[files[i][x].stage]
               \/ files'[i][x].stage \in
                     {"business_analysis", "solution_design", "commercial_review"}
               \/ \E r \in Requests : Resumes(r, i, x)
    <2>1. files[i][x] \in Good
      BY <1>1, HasGood
    <2>2. \A f \in Called(files[i][x]) :
             f.stage \in DoneAnew \/ Rank[f.stage] >= Rank[files[i][x].stage]
      BY <2>1, CalledKeeps
    <2>3. Rank[files[i][x].stage] >= Rank[files[i][x].stage]
      BY <2>1 DEF Good, Record, Stage, Rank
    <2> QED
      BY <1>1, <2>2, <2>3, RecordStep DEF DoneAnew
  <1> DEFINE Forward == \A i \in Instances, x \in Engagements :
                        Has(i, x) /\ warm'[i] =>
                           \/ Rank[files'[i][x].stage] >= Rank[files[i][x].stage]
                           \/ files'[i][x].stage \in
                                 {"business_analysis", "solution_design", "commercial_review"}
                           \/ \E r \in Requests : Resumes(r, i, x)
  <1>2. IInv /\ WarmInv /\ [Next]_vars => Forward
    BY <1>1
  <1>3. IInv /\ WarmInv /\ [Next]_vars => [Forward]_vars
    BY <1>2
  <1> QED
    BY <1>3, AlwaysGood, AlwaysWarm, PTL DEF Spec, StagesForward

\* A step in which a request leaves the table of deposits for an upsert is the
\* webhook's own.
LEMMA OnlyPaid ==
    ASSUME IInv, [Next]_vars, NEW r \in Requests, request[r].at = "recorded",
           request'[r].at = "upsert"
    PROVE  AdvancePaid(r)
  <1>0. DOMAIN request = Requests
    BY DEF IInv, RecordsGood
  <1>1. request[r] # Idle
    BY DEF Idle
  <1>2. ASSUME NEW i \in Instances, NEW x \in Engagements, NEW q \in Requests, NEW e,
               NEW acks, Save(q, i, x, e, acks), q # r
        PROVE  FALSE
    BY <1>2, SaveOne
  <1>3. ASSUME NEW i \in Instances, Hydrate(i) \/ Recycle(i) PROVE FALSE
    <2>1. ~Hydrate(i)
      BY DEF Hydrate
    <2>2. Orphaned(request[r]) = Idle
      BY DEF Orphaned
    <2>3. Recycle(i) => request'[r] \in {request[r], Idle}
      BY <2>2 DEF Recycle
    <2> QED
      BY <1>3, <2>1, <2>3 DEF Idle
  <1>4. ASSUME NEW q \in Requests, \/ Land(q) \/ Lose(q) \/ RecordDeposit(q) PROVE FALSE
    <2>1. q # r
      BY <1>4 DEF Land, Lose, RecordDeposit
    <2> QED
      BY <1>0, <1>4, <2>1 DEF Land, Lose, RecordDeposit
  <1>5. ASSUME NEW q \in Requests, Resume(q) PROVE FALSE
    <2>1. /\ request[q].inst \in Instances /\ request[q].eng \in Engagements /\ q # r
      BY <1>5, Waits DEF Resume
    <2> QED
      BY <1>2, <1>5, <2>1 DEF Resume
  <1>6. ASSUME NEW q \in Requests, AdvancePaid(q), q # r PROVE FALSE
    BY <1>6, PaidOne
  <1>7. ASSUME NEW q \in Requests, NEW i \in Instances, Touch(q, i) PROVE FALSE
    <2>1. q # r
      BY <1>1, <1>7 DEF Touch, Begins
    <2> QED
      BY <1>0, <1>7, <2>1 DEF Touch
  <1>8. ASSUME NEW q \in Requests, NEW i \in Instances, NEW x \in Engagements
        PROVE  /\ ~Create(q, i, x)
               /\ ~Convert(q, i, x)
               /\ ~Edit(q, i, x)
               /\ \A s \in Stage : ~Advance(q, i, x, s)
               /\ \A call \in Consultations : ~Ask(q, i, x, call)
               /\ ~Webhook(q, i, x)
    <2>1. Begins(q, i) => q # r
      BY <1>1 DEF Begins
    <2>2. ~Create(q, i, x) /\ ~Edit(q, i, x) /\ \A s \in Stage : ~Advance(q, i, x, s)
      BY <1>2, <2>1 DEF Create, Edit, Advance
    <2>3. ~Convert(q, i, x) /\ \A call \in Consultations : ~Ask(q, i, x, call)
      BY <1>0, <2>1 DEF Convert, Ask
    <2>4. ~Webhook(q, i, x)
      BY <1>0, <1>1 DEF Webhook
    <2> QED
      BY <2>2, <2>3, <2>4
  <1>9. ~UNCHANGED vars
    BY DEF vars
  <1> QED
    BY <1>3, <1>4, <1>5, <1>6, <1>7, <1>8, <1>9 DEF Next

\* A payment event that comes again at most signs the deposit over, and only at the
\* deposit stage: no stage, approval, design or other engagement is touched.
THEOREM RepeatsAreContained == Spec => RepeatsContained
  <1> DEFINE Signed(q) == [files EXCEPT ![q.inst][q.eng].overwritten = @ \cup {"deposit"}]
  <1>1. ASSUME IInv, [Next]_vars, NEW r \in Requests,
               request[r].at = "recorded", request'[r].at = "upsert",
               Has(request[r].inst, request[r].eng),
               Rank[files[request[r].inst][request[r].eng].stage]
                  >= Rank["deposit_received"],
               "deposit" \in files[request[r].inst][request[r].eng].given
        PROVE  files' = IF files[request[r].inst][request[r].eng].stage = "deposit_received"
                        THEN Signed(request[r]) ELSE files
    <2> PICK i, x, e : i = request[r].inst /\ x = request[r].eng /\ e = files[i][x]
      OBVIOUS
    <2>1. i \in Instances /\ x \in Engagements
      BY <1>1, Waits
    <2>2. e \in Good /\ e # NoRecord
      BY <1>1, <2>1, HasGood DEF Has
    <2>3. PaidFor(e) = IF e.stage = "deposit_received"
                       THEN [e EXCEPT !.overwritten = @ \cup {"deposit"}]
                       ELSE e
      BY <1>1, <2>2, PaidSettled
    <2>4. files' = [files EXCEPT ![i] = [files[i] EXCEPT ![x] = PaidFor(e)]]
      BY <1>1, <2>2, OnlyPaid DEF AdvancePaid
    <2>5. files \in [Instances -> [Engagements -> Good \cup {NoRecord}]]
      BY <1>1 DEF IInv, RecordsGood, GoodStore
    <2>6. CASE e.stage = "deposit_received"
      BY <2>1, <2>3, <2>4, <2>5, <2>6
    <2>7. CASE e.stage # "deposit_received"
      <3>1. [files[i] EXCEPT ![x] = e] = files[i]
        BY <2>1, <2>5
      <3> QED
        BY <2>1, <2>3, <2>4, <2>5, <2>7, <3>1
    <2> QED
      BY <2>6, <2>7
  <1> DEFINE Contained == \A r \in Requests :
            LET q == request[r]
                e == files[q.inst][q.eng]
            IN  /\ q.at = "recorded"
                /\ request'[r].at = "upsert"
                /\ Has(q.inst, q.eng)
                /\ Rank[e.stage] >= Rank["deposit_received"]
                /\ "deposit" \in e.given
                => files' = IF e.stage = "deposit_received"
                            THEN [files EXCEPT ![q.inst][q.eng].overwritten = @ \cup {"deposit"}]
                            ELSE files
  <1>2. IInv /\ [Next]_vars => Contained
    BY <1>1
  <1>3. IInv /\ [Next]_vars => [Contained]_vars
    BY <1>2
  <1> QED
    BY <1>3, AlwaysGood, PTL DEF Spec, RepeatsContained

=============================================================================
