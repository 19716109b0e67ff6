------------------------ MODULE ExchangeAlone_proofs ------------------------
(***************************************************************************)
(* What ExchangeProcesses keeps when one command ends before the next is   *)
(* given, whichever of them are killed, for every choice of its constants. *)
(***************************************************************************)
EXTENDS ExchangeProcesses_proofs

-----------------------------------------------------------------------------
(* What one call at a time knows. *)

\* The steps at which a call holds a copy of its job, and those at which it has
\* found it open to offers.
Holding == OnJob \ {"accept_job", "settle_load", "settle_record"}
Taking == {"offer_save", "offer_job", "accept_route", "accept_deal"} \cup Awarding

OneRuns == \A p, q \in Procs: pc[p] # "idle" /\ pc[q] # "idle" => p = q

\* A call at this step, with this in its memory, finds the files as it left them.
Fits(step, m) ==
  /\ step \in Holding => m.copy = jobs[m.job]
  /\ step \in Taking => m.copy.status \in {"POSTED", "OFFERED"}
  /\ step = "result_save" => m.copy.status = "ACCEPTED"
  /\ step = "verify_save" => m.copy.status = "RESULT_SUBMITTED"
  /\ step = "refund_save" => m.copy.status \in {"ACCEPTED", "RESULT_SUBMITTED", "FAILED"}
  /\ step \in Settle => m.copy.status = "VERIFIED"
  /\ step \in {"accept_list", "accept_decline"} => offers[m.offer].status = "ACCEPTED"
  /\ step = "accept_decline" => m.todo = ListOffers(m.job, "OPEN")
  /\ step \in {"settle_meta", "identity_meta"} => m.key = pem
  /\ step = "settle_receipt" => m.key = m.did
  /\ step = "settle_job" => /\ receipts[m.job].payout = m.payout
                            /\ receipts[m.job].deal = m.copy.deal
  /\ step = "identity_pem" => NoIdentity

\* A job that still takes offers has no deal.
OpenHasNoDeal ==
  \A j \in JobIds: jobs[j].status \in {"ABSENT", "POSTED", "OFFERED"} => jobs[j].deal = None

\* The only DID there ever is belongs to the key there is.
OneKey == MetadataOnFile => meta = pem

\* The two invariants, without their hypothesis.
Closed ==
  \A j \in JobIds:
    jobs[j].deal # None =>
      offers[jobs[j].offer].status = "ACCEPTED" /\ ListOffers(j, "OPEN") = {}

Signed ==
  \A j \in JobIds:
    /\ receipts[j].key = receipts[j].did
    /\ jobs[j].status = "COMPLETED" =>
         /\ receipts[j].payout = jobs[j].receipt
         /\ receipts[j].deal = jobs[j].deal

Orderly == OpenHasNoDeal /\ OneKey /\ Closed /\ Signed

Calm == alone => OneRuns /\ Orderly /\ \A p \in Procs: Fits(pc[p], mem[p])

Whole == Sound /\ Filed /\ Calm

\* The next-state relation, by process.
Step(p) ==
  Submitting(p) \/ Accepting(p) \/ Concluding(p) \/ CreatingIdentity(p) \/ Killed(p)

-----------------------------------------------------------------------------
(* Steps. *)

\* A process that takes a step was the one that ran, or nothing ran.
LEMMA OthersIdle ==
  ASSUME alone, OneRuns, NEW p \in Procs, Step(p)
  PROVE  \A q \in Procs \ {p}: pc[q] = "idle"
<1>1. pc[p] # "idle" \/ MayBegin(p)
  BY DEF Step, Submitting, Accepting, Concluding, CreatingIdentity, Killed, At,
         PostJob, OfferReadsJob, ResultReadsJob, VerifyReadsJob, RefundReadsJob,
         SettleReadsJob, BeginOnJob, OfferIsSaved, OfferedIsSaved, ResultIsSaved,
         AcceptReadsOffer, DeclinedIsSaved, AcceptReadsJob, AcceptRoutes, DealIsSaved,
         AcceptedOfferIsSaved, AcceptListsOthers, AcceptedIsSaved, VerdictIsSaved,
         RefundedIsSaved, SettlePays, SettleReadsKey, SettleReadsDid, ReceiptIsSaved,
         CompletedIsSaved, ProfileIsLoaded, ProfileIsSaved, InitIdentity, KeyIsWritten,
         MetadataIsWritten
<1>2. CASE pc[p] # "idle"
  BY <1>2 DEF OneRuns
<1>3. CASE MayBegin(p)
  BY <1>3 DEF MayBegin, At
<1> QED
  BY <1>1, <1>2, <1>3

\* A call that has ended knows nothing.
LEMMA IdleFits == ASSUME NEW m PROVE Fits("idle", m)
BY DEF Fits, Holding, OnJob, Taking, Awarding, Settle

LEMMA IdleFitsNext == ASSUME NEW m PROVE Fits("idle", m)'
BY DEF Fits, Holding, OnJob, Taking, Awarding, Settle

\* What the moving process leaves in order is in order.
LEMMA TidyIsCalm ==
  ASSUME alone, Calm, NEW p \in Procs, Step(p), Sane(p), Orderly', Fits(pc[p], mem[p])'
  PROVE  Calm'
<1>1. \A q \in Procs \ {p}: pc'[q] = "idle"
  BY OthersIdle DEF Calm, Sane
<1>2. OneRuns'
  BY <1>1 DEF OneRuns
<1>3. ASSUME NEW q \in Procs, q # p
      PROVE  Fits(pc[q], mem[q])'
  <2>1. pc'[q] = "idle"
    BY <1>1, <1>3
  <2>2. PICK m: m = mem'[q]
    OBVIOUS
  <2>3. Fits("idle", m)'
    BY IdleFitsNext
  <2> QED
    BY <2>1, <2>2, <2>3
<1> QED
  BY <1>2, <1>3 DEF Calm

\* Untouched files stay in order.
LEMMA ReadingIsOrderly ==
  ASSUME Orderly, UNCHANGED <<store, identityFiles>>
  PROVE  Orderly'
BY DEF Orderly, OpenHasNoDeal, OneKey, MetadataOnFile, Closed, ListOffers, Signed, store,
       identityFiles

\* What a call at some step knows in its new place.
LEMMA GoesTo ==
  ASSUME CallsType, NEW p \in Procs, NEW step, NEW m, Go(p, step, m), Fits(step, m)'
  PROVE  Fits(pc[p], mem[p])'
<1>1. pc'[p] = step /\ mem'[p] = m
  BY DEF Go, CallsType
<1> QED
  BY <1>1

LEMMA Ends ==
  ASSUME CallsType, NEW p \in Procs, End(p)
  PROVE  Fits(pc[p], mem[p])'
BY GoesTo, IdleFitsNext DEF End

\* While nothing else runs.
Quiet == alone /\ Whole
Tidy(p) == Orderly' /\ Fits(pc[p], mem[p])'

LEMMA AtStepAlone ==
  ASSUME Quiet, NEW p \in Procs, NEW step, At(p, step)
  PROVE  /\ mem[p] \in Mem /\ mem[p].copy \in Job
         /\ Backs(step, mem[p]) /\ Fits(step, mem[p])
         /\ FilesType /\ CallsType /\ Orderly
BY AtStep DEF Quiet, Whole, Calm, At

LEMMA QuietTypes == Quiet => Sound /\ Filed /\ FilesType /\ CallsType /\ Orderly
BY TypesSplit DEF Quiet, Whole, Sound, Calm

\* A call that only reads.
LEMMA ReadingTidy ==
  ASSUME Quiet, NEW p \in Procs, NEW step, NEW m, Go(p, step, m),
         UNCHANGED <<store, identityFiles>>, Fits(step, m)
  PROVE  Tidy(p)
<1>1. Fits(step, m)'
  BY DEF Fits, ListOffers, NoIdentity, store, identityFiles
<1> QED
  BY <1>1, GoesTo, ReadingIsOrderly, QuietTypes DEF Tidy

LEMMA EndingTidy ==
  ASSUME Quiet, NEW p \in Procs, End(p), UNCHANGED <<store, identityFiles>>
  PROVE  Tidy(p)
BY IdleFits, ReadingTidy DEF End

\* A job that moves on with the offer and the deal it has.
LEMMA SavingIsOrderly ==
  ASSUME Orderly, FilesType, NEW p \in Procs, NEW job \in Job, SaveJob(p, job),
         mem[p].job \in JobIds,
         job.deal = jobs[mem[p].job].deal, job.offer = jobs[mem[p].job].offer,
         job.status \in {"ABSENT", "POSTED", "OFFERED"} => job.deal = None,
         job.status # "COMPLETED"
  PROVE  Orderly'
<1> USE DEF SaveJob, FilesType, Orderly
<1>1. OpenHasNoDeal'
  BY DEF OpenHasNoDeal
<1>2. OneKey'
  BY DEF OneKey, MetadataOnFile, identityFiles
<1>3. Closed'
  <2>1. \A j \in JobIds: jobs'[j].deal = jobs[j].deal /\ jobs'[j].offer = jobs[j].offer
    OBVIOUS
  <2> QED
    BY <2>1 DEF Closed, ListOffers
<1>4. Signed'
  BY DEF Signed
<1> QED
  BY <1>1, <1>2, <1>3, <1>4

\* Every method that starts from a job finds it in a status of ALLOWED.
LEMMA BeginOnJobTidy ==
  ASSUME Quiet, NEW p \in Procs, NEW j \in JobIds,
         \/ OfferReadsJob(p, j) \/ ResultReadsJob(p, j) \/ VerifyReadsJob(p, j)
         \/ RefundReadsJob(p, j) \/ SettleReadsJob(p, j)
  PROVE  Tidy(p)
<1> DEFINE m == [NoMem EXCEPT !.job = j, !.copy = jobs[j]]
<1>1. m.job = j /\ m.copy = jobs[j]
  BY DEF NoMem
<1> HIDE DEF m
<1>2. CASE OfferReadsJob(p, j)
  <2>1. Go(p, "offer_save", m) /\ UNCHANGED <<store, identityFiles>>
    BY <1>2 DEF OfferReadsJob, BeginOnJob, m
  <2>2. Fits("offer_save", m)
    BY <1>1, <1>2
    DEF OfferReadsJob, BeginOnJob, ALLOWED, Fits, Holding, Taking, Awarding, Settle, OnJob, Steps
  <2> QED
    BY <2>1, <2>2, ReadingTidy
<1>3. CASE ResultReadsJob(p, j)
  <2>1. Go(p, "result_save", m) /\ UNCHANGED <<store, identityFiles>>
    BY <1>3 DEF ResultReadsJob, BeginOnJob, m
  <2>2. Fits("result_save", m)
    BY <1>1, <1>3
    DEF ResultReadsJob, BeginOnJob, ALLOWED, Fits, Holding, Taking, Awarding, Settle, OnJob, Steps
  <2> QED
    BY <2>1, <2>2, ReadingTidy
<1>4. CASE VerifyReadsJob(p, j)
  <2>1. Go(p, "verify_save", m) /\ UNCHANGED <<store, identityFiles>>
    BY <1>4 DEF VerifyReadsJob, BeginOnJob, m
  <2>2. Fits("verify_save", m)
    BY <1>1, <1>4
    DEF VerifyReadsJob, BeginOnJob, ALLOWED, Fits, Holding, Taking, Awarding, Settle, OnJob, Steps
  <2> QED
    BY <2>1, <2>2, ReadingTidy
<1>5. CASE RefundReadsJob(p, j)
  <2>1. Go(p, "refund_save", m) /\ UNCHANGED <<store, identityFiles>>
    BY <1>5 DEF RefundReadsJob, BeginOnJob, m
  <2>2. Fits("refund_save", m)
    BY <1>1, <1>5
    DEF RefundReadsJob, BeginOnJob, ALLOWED, Fits, Holding, Taking, Awarding, Settle, OnJob, Steps
  <2> QED
    BY <2>1, <2>2, ReadingTidy
<1>6. CASE SettleReadsJob(p, j)
  <2>1. Go(p, "settle_pay", m) /\ UNCHANGED <<store, identityFiles>>
    BY <1>6 DEF SettleReadsJob, BeginOnJob, m
  <2>2. Fits("settle_pay", m)
    BY <1>1, <1>6
    DEF SettleReadsJob, BeginOnJob, ALLOWED, Fits, Holding, Taking, Awarding, Settle, OnJob, Steps
  <2> QED
    BY <2>1, <2>2, ReadingTidy
<1> QED
  BY <1>2, <1>3, <1>4, <1>5, <1>6

(* post_job, submit_offer, submit_result *)

LEMMA PostJobTidy ==
  ASSUME Quiet, NEW p \in Procs, NEW j \in JobIds, NEW a \in Dids, PostJob(p, j, a)
  PROVE  Tidy(p)
<1>1. FilesType /\ CallsType /\ Orderly
  BY QuietTypes
<1>2. PICK job: job = [NoJob EXCEPT !.status = "POSTED", !.buyer = a]
  OBVIOUS
<1>3. job.deal = None /\ job.status = "POSTED"
  BY <1>2 DEF NoJob
<1>4. jobs' = [jobs EXCEPT ![j] = job] /\ UNCHANGED <<offers, receipts, identityFiles>>
  BY <1>2 DEF PostJob
<1>5. Orderly'
  BY <1>1, <1>3, <1>4
  DEF FilesType, Orderly, OpenHasNoDeal, OneKey, MetadataOnFile, identityFiles, Closed,
      ListOffers, Signed
<1>6. pc'[p] = "idle"
  BY DEF PostJob, MayBegin, At
<1> QED
  BY <1>5, <1>6, IdleFitsNext DEF Tidy

\* A job with a deal has its offer on file.
LEMMA DealtHasOffer ==
  ASSUME Quiet, NEW j \in JobIds, jobs[j].deal # None
  PROVE  /\ jobs[j].offer \in OfferIds /\ offers[jobs[j].offer] # NoOffer
         /\ offers[jobs[j].offer].job = j
<1>1. /\ deals[jobs[j].deal] = [job |-> j, offer |-> jobs[j].offer]
      /\ offers[jobs[j].offer].job = j
  BY QuietTypes DEF Filed, ReferencesOnFile
<1>2. jobs[j].deal \in DealIds
  BY QuietTypes DEF FilesType, Job
<1>3. deals[jobs[j].deal].job = j /\ deals[jobs[j].deal].offer = jobs[j].offer
  BY <1>1
<1>4. deals[jobs[j].deal] # NoDeal
  BY <1>3, ProcessAssumption DEF NoDeal
<1>5. jobs[j].offer \in OfferIds
  BY <1>2, <1>3, <1>4, QuietTypes DEF FilesType, Deal
<1>6. offers[jobs[j].offer] # NoOffer
  BY <1>1, ProcessAssumption DEF NoOffer
<1> QED
  BY <1>1, <1>5, <1>6

LEMMA OfferIsSavedTidy ==
  ASSUME Quiet, NEW p \in Procs, NEW o \in OfferIds, NEW a \in Dids, OfferIsSaved(p, o, a)
  PROVE  Tidy(p)
<1>1. /\ mem[p] \in Mem /\ Backs("offer_save", mem[p]) /\ Fits("offer_save", mem[p])
      /\ FilesType /\ CallsType /\ Orderly /\ offers[o] = NoOffer
  BY AtStepAlone DEF OfferIsSaved
<1>2. mem[p].job \in JobIds /\ jobs[mem[p].job].deal = None
  BY <1>1
  DEF Backs, OnJob, Steps, Fits, Holding, Taking, Orderly, OpenHasNoDeal
<1>3. PICK e: e = [status |-> "OPEN", job |-> mem[p].job, seller |-> a]
  OBVIOUS
<1>4. /\ offers' = [offers EXCEPT ![o] = e] /\ e.job = mem[p].job
      /\ UNCHANGED <<jobs, deals, receipts, profiles, paid, identityFiles>>
  BY <1>3 DEF OfferIsSaved
<1>5. Closed'
  <2>1. ASSUME NEW j \in JobIds, jobs[j].deal # None
        PROVE  offers'[jobs[j].offer].status = "ACCEPTED" /\ ListOffers(j, "OPEN")' = {}
    <3>1. jobs[j].offer # o /\ jobs[j].offer \in OfferIds /\ j # mem[p].job
      BY <1>1, <1>2, <2>1, DealtHasOffer
    <3>2. offers[jobs[j].offer].status = "ACCEPTED" /\ ListOffers(j, "OPEN") = {}
      BY <1>1, <2>1 DEF Orderly, Closed
    <3>3. \A x \in OfferIds: ~(offers'[x].job = j /\ offers'[x].status = "OPEN")
      BY <1>1, <1>4, <3>1, <3>2 DEF FilesType, ListOffers
    <3> QED
      BY <1>1, <1>4, <3>1, <3>2, <3>3 DEF FilesType, ListOffers
  <2> QED
    BY <1>4, <2>1 DEF Closed
<1>6. Orderly'
  BY <1>1, <1>4, <1>5
  DEF Orderly, OpenHasNoDeal, OneKey, MetadataOnFile, identityFiles, Signed
<1>7. Go(p, "offer_job", mem[p])
  BY DEF OfferIsSaved
<1>8. PICK m: m = mem[p]
  OBVIOUS
<1>9. Fits("offer_job", m)'
  BY <1>1, <1>4, <1>8 DEF Fits, Holding, OnJob, Steps, Taking, Awarding, Settle
<1> QED
  BY <1>1, <1>6, <1>7, <1>8, <1>9, GoesTo DEF Tidy

LEMMA OfferedIsSavedTidy ==
  ASSUME Quiet, NEW p \in Procs, OfferedIsSaved(p)
  PROVE  Tidy(p)
<1>1. /\ mem[p].copy \in Job /\ Backs("offer_job", mem[p]) /\ Fits("offer_job", mem[p])
      /\ FilesType /\ CallsType /\ Orderly
  BY AtStepAlone DEF OfferedIsSaved
<1>2. /\ mem[p].job \in JobIds /\ mem[p].copy = jobs[mem[p].job]
      /\ jobs[mem[p].job].deal = None
  BY <1>1 DEF Backs, OnJob, Steps, Fits, Holding, Taking, Orderly, OpenHasNoDeal
<1>3. PICK job \in Job: job = [mem[p].copy EXCEPT !.status = "OFFERED"]
  BY <1>1 DEF Job, JobStatus
<1>4. job.status = "OFFERED" /\ job.deal = mem[p].copy.deal /\ job.offer = mem[p].copy.offer
  BY <1>1, <1>3 DEF Job
<1>5. SaveJob(p, job) /\ End(p)
  BY <1>3 DEF OfferedIsSaved
<1>6. Orderly'
  BY <1>1, <1>2, <1>4, <1>5, SavingIsOrderly
<1> QED
  BY <1>1, <1>5, <1>6, Ends DEF Tidy

\* submit_result, verify and refund save the job in a status without offers.
LEMMA MovesOnTidy ==
  ASSUME Quiet, NEW p \in Procs, NEW step \in {"result_save", "verify_save", "refund_save"},
         At(p, step), NEW status \in {"RESULT_SUBMITTED", "VERIFIED", "FAILED", "REFUNDED"},
         SaveJob(p, [mem[p].copy EXCEPT !.status = status]), End(p)
  PROVE  Tidy(p)
<1>1. /\ mem[p].copy \in Job /\ Backs(step, mem[p]) /\ Fits(step, mem[p])
      /\ FilesType /\ CallsType /\ Orderly
  BY AtStepAlone
<1>2. mem[p].job \in JobIds /\ mem[p].copy = jobs[mem[p].job]
  BY <1>1 DEF Backs, OnJob, Steps, Fits, Holding
<1>3. PICK job \in Job: job = [mem[p].copy EXCEPT !.status = status]
  BY <1>1 DEF Job, JobStatus
<1>4. job.status = status /\ job.deal = mem[p].copy.deal /\ job.offer = mem[p].copy.offer
  BY <1>1, <1>3 DEF Job
<1>5. SaveJob(p, job)
  BY <1>3
<1>6. Orderly'
  BY <1>1, <1>2, <1>4, <1>5, SavingIsOrderly
<1> QED
  BY <1>1, <1>6, Ends DEF Tidy

LEMMA SubmittingTidy ==
  ASSUME Quiet, NEW p \in Procs, Submitting(p)
  PROVE  Tidy(p)
<1>1. ResultIsSaved(p) => Tidy(p)
  BY MovesOnTidy DEF ResultIsSaved
<1> QED
  BY <1>1, PostJobTidy, BeginOnJobTidy, OfferIsSavedTidy, OfferedIsSavedTidy DEF Submitting

(* accept_offer *)

\* An offer gets another status while its job has no deal.
LEMMA OfferStatusIsOrderly ==
  ASSUME Quiet, NEW o \in OfferIds, NEW status \in {"ACCEPTED", "DECLINED"},
         offers[o].status # "ACCEPTED" \/ status = "ACCEPTED",
         offers' = [offers EXCEPT ![o].status = status],
         UNCHANGED <<jobs, deals, receipts, profiles, paid, identityFiles>>,
         offers[o] # NoOffer
  PROVE  /\ Orderly'
         /\ offers'[o].status = status
         /\ \A x \in OfferIds \ {o}: offers'[x] = offers[x]
         /\ \A j: ListOffers(j, "OPEN")' = ListOffers(j, "OPEN") \ {o}
<1>1. FilesType /\ Orderly
  BY QuietTypes
<1>2. offers[o] \in Offer
  BY <1>1 DEF FilesType
<1>3. PICK e: e = [offers[o] EXCEPT !.status = status]
  OBVIOUS
<1>4. e.status = status /\ offers' = [offers EXCEPT ![o] = e]
  BY <1>2, <1>3 DEF Offer
<1>5. offers'[o] = e /\ \A x \in OfferIds \ {o}: offers'[x] = offers[x]
  BY <1>1, <1>4 DEF FilesType
<1>6. \A j: ListOffers(j, "OPEN")' = ListOffers(j, "OPEN") \ {o}
  BY <1>4, <1>5 DEF ListOffers
<1>7. Closed'
  BY <1>1, <1>4, <1>5, <1>6, DealtHasOffer DEF Orderly, Closed
<1>8. Orderly'
  BY <1>1, <1>7
  DEF Orderly, OpenHasNoDeal, OneKey, MetadataOnFile, identityFiles, Signed
<1> QED
  BY <1>4, <1>5, <1>6, <1>8

LEMMA AcceptReadsOfferTidy ==
  ASSUME Quiet, NEW p \in Procs, NEW o \in OfferIds, AcceptReadsOffer(p, o)
  PROVE  Tidy(p)
<1>1. PICK m: m = [NoMem EXCEPT !.job = offers[o].job, !.offer = o, !.seen = offers[o].status]
  OBVIOUS
<1>2. Go(p, "accept_job", m) /\ UNCHANGED <<store, identityFiles>>
  BY <1>1 DEF AcceptReadsOffer
<1>3. Fits("accept_job", m)
  BY DEF Fits, Holding, Taking, Awarding, Settle
<1> QED
  BY <1>2, <1>3, ReadingTidy

LEMMA AcceptReadsJobTidy ==
  ASSUME Quiet, NEW p \in Procs, AcceptReadsJob(p)
  PROVE  Tidy(p)
<1>1. /\ mem[p] \in Mem /\ Backs("accept_job", mem[p])
      /\ UNCHANGED <<store, identityFiles>>
  BY AtStepAlone DEF AcceptReadsJob
<1>2. PICK job: job = jobs[mem[p].job]
  OBVIOUS
<1>3. CASE job.status \in ALLOWED.accept_offer /\ mem[p].seen = "OPEN"
  <2>1. PICK m: m = [mem[p] EXCEPT !.copy = job]
    OBVIOUS
  <2>2. Go(p, "accept_route", m)
    BY <1>2, <1>3, <2>1 DEF AcceptReadsJob
  <2>3. m.copy = jobs[m.job] /\ m.copy.status \in {"POSTED", "OFFERED"}
    BY <1>1, <1>2, <1>3, <2>1 DEF Mem, ALLOWED
  <2>4. Fits("accept_route", m)
    BY <2>3 DEF Fits, Settle
  <2> QED
    BY <1>1, <2>2, <2>4, ReadingTidy
<1>4. CASE ~(job.status \in ALLOWED.accept_offer /\ mem[p].seen = "OPEN")
  BY <1>1, <1>2, <1>4, EndingTidy DEF AcceptReadsJob
<1> QED
  BY <1>3, <1>4

LEMMA AcceptRoutesTidy ==
  ASSUME Quiet, NEW p \in Procs, AcceptRoutes(p)
  PROVE  Tidy(p)
<1>1. Fits("accept_route", mem[p]) /\ UNCHANGED <<store, identityFiles>>
  BY AtStepAlone DEF AcceptRoutes
<1>2. Fits("accept_deal", mem[p])
  BY <1>1 DEF Fits, Holding, OnJob, Steps, Taking, Awarding, Settle
<1>3. Go(p, "accept_deal", mem[p]) \/ End(p)
  BY DEF AcceptRoutes
<1> QED
  BY <1>1, <1>2, <1>3, ReadingTidy, EndingTidy

LEMMA DealIsSavedTidy ==
  ASSUME Quiet, NEW p \in Procs, NEW d \in DealIds, DealIsSaved(p, d)
  PROVE  Tidy(p)
<1>1. /\ mem[p] \in Mem /\ Fits("accept_deal", mem[p])
      /\ CallsType /\ Orderly
      /\ UNCHANGED <<jobs, offers, receipts, profiles, paid, identityFiles>>
  BY AtStepAlone DEF DealIsSaved
<1>2. PICK m: m = [mem[p] EXCEPT !.deal = d]
  OBVIOUS
<1>3. m.copy = mem[p].copy /\ m.job = mem[p].job
  BY <1>1, <1>2 DEF Mem
<1>4. Go(p, "accept_offer", m)
  BY <1>2 DEF DealIsSaved
<1>5. Fits("accept_offer", m)'
  BY <1>1, <1>3 DEF Fits, Holding, OnJob, Steps, Taking, Awarding, Settle
<1>6. Orderly'
  BY <1>1
  DEF Orderly, OpenHasNoDeal, OneKey, MetadataOnFile, Closed, ListOffers, Signed, identityFiles
<1> QED
  BY <1>1, <1>4, <1>5, <1>6, GoesTo DEF Tidy

LEMMA AcceptedOfferIsSavedTidy ==
  ASSUME Quiet, NEW p \in Procs, AcceptedOfferIsSaved(p)
  PROVE  Tidy(p)
<1>1. /\ Backs("accept_offer", mem[p]) /\ Fits("accept_offer", mem[p]) /\ CallsType
      /\ Go(p, "accept_list", mem[p])
      /\ UNCHANGED <<jobs, deals, receipts, profiles, paid, identityFiles>>
  BY AtStepAlone DEF AcceptedOfferIsSaved
<1>2. PICK o: o = mem[p].offer
  OBVIOUS
<1>3. o \in OfferIds /\ offers[o] # NoOffer
  BY <1>1, <1>2 DEF Backs, Accept
<1>4. offers' = [offers EXCEPT ![o].status = "ACCEPTED"]
  BY <1>2 DEF AcceptedOfferIsSaved
<1>5. Orderly' /\ offers'[o].status = "ACCEPTED"
  BY <1>1, <1>3, <1>4, OfferStatusIsOrderly
<1>6. PICK m: m = mem[p]
  OBVIOUS
<1>7. Fits("accept_list", m)'
  BY <1>1, <1>2, <1>5, <1>6 DEF Fits, Holding, OnJob, Steps, Taking, Awarding, Settle
<1> QED
  BY <1>1, <1>5, <1>6, <1>7, GoesTo DEF Tidy

LEMMA AcceptListsOthersTidy ==
  ASSUME Quiet, NEW p \in Procs, AcceptListsOthers(p)
  PROVE  Tidy(p)
<1>1. /\ mem[p] \in Mem /\ Fits("accept_list", mem[p])
      /\ UNCHANGED <<store, identityFiles>>
  BY AtStepAlone DEF AcceptListsOthers
<1>2. PICK m: m = [mem[p] EXCEPT !.todo = ListOffers(mem[p].job, "OPEN") \ {mem[p].offer}]
  OBVIOUS
<1>3. Go(p, "accept_decline", m)
  BY <1>2 DEF AcceptListsOthers
<1>4. /\ m.copy = mem[p].copy /\ m.job = mem[p].job /\ m.offer = mem[p].offer
      /\ m.todo = ListOffers(m.job, "OPEN") \ {m.offer}
  BY <1>1, <1>2 DEF Mem
<1>5. offers[m.offer].status = "ACCEPTED"
  BY <1>1, <1>4 DEF Fits
<1>6. m.todo = ListOffers(m.job, "OPEN")
  BY <1>4, <1>5 DEF ListOffers
<1>7. Fits("accept_decline", m)
  BY <1>1, <1>4, <1>5, <1>6 DEF Fits, Holding, OnJob, Steps, Taking, Awarding, Settle
<1> QED
  BY <1>1, <1>3, <1>7, ReadingTidy

LEMMA DeclinedIsSavedTidy ==
  ASSUME Quiet, NEW p \in Procs, NEW o \in OfferIds, DeclinedIsSaved(p, o)
  PROVE  Tidy(p)
<1>1. /\ mem[p] \in Mem
      /\ Backs("accept_decline", mem[p]) /\ Fits("accept_decline", mem[p]) /\ CallsType
      /\ UNCHANGED <<jobs, deals, receipts, profiles, paid, identityFiles>>
      /\ o \in mem[p].todo /\ offers' = [offers EXCEPT ![o].status = "DECLINED"]
  BY AtStepAlone DEF DeclinedIsSaved
<1>2. /\ offers[o] # NoOffer /\ offers[o].status = "OPEN"
      /\ mem[p].offer \in OfferIds \ {o}
  BY <1>1 DEF Backs, Accept, Fits, ListOffers
<1>3. /\ Orderly' /\ \A x \in OfferIds \ {o}: offers'[x] = offers[x]
      /\ \A j: ListOffers(j, "OPEN")' = ListOffers(j, "OPEN") \ {o}
  BY <1>1, <1>2, OfferStatusIsOrderly
<1>4. PICK m: m = [mem[p] EXCEPT !.todo = @ \ {o}]
  OBVIOUS
<1>5. Go(p, "accept_decline", m)
  BY <1>4 DEF DeclinedIsSaved
<1>6. /\ m.copy = mem[p].copy /\ m.job = mem[p].job /\ m.offer = mem[p].offer
      /\ m.todo = mem[p].todo \ {o}
  BY <1>1, <1>4 DEF Mem
<1>7. m.todo = ListOffers(m.job, "OPEN")'
  BY <1>1, <1>3, <1>6 DEF Fits
<1>8. offers'[m.offer].status = "ACCEPTED"
  BY <1>1, <1>2, <1>3, <1>6 DEF Fits
<1>9. Fits("accept_decline", m)'
  BY <1>1, <1>6, <1>7, <1>8 DEF Fits, Holding, OnJob, Steps, Taking, Awarding, Settle
<1> QED
  BY <1>1, <1>3, <1>5, <1>9, GoesTo DEF Tidy

LEMMA AcceptedIsSavedTidy ==
  ASSUME Quiet, NEW p \in Procs, AcceptedIsSaved(p)
  PROVE  Tidy(p)
<1>1. /\ mem[p] \in Mem /\ mem[p].copy \in Job
      /\ Backs("accept_decline", mem[p]) /\ Fits("accept_decline", mem[p])
      /\ FilesType /\ CallsType /\ Orderly /\ End(p) /\ mem[p].todo = {}
  BY AtStepAlone DEF AcceptedIsSaved
<1>2. /\ mem[p].job \in JobIds /\ mem[p].copy = jobs[mem[p].job]
      /\ offers[mem[p].offer].status = "ACCEPTED"
      /\ ListOffers(mem[p].job, "OPEN") = {}
  BY <1>1 DEF Backs, OnJob, Steps, Fits, Holding
<1>3. PICK job: job = [mem[p].copy EXCEPT !.status = "ACCEPTED", !.offer = mem[p].offer,
                                          !.deal = mem[p].deal]
  OBVIOUS
<1>4. job.status = "ACCEPTED" /\ job.offer = mem[p].offer
  BY <1>1, <1>3 DEF Job
<1>5. /\ jobs' = [jobs EXCEPT ![mem[p].job] = job]
      /\ UNCHANGED <<offers, deals, receipts, profiles, paid, identityFiles>>
  BY <1>3 DEF AcceptedIsSaved, SaveJob
<1>6. jobs'[mem[p].job] = job /\ \A j \in JobIds \ {mem[p].job}: jobs'[j] = jobs[j]
  BY <1>1, <1>2, <1>5 DEF FilesType
<1>7. Closed'
  BY <1>1, <1>2, <1>4, <1>5, <1>6 DEF Orderly, Closed, ListOffers
<1>8. Orderly'
  BY <1>1, <1>4, <1>5, <1>6, <1>7
  DEF Orderly, OpenHasNoDeal, OneKey, MetadataOnFile, identityFiles, Signed
<1> QED
  BY <1>1, <1>8, Ends DEF Tidy

LEMMA AcceptingTidy ==
  ASSUME Quiet, NEW p \in Procs, Accepting(p)
  PROVE  Tidy(p)
BY AcceptReadsOfferTidy, AcceptReadsJobTidy, AcceptRoutesTidy, DealIsSavedTidy,
   AcceptedOfferIsSavedTidy, AcceptListsOthersTidy, DeclinedIsSavedTidy, AcceptedIsSavedTidy
DEF Accepting

(* verify, refund and settle *)

LEMMA ConcludingReadsTidy ==
  ASSUME Quiet, NEW p \in Procs, NEW j \in JobIds,
         VerifyReadsJob(p, j) \/ RefundReadsJob(p, j) \/ SettleReadsJob(p, j)
  PROVE  Tidy(p)
BY BeginOnJobTidy

LEMMA VerdictIsSavedTidy ==
  ASSUME Quiet, NEW p \in Procs, NEW status, VerdictIsSaved(p, status)
  PROVE  Tidy(p)
BY MovesOnTidy DEF VerdictIsSaved

LEMMA RefundedIsSavedTidy ==
  ASSUME Quiet, NEW p \in Procs, RefundedIsSaved(p)
  PROVE  Tidy(p)
BY MovesOnTidy DEF RefundedIsSaved

LEMMA SettlePaysTidy ==
  ASSUME Quiet, NEW p \in Procs, SettlePays(p)
  PROVE  Tidy(p)
<1>1. /\ mem[p] \in Mem /\ Fits("settle_pay", mem[p]) /\ CallsType /\ Orderly
      /\ UNCHANGED <<jobs, offers, deals, receipts, profiles, identityFiles>>
  BY AtStepAlone DEF SettlePays
<1>2. PICK m: m = [mem[p] EXCEPT !.payout = paid[mem[p].job] + 1]
  OBVIOUS
<1>3. m.copy = mem[p].copy /\ m.job = mem[p].job
  BY <1>1, <1>2 DEF Mem
<1>4. Go(p, "settle_key", m)
  BY <1>2 DEF SettlePays
<1>5. Fits("settle_key", m)'
  BY <1>1, <1>3 DEF Fits, Holding, OnJob, Steps, Taking, Awarding, Settle
<1>6. Orderly'
  BY <1>1
  DEF Orderly, OpenHasNoDeal, OneKey, MetadataOnFile, Closed, ListOffers, Signed, identityFiles
<1> QED
  BY <1>1, <1>4, <1>5, <1>6, GoesTo DEF Tidy

LEMMA SettleReadsKeyTidy ==
  ASSUME Quiet, NEW p \in Procs, SettleReadsKey(p)
  PROVE  Tidy(p)
<1>1. /\ mem[p] \in Mem /\ Fits("settle_key", mem[p]) /\ UNCHANGED <<store, identityFiles>>
  BY AtStepAlone DEF SettleReadsKey
<1>2. PICK m: m = [mem[p] EXCEPT !.key = pem]
  OBVIOUS
<1>3. m.copy = mem[p].copy /\ m.job = mem[p].job /\ m.key = pem
  BY <1>1, <1>2 DEF Mem
<1>4. Go(p, "settle_meta", m) \/ End(p)
  BY <1>2 DEF SettleReadsKey
<1>5. Fits("settle_meta", m)
  BY <1>1, <1>3 DEF Fits, Holding, OnJob, Steps, Taking, Awarding, Settle
<1> QED
  BY <1>1, <1>4, <1>5, ReadingTidy, EndingTidy

\* The DID beside the key is the key's: no other pair was ever drawn.
LEMMA SettleReadsDidTidy ==
  ASSUME Quiet, NEW p \in Procs, SettleReadsDid(p)
  PROVE  Tidy(p)
<1>1. /\ mem[p] \in Mem /\ Fits("settle_meta", mem[p]) /\ UNCHANGED <<store, identityFiles>>
      /\ Orderly
  BY AtStepAlone DEF SettleReadsDid
<1>2. CASE ~MetadataOnFile
  BY <1>1, <1>2, EndingTidy DEF SettleReadsDid
<1>3. CASE MetadataOnFile
  <2>1. PICK m: m = [mem[p] EXCEPT !.did = meta]
    OBVIOUS
  <2>2. Go(p, "settle_receipt", m)
    BY <1>3, <2>1 DEF SettleReadsDid
  <2>3. m.copy = mem[p].copy /\ m.job = mem[p].job /\ m.key = mem[p].key /\ m.did = meta
    BY <1>1, <2>1 DEF Mem
  <2>4. m.key = m.did
    BY <1>1, <1>3, <2>3 DEF Fits, Orderly, OneKey
  <2>5. Fits("settle_receipt", m)
    BY <1>1, <2>3, <2>4 DEF Fits, Holding, OnJob, Steps, Taking, Awarding, Settle
  <2> QED
    BY <1>1, <2>2, <2>5, ReadingTidy
<1> QED
  BY <1>2, <1>3

\* The job is still VERIFIED, so that no COMPLETED one loses its receipt.
LEMMA ReceiptIsSavedTidy ==
  ASSUME Quiet, NEW p \in Procs, ReceiptIsSaved(p)
  PROVE  Tidy(p)
<1>1. /\ mem[p] \in Mem /\ Backs("settle_receipt", mem[p]) /\ Fits("settle_receipt", mem[p])
      /\ FilesType /\ CallsType /\ Orderly
      /\ Go(p, "settle_job", mem[p])
      /\ UNCHANGED <<jobs, offers, deals, profiles, paid, identityFiles>>
  BY AtStepAlone DEF ReceiptIsSaved
<1>2. /\ mem[p].job \in JobIds /\ jobs[mem[p].job].status = "VERIFIED"
      /\ mem[p].key = mem[p].did
  BY <1>1 DEF Backs, OnJob, Steps, Fits, Holding, Settle
<1>3. PICK r: r = [deal |-> mem[p].copy.deal, payout |-> mem[p].payout,
                   key |-> mem[p].key, did |-> mem[p].did]
  OBVIOUS
<1>4. /\ r.deal = mem[p].copy.deal /\ r.payout = mem[p].payout /\ r.key = r.did
      /\ receipts' = [receipts EXCEPT ![mem[p].job] = r]
  BY <1>2, <1>3 DEF ReceiptIsSaved
<1>5. receipts'[mem[p].job] = r /\ \A j \in JobIds \ {mem[p].job}: receipts'[j] = receipts[j]
  BY <1>1, <1>2, <1>4 DEF FilesType
<1>6. Signed'
  BY <1>1, <1>2, <1>4, <1>5 DEF Orderly, Signed
<1>7. Orderly'
  BY <1>1, <1>6
  DEF Orderly, OpenHasNoDeal, OneKey, MetadataOnFile, identityFiles, Closed, ListOffers
<1>8. PICK m: m = mem[p]
  OBVIOUS
<1>9. Fits("settle_job", m)'
  BY <1>1, <1>2, <1>4, <1>5, <1>8 DEF Fits, Holding, OnJob, Steps, Taking, Awarding, Settle
<1> QED
  BY <1>1, <1>7, <1>8, <1>9, GoesTo DEF Tidy

LEMMA CompletedIsSavedTidy ==
  ASSUME Quiet, NEW p \in Procs, CompletedIsSaved(p)
  PROVE  Tidy(p)
<1>1. /\ mem[p] \in Mem /\ mem[p].copy \in Job
      /\ Backs("settle_job", mem[p]) /\ Fits("settle_job", mem[p])
      /\ FilesType /\ CallsType /\ Orderly
  BY AtStepAlone DEF CompletedIsSaved
<1>2. /\ mem[p].job \in JobIds /\ mem[p].copy = jobs[mem[p].job]
      /\ receipts[mem[p].job].payout = mem[p].payout
      /\ receipts[mem[p].job].deal = mem[p].copy.deal
  BY <1>1 DEF Backs, OnJob, Steps, Fits, Holding
<1>3. PICK job: job = [mem[p].copy EXCEPT !.status = "COMPLETED", !.receipt = mem[p].payout]
  OBVIOUS
<1>4. /\ job.status = "COMPLETED" /\ job.receipt = mem[p].payout
      /\ job.deal = mem[p].copy.deal /\ job.offer = mem[p].copy.offer
  BY <1>1, <1>3 DEF Job
<1>5. /\ jobs' = [jobs EXCEPT ![mem[p].job] = job]
      /\ UNCHANGED <<offers, deals, receipts, profiles, paid, identityFiles>>
  BY <1>3 DEF CompletedIsSaved, SaveJob
<1>6. jobs'[mem[p].job] = job /\ \A j \in JobIds \ {mem[p].job}: jobs'[j] = jobs[j]
  BY <1>1, <1>2, <1>5 DEF FilesType
<1>7. Closed'
  BY <1>1, <1>2, <1>4, <1>5, <1>6 DEF Orderly, Closed, ListOffers
<1>8. Signed'
  BY <1>1, <1>2, <1>4, <1>5, <1>6 DEF Orderly, Signed
<1>9. Orderly'
  BY <1>1, <1>4, <1>5, <1>6, <1>7, <1>8
  DEF Orderly, OpenHasNoDeal, OneKey, MetadataOnFile, identityFiles
<1>10. PICK m: Go(p, "settle_load", m)
  BY DEF CompletedIsSaved
<1>11. Fits("settle_load", m)'
  BY DEF Fits, Holding, OnJob, Taking, Awarding, Settle
<1> QED
  BY <1>1, <1>9, <1>10, <1>11, GoesTo DEF Tidy

LEMMA ProfileIsLoadedTidy ==
  ASSUME Quiet, NEW p \in Procs, NEW a \in Dids, ProfileIsLoaded(p, a)
  PROVE  Tidy(p)
<1>1. PICK m: Go(p, "settle_record", m) /\ UNCHANGED <<store, identityFiles>>
  BY DEF ProfileIsLoaded
<1>2. Fits("settle_record", m)
  BY DEF Fits, Holding, OnJob, Taking, Awarding, Settle
<1> QED
  BY <1>1, <1>2, ReadingTidy

LEMMA ProfileIsSavedTidy ==
  ASSUME Quiet, NEW p \in Procs, ProfileIsSaved(p)
  PROVE  Tidy(p)
<1>1. /\ CallsType /\ Orderly
      /\ UNCHANGED <<jobs, offers, deals, receipts, paid, identityFiles>>
  BY QuietTypes DEF ProfileIsSaved
<1>2. Orderly'
  BY <1>1
  DEF Orderly, OpenHasNoDeal, OneKey, MetadataOnFile, Closed, ListOffers, Signed, identityFiles
<1>3. PICK m: m = mem[p]
  OBVIOUS
<1>4. Fits("settle_load", m)'
  BY DEF Fits, Holding, OnJob, Taking, Awarding, Settle
<1>5. Go(p, "settle_load", m) \/ End(p)
  BY <1>3 DEF ProfileIsSaved
<1> QED
  BY <1>1, <1>2, <1>4, <1>5, GoesTo, Ends DEF Tidy

LEMMA ConcludingTidy ==
  ASSUME Quiet, NEW p \in Procs, Concluding(p)
  PROVE  Tidy(p)
BY ConcludingReadsTidy, VerdictIsSavedTidy, RefundedIsSavedTidy, SettlePaysTidy,
   SettleReadsKeyTidy, SettleReadsDidTidy, ReceiptIsSavedTidy, CompletedIsSavedTidy,
   ProfileIsLoadedTidy, ProfileIsSavedTidy
DEF Concluding

\* Where there is an identity no other is drawn.
LEMMA CreatingIdentityTidy ==
  ASSUME Quiet, NEW p \in Procs, CreatingIdentity(p)
  PROVE  Tidy(p)
<1>1. CASE InitIdentity(p)
  <2>1. PICK m: m = NoMem
    OBVIOUS
  <2>2. Go(p, "identity_pem", m) /\ UNCHANGED <<store, identityFiles>>
    BY <1>1, <2>1 DEF InitIdentity
  <2>3. Fits("identity_pem", m)
    BY <1>1 DEF InitIdentity, Fits, Holding, OnJob, Taking, Awarding, Settle
  <2> QED
    BY <2>2, <2>3, ReadingTidy
<1>2. ASSUME NEW k \in Keys, KeyIsWritten(p, k)
      PROVE  Tidy(p)
  <2>1. /\ mem[p] \in Mem /\ Fits("identity_pem", mem[p]) /\ CallsType /\ Orderly
        /\ UNCHANGED store /\ pem' = k /\ meta' = meta
    BY <1>2, AtStepAlone DEF KeyIsWritten, WriteKey
  <2>2. meta = NoKey
    BY <2>1 DEF Fits, NoIdentity
  <2>3. PICK m: m = [mem[p] EXCEPT !.key = k]
    OBVIOUS
  <2>4. m.key = k /\ Go(p, "identity_meta", m)
    BY <1>2, <2>1, <2>3 DEF Mem, KeyIsWritten
  <2>5. Fits("identity_meta", m)'
    BY <2>1, <2>4 DEF Fits, Holding, OnJob, Taking, Awarding, Settle
  <2>6. Orderly'
    BY <2>1, <2>2
    DEF Orderly, OpenHasNoDeal, OneKey, MetadataOnFile, Closed, ListOffers, Signed, store
  <2> QED
    BY <2>1, <2>4, <2>5, <2>6, GoesTo DEF Tidy
<1>3. CASE MetadataIsWritten(p)
  <2>1. /\ Fits("identity_meta", mem[p]) /\ CallsType /\ Orderly
        /\ UNCHANGED store /\ pem' = pem /\ meta' = mem[p].key /\ End(p)
    BY <1>3, AtStepAlone DEF MetadataIsWritten, WriteMetadata
  <2>2. meta' = pem
    BY <2>1 DEF Fits
  <2>3. Orderly'
    BY <2>1, <2>2
    DEF Orderly, OpenHasNoDeal, OneKey, MetadataOnFile, Closed, ListOffers, Signed, store
  <2> QED
    BY <2>1, <2>3, Ends DEF Tidy
<1> QED
  BY <1>1, <1>2, <1>3 DEF CreatingIdentity

LEMMA StepTidy ==
  ASSUME Quiet, NEW p \in Procs, Step(p)
  PROVE  Tidy(p)
<1>1. Killed(p) => Tidy(p)
  BY EndingTidy DEF Killed
<1> QED
  BY <1>1, SubmittingTidy, AcceptingTidy, ConcludingTidy, CreatingIdentityTidy DEF Step

-----------------------------------------------------------------------------
(* The invariants of one call at a time. *)

LEMMA InitWhole == Init => Whole
<1> SUFFICES ASSUME Init PROVE Calm
  BY InitSound DEF Whole
<1>1. OneRuns
  BY DEF Init, OneRuns
<1>2. Orderly
  BY ProcessAssumption
  DEF Init, IdentityInit, Orderly, OpenHasNoDeal, OneKey, MetadataOnFile, Closed, Signed,
      NoJob, NoReceipt
<1>3. \A p \in Procs: Fits(pc[p], mem[p])
  BY IdleFits DEF Init
<1> QED
  BY <1>1, <1>2, <1>3 DEF Calm

LEMMA NextWhole ==
  ASSUME Whole, [Next]_vars
  PROVE  Whole'
<1>1. Sound' /\ Filed'
  BY NextSound DEF Whole
<1>2. ASSUME NEW p \in Procs, Step(p)
      PROVE  Calm'
  <2>1. Sane(p)
    BY <1>2, StepSane DEF Whole, Filed, Step
  <2>2. CASE alone
    <3>1. Tidy(p)
      BY <1>2, <2>2, StepTidy DEF Quiet
    <3> QED
      BY <1>2, <2>1, <2>2, <3>1, TidyIsCalm DEF Whole, Tidy
  <2>3. CASE ~alone
    BY <2>1, <2>3 DEF Sane, Calm
  <2> QED
    BY <2>2, <2>3
<1>3. CASE UNCHANGED vars
  <2>1. UNCHANGED <<store, identityFiles, pc, mem, alone>>
    BY <1>3 DEF vars, store, identityFiles
  <2>2. Orderly => Orderly'
    BY <2>1, ReadingIsOrderly
  <2>3. ASSUME NEW p \in Procs, Fits(pc[p], mem[p])
        PROVE  Fits(pc[p], mem[p])'
    BY <2>1, <2>3 DEF Fits, ListOffers, NoIdentity, store, identityFiles
  <2>4. OneRuns => OneRuns'
    BY <2>1 DEF OneRuns
  <2> QED
    BY <1>1, <2>1, <2>2, <2>3, <2>4 DEF Whole, Calm
<1> QED
  BY <1>1, <1>2, <1>3 DEF Whole, Next, Step

LEMMA AlwaysWhole == Spec => []Whole
<1>1. Init => Whole
  BY InitWhole
<1>2. Whole /\ [Next]_vars => Whole'
  BY NextWhole
<1> QED
  BY <1>1, <1>2, PTL DEF Spec

\* One call at a time, however often one is killed on the way: the offer a job
\* names is ACCEPTED, and the job's others are closed.
THEOREM AwardsCloseOffers == Spec => []AwardClosesOffers
<1>1. Whole => AwardClosesOffers
  BY DEF Whole, Calm, Orderly, Closed, AwardClosesOffers
<1> QED
  BY <1>1, AlwaysWhole, PTL

\* One call at a time: the receipt on file verifies under the DID it names, and
\* it is that of the payout and the deal the COMPLETED job names.
THEOREM ReceiptsAreTheJobs == Spec => []ReceiptIsTheJobs
<1>1. Whole => ReceiptIsTheJobs
  BY DEF Whole, Calm, Orderly, Signed, ReceiptIsTheJobs
<1> QED
  BY <1>1, AlwaysWhole, PTL

-----------------------------------------------------------------------------
(* The lifecycle. *)

\* The two functions the processes show as JobLifecycle's variables.
StatusOf == [j \in JobIds |-> jobs[j].status]
PaidFor == [j \in JobIds |-> paid[j] > 0]

Follows == Lifecycle!Next \/ OfferedIsSkipped \/ UNCHANGED <<StatusOf, PaidFor>>

\* What JobLifecycle allows at each status.
LEMMA EdgesOf ==
  /\ Lifecycle!Edges["ABSENT"] = {"POSTED"}
  /\ Lifecycle!Edges["POSTED"] = {"OFFERED"}
  /\ Lifecycle!Edges["OFFERED"] = {"ACCEPTED"}
  /\ Lifecycle!Edges["ACCEPTED"] = {"RESULT_SUBMITTED", "REFUNDED"}
  /\ Lifecycle!Edges["RESULT_SUBMITTED"] = {"VERIFIED", "FAILED", "REFUNDED"}
  /\ Lifecycle!Edges["FAILED"] = {"REFUNDED"}
BY DEF Lifecycle!Edges, Lifecycle!Status

LEMMA StayingFollows ==
  ASSUME UNCHANGED <<jobs, paid>>
  PROVE  Follows
BY DEF Follows, StatusOf, PaidFor

\* A job whose status moves along an edge, or stays, as nothing is paid.
LEMMA MovingFollows ==
  ASSUME FilesType, NEW j \in JobIds, NEW job,
         jobs' = [jobs EXCEPT ![j] = job], UNCHANGED paid,
         \/ job.status = jobs[j].status
         \/ job.status \in Lifecycle!Edges[jobs[j].status]
         \/ jobs[j].status = "POSTED" /\ job.status = "ACCEPTED"
  PROVE  Follows
<1>1. jobs'[j] = job /\ \A i \in JobIds \ {j}: jobs'[i] = jobs[i]
  BY DEF FilesType
<1>2. /\ StatusOf[j] = jobs[j].status /\ PaidFor' = PaidFor
      /\ StatusOf' = [StatusOf EXCEPT ![j] = job.status]
  <2>1. PaidFor' = PaidFor
    BY DEF PaidFor
  <2>2. StatusOf' = [StatusOf EXCEPT ![j] = job.status]
    <3>1. \A i \in JobIds: jobs'[i].status = IF i = j THEN job.status ELSE jobs[i].status
      BY <1>1
    <3> QED
      BY <3>1, Zenon DEF StatusOf
  <2> QED
    BY <2>1, <2>2 DEF StatusOf
<1>3. CASE job.status = jobs[j].status
  BY <1>2, <1>3 DEF Follows, StatusOf
<1>4. CASE job.status \in Lifecycle!Edges[jobs[j].status]
  <2>1. \E s \in Lifecycle!Edges[StatusOf[j]]: StatusOf' = [StatusOf EXCEPT ![j] = s]
    BY <1>2, <1>4
  <2>2. Lifecycle!Advance(j)
    BY <1>2, <2>1 DEF Lifecycle!Advance, StatusOf, PaidFor
  <2> QED
    BY <2>2 DEF Follows, Lifecycle!Next
<1>5. CASE jobs[j].status = "POSTED" /\ job.status = "ACCEPTED"
  BY <1>1, <1>5 DEF Follows, OfferedIsSkipped
<1> QED
  BY <1>3, <1>4, <1>5

\* A call that saves its job.
LEMMA SavingFollows ==
  ASSUME Quiet, NEW p \in Procs, NEW step \in Holding, At(p, step),
         NEW job, SaveJob(p, job),
         \/ job.status = mem[p].copy.status
         \/ job.status \in Lifecycle!Edges[mem[p].copy.status]
         \/ mem[p].copy.status = "POSTED" /\ job.status = "ACCEPTED"
  PROVE  Follows
<1>1. FilesType /\ mem[p].job \in JobIds /\ mem[p].copy = jobs[mem[p].job]
  BY AtStepAlone DEF Backs, Fits, Holding
<1> QED
  BY <1>1, MovingFollows DEF SaveJob

LEMMA SubmittingFollows ==
  ASSUME Quiet, NEW p \in Procs, Submitting(p)
  PROVE  Follows
<1>1. ASSUME NEW j \in JobIds, NEW a \in Dids, PostJob(p, j, a)
      PROVE  Follows
  <2>1. PICK job: job = [NoJob EXCEPT !.status = "POSTED", !.buyer = a]
    OBVIOUS
  <2>2. job.status = "POSTED" /\ jobs[j].status = "ABSENT"
    BY <1>1, <2>1 DEF PostJob, NoJob
  <2>3. jobs' = [jobs EXCEPT ![j] = job] /\ UNCHANGED paid
    BY <1>1, <2>1 DEF PostJob
  <2> QED
    BY <2>2, <2>3, MovingFollows, QuietTypes, EdgesOf
<1>2. ASSUME NEW j \in JobIds, OfferReadsJob(p, j) \/ ResultReadsJob(p, j)
      PROVE  Follows
  BY <1>2, StayingFollows DEF OfferReadsJob, ResultReadsJob, BeginOnJob, store
<1>3. ASSUME NEW o \in OfferIds, NEW a \in Dids, OfferIsSaved(p, o, a)
      PROVE  Follows
  BY <1>3, StayingFollows DEF OfferIsSaved
<1>4. CASE OfferedIsSaved(p)
  <2>1. /\ mem[p].copy \in Job /\ Fits("offer_job", mem[p]) /\ At(p, "offer_job")
        /\ "offer_job" \in Holding
    BY <1>4, AtStepAlone DEF OfferedIsSaved, Holding, OnJob, Steps
  <2>2. PICK job: job = [mem[p].copy EXCEPT !.status = "OFFERED"]
    OBVIOUS
  <2>3. job.status = "OFFERED" /\ mem[p].copy.status \in {"POSTED", "OFFERED"}
    BY <2>1, <2>2 DEF Job, Fits, Taking
  <2> QED
    BY <1>4, <2>1, <2>2, <2>3, SavingFollows, EdgesOf DEF OfferedIsSaved
<1>5. CASE ResultIsSaved(p)
  <2>1. /\ mem[p].copy \in Job /\ Fits("result_save", mem[p]) /\ At(p, "result_save")
        /\ "result_save" \in Holding
    BY <1>5, AtStepAlone DEF ResultIsSaved, Holding, OnJob, Steps
  <2>2. PICK job: job = [mem[p].copy EXCEPT !.status = "RESULT_SUBMITTED"]
    OBVIOUS
  <2>3. job.status = "RESULT_SUBMITTED" /\ mem[p].copy.status = "ACCEPTED"
    BY <2>1, <2>2 DEF Job, Fits
  <2> QED
    BY <1>5, <2>1, <2>2, <2>3, SavingFollows, EdgesOf DEF ResultIsSaved
<1> QED
  BY <1>1, <1>2, <1>3, <1>4, <1>5 DEF Submitting

LEMMA AcceptingFollows ==
  ASSUME Quiet, NEW p \in Procs, Accepting(p)
  PROVE  Follows
<1>1. CASE AcceptedIsSaved(p)
  <2>1. /\ mem[p].copy \in Job /\ Fits("accept_decline", mem[p]) /\ At(p, "accept_decline")
        /\ "accept_decline" \in Holding
    BY <1>1, AtStepAlone DEF AcceptedIsSaved, Holding, OnJob, Steps
  <2>2. PICK job: job = [mem[p].copy EXCEPT !.status = "ACCEPTED", !.offer = mem[p].offer,
                                            !.deal = mem[p].deal]
    OBVIOUS
  <2>3. job.status = "ACCEPTED" /\ mem[p].copy.status \in {"POSTED", "OFFERED"}
    BY <2>1, <2>2 DEF Job, Fits, Taking, Awarding
  <2> QED
    BY <1>1, <2>1, <2>2, <2>3, SavingFollows, EdgesOf DEF AcceptedIsSaved
<1>2. CASE ~AcceptedIsSaved(p)
  <2>1. UNCHANGED <<jobs, paid>>
    BY <1>2
    DEF Accepting, AcceptReadsOffer, DeclinedIsSaved, AcceptReadsJob, AcceptRoutes,
        DealIsSaved, AcceptedOfferIsSaved, AcceptListsOthers, store
  <2> QED
    BY <2>1, StayingFollows
<1> QED
  BY <1>1, <1>2

LEMMA ConcludingFollows ==
  ASSUME Quiet, NEW p \in Procs, Concluding(p)
  PROVE  Follows
<1>1. ASSUME NEW status, VerdictIsSaved(p, status)
      PROVE  Follows
  <2>1. /\ mem[p].copy \in Job /\ Fits("verify_save", mem[p]) /\ At(p, "verify_save")
        /\ "verify_save" \in Holding
    BY <1>1, AtStepAlone DEF VerdictIsSaved, Holding, OnJob, Steps
  <2>2. PICK job: job = [mem[p].copy EXCEPT !.status = status]
    OBVIOUS
  <2>3. job.status \in {"VERIFIED", "FAILED"} /\ mem[p].copy.status = "RESULT_SUBMITTED"
    BY <1>1, <2>1, <2>2 DEF Job, Fits, VerdictIsSaved
  <2> QED
    BY <1>1, <2>1, <2>2, <2>3, SavingFollows, EdgesOf DEF VerdictIsSaved
<1>2. CASE RefundedIsSaved(p)
  <2>1. /\ mem[p].copy \in Job /\ Fits("refund_save", mem[p]) /\ At(p, "refund_save")
        /\ "refund_save" \in Holding
    BY <1>2, AtStepAlone DEF RefundedIsSaved, Holding, OnJob, Steps
  <2>2. PICK job: job = [mem[p].copy EXCEPT !.status = "REFUNDED"]
    OBVIOUS
  <2>3. /\ job.status = "REFUNDED"
        /\ mem[p].copy.status \in {"ACCEPTED", "RESULT_SUBMITTED", "FAILED"}
    BY <2>1, <2>2 DEF Job, Fits
  <2> QED
    BY <1>2, <2>1, <2>2, <2>3, SavingFollows, EdgesOf DEF RefundedIsSaved
<1>3. CASE SettlePays(p)
  <2>1. /\ FilesType /\ mem[p].job \in JobIds /\ jobs[mem[p].job].status = "VERIFIED"
    <3>1. FilesType /\ Backs("settle_pay", mem[p]) /\ Fits("settle_pay", mem[p])
      BY <1>3, AtStepAlone DEF SettlePays
    <3> QED
      BY <3>1 DEF Backs, OnJob, Steps, Fits, Holding, Settle
  <2>2. PICK j \in JobIds: j = mem[p].job
    BY <2>1
  <2>3. UNCHANGED jobs /\ paid' = [paid EXCEPT ![j] = paid[j] + 1]
    BY <1>3, <2>2 DEF SettlePays
  <2>4. (paid[j] + 1 > 0) = TRUE
    BY <2>1 DEF FilesType
  <2>5. StatusOf[j] = "VERIFIED" /\ StatusOf' = StatusOf /\ PaidFor' = [PaidFor EXCEPT ![j] = TRUE]
    BY <2>1, <2>2, <2>3, <2>4 DEF StatusOf, PaidFor, FilesType
  <2>6. Lifecycle!PayWorker(j)
    BY <2>5 DEF Lifecycle!PayWorker, StatusOf, PaidFor
  <2> QED
    BY <2>6 DEF Follows, Lifecycle!Next
<1>4. CASE CompletedIsSaved(p)
  <2>1. /\ mem[p].copy \in Job /\ FilesType
        /\ mem[p].job \in JobIds /\ mem[p].copy = jobs[mem[p].job]
        /\ mem[p].copy.status = "VERIFIED" /\ paid[mem[p].job] > 0
    BY <1>4, AtStepAlone
    DEF CompletedIsSaved, Backs, OnJob, Steps, Paid, Fits, Holding, Settle
  <2>2. PICK j \in JobIds: j = mem[p].job
    BY <2>1
  <2>3. PICK job: job = [mem[p].copy EXCEPT !.status = "COMPLETED", !.receipt = mem[p].payout]
    OBVIOUS
  <2>4. job.status = "COMPLETED" /\ jobs' = [jobs EXCEPT ![j] = job] /\ paid' = paid
    BY <1>4, <2>1, <2>2, <2>3 DEF Job, CompletedIsSaved, SaveJob
  <2>5. (paid[j] > 0) = TRUE
    BY <2>1, <2>2
  <2>6. /\ StatusOf[j] = "VERIFIED" /\ StatusOf' = [StatusOf EXCEPT ![j] = "COMPLETED"]
        /\ PaidFor' = [PaidFor EXCEPT ![j] = TRUE]
    BY <2>1, <2>2, <2>4, <2>5 DEF StatusOf, PaidFor, FilesType
  <2>7. Lifecycle!Complete(j)
    BY <2>6 DEF Lifecycle!Complete, StatusOf, PaidFor
  <2> QED
    BY <2>7 DEF Follows, Lifecycle!Next
<1>5. ASSUME NEW j \in JobIds, VerifyReadsJob(p, j) \/ RefundReadsJob(p, j) \/ SettleReadsJob(p, j)
      PROVE  Follows
  BY <1>5, StayingFollows
  DEF VerifyReadsJob, RefundReadsJob, SettleReadsJob, BeginOnJob, store
<1>6. CASE \/ SettleReadsKey(p) \/ SettleReadsDid(p) \/ ReceiptIsSaved(p)
           \/ (\E a \in Dids: ProfileIsLoaded(p, a)) \/ ProfileIsSaved(p)
  BY <1>6, StayingFollows
  DEF SettleReadsKey, SettleReadsDid, ReceiptIsSaved, ProfileIsLoaded, ProfileIsSaved, store
<1> QED
  BY <1>1, <1>2, <1>3, <1>4, <1>5, <1>6 DEF Concluding

LEMMA StepFollows ==
  ASSUME Quiet, NEW p \in Procs, Step(p)
  PROVE  Follows
<1>1. CreatingIdentity(p) \/ Killed(p) => Follows
  BY StayingFollows
  DEF CreatingIdentity, InitIdentity, KeyIsWritten, MetadataIsWritten, Killed, store
<1> QED
  BY <1>1, SubmittingFollows, AcceptingFollows, ConcludingFollows DEF Step

\* One call at a time, wherever calls are killed: a job moves along the
\* lifecycle alone, but for an offer left behind on a POSTED job that is taken.
THEOREM CallsFollowLifecycle == Spec => StepsFollowLifecycle
<1>1. Whole /\ [Next]_vars =>
        [alone => Lifecycle!Next \/ OfferedIsSkipped]_<<Lifecycle!lifecycleVars>>
  <2> SUFFICES ASSUME Whole, [Next]_vars, alone
               PROVE  \/ Lifecycle!Next \/ OfferedIsSkipped
                      \/ UNCHANGED <<StatusOf, PaidFor>>
    BY DEF Lifecycle!lifecycleVars, StatusOf, PaidFor
  <2>1. CASE UNCHANGED vars
    BY <2>1, StayingFollows DEF vars, Follows
  <2>2. CASE Next
    BY <2>2, StepFollows DEF Next, Step, Quiet, Follows
  <2> QED
    BY <2>1, <2>2
<1> QED
  BY <1>1, AlwaysWhole, PTL DEF Spec, StepsFollowLifecycle

-----------------------------------------------------------------------------
(* The profiles. *)

\* The COMPLETED jobs account a has a part in.
Done(a) == {j \in JobIds: jobs[j].status = "COMPLETED" /\ a \in Parties(jobs[j])}

\* A party whose profile settle has still to write is owed one.
Owed(step, m, a) ==
  \/ step \in {"settle_load", "settle_record"} /\ a \in m.todo
  \/ step = "settle_record" /\ a = m.party

\* A call at this step, with this in its memory, will count no job twice.
Counts(step, m) ==
  /\ \A a \in Dids: Owed(step, m, a) => profiles[a] < Cardinality(Done(a))
  /\ step = "settle_record" => m.count = profiles[m.party] /\ m.party \notin m.todo

Tallied == \A a \in Dids: IsFiniteSet(Done(a)) /\ profiles[a] <= Cardinality(Done(a))

Counting == alone => Tallied /\ \A p \in Procs: Counts(pc[p], mem[p])

\* A call that saves its job: it was not COMPLETED.
LEMMA SavingIsNotDone ==
  ASSUME Quiet, NEW p \in Procs, NEW step \in Holding, At(p, step),
         NEW status \in JobStatus, NEW job, SaveJob(p, job), job.status = status,
         NEW j \in JobIds
  PROVE  \/ jobs'[j] = jobs[j]
         \/ jobs[j].status # "COMPLETED" /\ jobs'[j].status = status
<1>1. /\ FilesType /\ mem[p].job \in JobIds /\ mem[p].copy = jobs[mem[p].job]
      /\ Fits(step, mem[p])
  <2>1. FilesType /\ Backs(step, mem[p]) /\ Fits(step, mem[p])
    BY AtStepAlone
  <2> QED
    BY <2>1 DEF Backs, Fits, Holding
<1>2. jobs[mem[p].job].status # "COMPLETED"
  BY <1>1 DEF Fits, Holding, OnJob, Steps, Taking, Awarding, Settle
<1> QED
  BY <1>1, <1>2 DEF SaveJob, FilesType

\* A step other than that of settle leaves the COMPLETED jobs what they are.
LEMMA DoneJobsStay ==
  ASSUME Quiet, NEW p \in Procs, Step(p), ~CompletedIsSaved(p), NEW j \in JobIds
  PROVE  \/ jobs'[j] = jobs[j]
         \/ jobs[j].status # "COMPLETED" /\ jobs'[j].status # "COMPLETED"
<1>1. FilesType
  BY QuietTypes
<1>2. ASSUME NEW i \in JobIds, NEW a \in Dids, PostJob(p, i, a)
      PROVE  \/ jobs'[j] = jobs[j]
             \/ jobs[j].status # "COMPLETED" /\ jobs'[j].status # "COMPLETED"
  BY <1>1, <1>2 DEF PostJob, NoJob, FilesType
<1>3. CASE \/ OfferedIsSaved(p) \/ AcceptedIsSaved(p) \/ ResultIsSaved(p)
           \/ RefundedIsSaved(p) \/ \E status \in JobStatus: VerdictIsSaved(p, status)
  <2>1. mem[p].copy \in Job
    BY QuietTypes DEF CallsType, Mem
  <2>2. /\ {"offer_job", "accept_decline", "result_save", "refund_save", "verify_save"} \subseteq Holding
        /\ {"OFFERED", "ACCEPTED", "RESULT_SUBMITTED", "REFUNDED", "VERIFIED", "FAILED"}
             \subseteq JobStatus \ {"COMPLETED"}
    BY DEF Holding, OnJob, Steps, JobStatus
  <2>3. PICK step \in Holding, status \in JobStatus \ {"COMPLETED"}:
          At(p, step) /\ \E job: SaveJob(p, job) /\ job.status = status
    <3>1. CASE AcceptedIsSaved(p)
      <4>1. PICK job: job = [mem[p].copy EXCEPT !.status = "ACCEPTED", !.offer = mem[p].offer,
                                                !.deal = mem[p].deal]
        OBVIOUS
      <4>2. job.status = "ACCEPTED"
        BY <2>1, <4>1 DEF Job
      <4> QED
        BY <2>2, <3>1, <4>1, <4>2 DEF AcceptedIsSaved
    <3>2. ASSUME NEW step \in Holding, NEW status \in JobStatus \ {"COMPLETED"},
                 At(p, step), SaveJob(p, [mem[p].copy EXCEPT !.status = status])
          PROVE  \E job: SaveJob(p, job) /\ job.status = status
      <4>1. [mem[p].copy EXCEPT !.status = status].status = status
        BY <2>1 DEF Job
      <4> QED
        BY <3>2, <4>1
    <3> QED
      BY <1>3, <2>2, <3>1, <3>2
      DEF OfferedIsSaved, ResultIsSaved, RefundedIsSaved, VerdictIsSaved
  <2> QED
    BY <2>3, SavingIsNotDone
<1>4. CASE UNCHANGED jobs
  BY <1>4
<1>5. \/ \E i \in JobIds, a \in Dids: PostJob(p, i, a)
      \/ OfferedIsSaved(p) \/ AcceptedIsSaved(p) \/ ResultIsSaved(p)
      \/ RefundedIsSaved(p) \/ \E status \in JobStatus: VerdictIsSaved(p, status)
      \/ UNCHANGED jobs
  <2>1. Submitting(p) => \/ \E i \in JobIds, a \in Dids: PostJob(p, i, a)
                         \/ OfferedIsSaved(p) \/ ResultIsSaved(p) \/ UNCHANGED jobs
    BY DEF Submitting, OfferReadsJob, ResultReadsJob, BeginOnJob, OfferIsSaved, store
  <2>2. Accepting(p) => AcceptedIsSaved(p) \/ UNCHANGED jobs
    BY DEF Accepting, AcceptReadsOffer, DeclinedIsSaved, AcceptReadsJob, AcceptRoutes,
           DealIsSaved, AcceptedOfferIsSaved, AcceptListsOthers, store
  <2>3. Concluding(p) => \/ \E status \in JobStatus: VerdictIsSaved(p, status)
                         \/ RefundedIsSaved(p) \/ UNCHANGED jobs
    BY DEF Concluding, VerifyReadsJob, RefundReadsJob, SettleReadsJob, BeginOnJob, SettlePays,
           SettleReadsKey, SettleReadsDid, ReceiptIsSaved, ProfileIsLoaded, ProfileIsSaved,
           store
  <2>4. CreatingIdentity(p) \/ Killed(p) => UNCHANGED jobs
    BY DEF CreatingIdentity, InitIdentity, KeyIsWritten, MetadataIsWritten, Killed, store
  <2> QED
    BY <2>1, <2>2, <2>3, <2>4 DEF Step
<1> QED
  BY <1>2, <1>3, <1>4, <1>5

\* The seller of a COMPLETED job stays on file.
LEMMA DoneSellerStays ==
  ASSUME Quiet, NEW p \in Procs, Step(p), NEW j \in JobIds,
         jobs[j].status = "COMPLETED" \/ jobs[j].deal # None
  PROVE  offers'[jobs[j].offer].seller = offers[jobs[j].offer].seller
<1>1. jobs[j].deal # None
  <2>1. CASE jobs[j].status = "COMPLETED"
    <3>1. receipts[j] # NoReceipt /\ receipts[j].deal = jobs[j].deal
      BY <2>1, QuietTypes DEF Filed, CompletedHasReceipt, Orderly, Signed
    <3> QED
      BY <3>1, QuietTypes, ProcessAssumption DEF FilesType, Receipt
  <2> QED
    BY <2>1
<1>2. jobs[j].offer \in OfferIds /\ offers[jobs[j].offer] # NoOffer
  BY <1>1, DealtHasOffer
<1>3. Kept
  BY StepSane, QuietTypes DEF Step, Filed, Sane
<1> QED
  BY <1>2, <1>3 DEF Kept

LEMMA DoneStays ==
  ASSUME Quiet, NEW p \in Procs, Step(p), ~CompletedIsSaved(p), NEW a
  PROVE  Done(a)' = Done(a)
<1>1. ASSUME NEW j \in JobIds
      PROVE  (jobs'[j].status = "COMPLETED" /\ a \in Parties(jobs[j])')
               <=> (jobs[j].status = "COMPLETED" /\ a \in Parties(jobs[j]))
  <2>1. CASE jobs'[j] = jobs[j] /\ jobs[j].status = "COMPLETED"
    BY <2>1, DoneSellerStays DEF Parties
  <2>2. CASE jobs[j].status # "COMPLETED" /\ jobs'[j].status # "COMPLETED"
    BY <2>2
  <2> QED
    BY <2>1, <2>2, DoneJobsStay
<1> QED
  BY <1>1 DEF Done

\* The steps of settle that have to do with profiles.
Profiling == {"settle_load", "settle_record"}

LEMMA GoesThere ==
  ASSUME CallsType, NEW p \in Procs, NEW step, NEW m, Go(p, step, m)
  PROVE  pc'[p] = step /\ mem'[p] = m
BY DEF Go, CallsType

\* Every other step leaves the profiles alone, and goes elsewhere.
LEMMA OthersLeaveProfiles ==
  ASSUME Quiet, NEW p \in Procs, Step(p), ~CompletedIsSaved(p), ~ProfileIsSaved(p),
         \A a \in Dids: ~ProfileIsLoaded(p, a)
  PROVE  profiles' = profiles /\ pc'[p] \notin Profiling
<1>1. CallsType
  BY QuietTypes
<1>2. (\E step, m: Go(p, step, m) /\ step \notin Profiling) => pc'[p] \notin Profiling
  BY <1>1, GoesThere
<1>3. End(p) => pc'[p] \notin Profiling
  BY <1>1, GoesThere DEF End, Profiling
<1>4. CASE Submitting(p)
  <2>1. ASSUME NEW j \in JobIds, NEW a \in Dids, PostJob(p, j, a)
        PROVE  profiles' = profiles /\ pc'[p] \notin Profiling
    BY <2>1 DEF PostJob, MayBegin, At, Profiling
  <2>2. ASSUME NEW j \in JobIds, OfferReadsJob(p, j) \/ ResultReadsJob(p, j)
        PROVE  profiles' = profiles /\ pc'[p] \notin Profiling
    BY <1>2, <2>2 DEF OfferReadsJob, ResultReadsJob, BeginOnJob, Profiling, store
  <2>3. ASSUME NEW o \in OfferIds, NEW a \in Dids, OfferIsSaved(p, o, a)
        PROVE  profiles' = profiles /\ pc'[p] \notin Profiling
    BY <1>2, <2>3 DEF OfferIsSaved, Profiling
  <2>4. CASE OfferedIsSaved(p) \/ ResultIsSaved(p)
    BY <1>3, <2>4 DEF OfferedIsSaved, ResultIsSaved, SaveJob
  <2> QED
    BY <1>4, <2>1, <2>2, <2>3, <2>4 DEF Submitting
<1>5. CASE Accepting(p)
  <2>1. ASSUME NEW o \in OfferIds, AcceptReadsOffer(p, o) \/ DeclinedIsSaved(p, o)
        PROVE  profiles' = profiles /\ pc'[p] \notin Profiling
    BY <1>2, <2>1 DEF AcceptReadsOffer, DeclinedIsSaved, Profiling, store
  <2>2. CASE AcceptReadsJob(p)
    BY <1>2, <1>3, <2>2 DEF AcceptReadsJob, Profiling, store
  <2>3. CASE AcceptRoutes(p)
    BY <1>2, <1>3, <2>3 DEF AcceptRoutes, Profiling, store
  <2>4. ASSUME NEW d \in DealIds, DealIsSaved(p, d)
        PROVE  profiles' = profiles /\ pc'[p] \notin Profiling
    BY <1>2, <2>4 DEF DealIsSaved, Profiling
  <2>5. CASE AcceptedOfferIsSaved(p) \/ AcceptListsOthers(p)
    BY <1>2, <2>5 DEF AcceptedOfferIsSaved, AcceptListsOthers, Profiling, store
  <2>6. CASE AcceptedIsSaved(p)
    BY <1>3, <2>6 DEF AcceptedIsSaved, SaveJob
  <2> QED
    BY <1>5, <2>1, <2>2, <2>3, <2>4, <2>5, <2>6 DEF Accepting
<1>6. CASE Concluding(p)
  <2>1. ASSUME NEW j \in JobIds, VerifyReadsJob(p, j) \/ RefundReadsJob(p, j) \/ SettleReadsJob(p, j)
        PROVE  profiles' = profiles /\ pc'[p] \notin Profiling
    BY <1>2, <2>1
    DEF VerifyReadsJob, RefundReadsJob, SettleReadsJob, BeginOnJob, Profiling, store
  <2>2. ASSUME NEW status, VerdictIsSaved(p, status) \/ RefundedIsSaved(p)
        PROVE  profiles' = profiles /\ pc'[p] \notin Profiling
    BY <1>3, <2>2 DEF VerdictIsSaved, RefundedIsSaved, SaveJob
  <2>3. CASE SettlePays(p)
    BY <1>2, <2>3 DEF SettlePays, Profiling
  <2>4. CASE SettleReadsKey(p) \/ SettleReadsDid(p)
    BY <1>2, <1>3, <2>4 DEF SettleReadsKey, SettleReadsDid, Profiling, store
  <2>5. CASE ReceiptIsSaved(p)
    BY <1>2, <2>5 DEF ReceiptIsSaved, Profiling
  <2> QED
    BY <1>6, <2>1, <2>2, <2>3, <2>4, <2>5 DEF Concluding
<1>7. CASE CreatingIdentity(p)
  <2>1. CASE InitIdentity(p)
    BY <1>2, <2>1 DEF InitIdentity, Profiling, store
  <2>2. ASSUME NEW k \in Keys, KeyIsWritten(p, k)
        PROVE  profiles' = profiles /\ pc'[p] \notin Profiling
    BY <1>2, <2>2 DEF KeyIsWritten, Profiling, store
  <2>3. CASE MetadataIsWritten(p)
    BY <1>3, <2>3 DEF MetadataIsWritten, store
  <2> QED
    BY <1>7, <2>1, <2>2, <2>3 DEF CreatingIdentity
<1>8. CASE Killed(p)
  BY <1>3, <1>8 DEF Killed, store
<1> QED
  BY <1>4, <1>5, <1>6, <1>7, <1>8 DEF Step

\* What a call that is about something else knows of the profiles.
LEMMA ElsewhereCounts ==
  ASSUME NEW step, step \notin Profiling, NEW m
  PROVE  Counts(step, m)'
BY DEF Counts, Owed, Profiling

LEMMA OthersCount ==
  ASSUME Quiet, Tallied, NEW p \in Procs, Step(p),
         ~CompletedIsSaved(p), ~ProfileIsSaved(p), \A a \in Dids: ~ProfileIsLoaded(p, a)
  PROVE  Tallied' /\ Counts(pc[p], mem[p])'
<1>1. profiles' = profiles /\ pc'[p] \notin Profiling
  BY OthersLeaveProfiles
<1>2. \A a \in Dids: Done(a)' = Done(a)
  BY DoneStays
<1>3. Tallied'
  BY <1>1, <1>2 DEF Tallied
<1>4. PICK step, m: step = pc'[p] /\ m = mem'[p]
  OBVIOUS
<1> QED
  BY <1>1, <1>3, <1>4, ElsewhereCounts

\* A party whose profile is next is read as it is.
LEMMA ProfileIsLoadedCounts ==
  ASSUME Quiet, Tallied, NEW p \in Procs, NEW a \in Dids, ProfileIsLoaded(p, a),
         Counts("settle_load", mem[p])
  PROVE  Tallied' /\ Counts(pc[p], mem[p])'
<1>1. CallsType /\ mem[p] \in Mem
  BY AtStepAlone DEF ProfileIsLoaded
<1>2. profiles' = profiles /\ \A b \in Dids: Done(b)' = Done(b)
  BY DEF ProfileIsLoaded, store, Done, Parties
<1>3. PICK m: m = [mem[p] EXCEPT !.party = a, !.count = profiles[a], !.todo = @ \ {a}]
  OBVIOUS
<1>4. m.party = a /\ m.count = profiles[a] /\ m.todo = mem[p].todo \ {a}
  BY <1>1, <1>3 DEF Mem
<1>5. Go(p, "settle_record", m) /\ a \in mem[p].todo
  BY <1>3 DEF ProfileIsLoaded
<1>6. Counts("settle_record", m)'
  BY <1>2, <1>4, <1>5 DEF Counts, Owed
<1>7. pc'[p] = "settle_record" /\ mem'[p] = m
  BY <1>1, <1>5, GoesThere
<1> QED
  BY <1>2, <1>6, <1>7 DEF Tallied

\* The party's profile counts the job that was owed, and no other one's does.
LEMMA ProfileIsSavedCounts ==
  ASSUME Quiet, Tallied, NEW p \in Procs, ProfileIsSaved(p), Counts("settle_record", mem[p])
  PROVE  Tallied' /\ Counts(pc[p], mem[p])'
<1>1. /\ CallsType /\ FilesType /\ mem[p] \in Mem /\ Backs("settle_record", mem[p])
  BY AtStepAlone DEF ProfileIsSaved
<1>2. PICK m: m = mem[p]
  OBVIOUS
<1>3. PICK a \in Dids: a = m.party
  BY <1>1, <1>2 DEF Backs
<1>4. /\ profiles' = [profiles EXCEPT ![a] = profiles[a] + 1]
      /\ a \notin m.todo /\ profiles[a] < Cardinality(Done(a))
  BY <1>2, <1>3 DEF ProfileIsSaved, Counts, Owed
<1>5. \A b \in Dids: Done(b)' = Done(b)
  BY DEF ProfileIsSaved, Done, Parties
<1>6. profiles'[a] = profiles[a] + 1 /\ \A b \in Dids \ {a}: profiles'[b] = profiles[b]
  BY <1>1, <1>4 DEF FilesType
<1>7. profiles'[a] <= Cardinality(Done(a))
  <2>1. IsFiniteSet(Done(a))
    BY DEF Tallied
  <2>2. Cardinality(Done(a)) \in Nat /\ profiles[a] \in Nat
    BY <1>1, <2>1, FS_CardinalityType DEF FilesType
  <2> QED
    BY <1>4, <1>6, <2>2
<1>8. Tallied'
  BY <1>5, <1>6, <1>7 DEF Tallied
<1>9. CASE m.todo = {}
  <2>1. End(p)
    BY <1>2, <1>9 DEF ProfileIsSaved
  <2>2. pc'[p] = "idle"
    BY <1>1, <2>1, GoesThere DEF End
  <2>3. PICK n: n = mem'[p]
    OBVIOUS
  <2>4. Counts("idle", n)'
    BY ElsewhereCounts DEF Profiling
  <2> QED
    BY <1>8, <2>2, <2>3, <2>4
<1>10. CASE m.todo # {}
  <2>1. Go(p, "settle_load", m)
    BY <1>2, <1>10 DEF ProfileIsSaved
  <2>2. pc'[p] = "settle_load" /\ mem'[p] = m
    BY <1>1, <2>1, GoesThere
  <2>3. \A b \in Dids: b \in m.todo => profiles[b] < Cardinality(Done(b))
    BY <1>2 DEF Counts, Owed
  <2>4. Counts("settle_load", m)'
    BY <1>4, <1>5, <1>6, <2>3 DEF Counts, Owed
  <2> QED
    BY <1>8, <2>2, <2>4
<1> QED
  BY <1>9, <1>10

\* The job is one more that is COMPLETED, for both its parties.
LEMMA CompletedIsSavedCounts ==
  ASSUME Quiet, Tallied, NEW p \in Procs, CompletedIsSaved(p)
  PROVE  Tallied' /\ Counts(pc[p], mem[p])'
<1>1. /\ CallsType /\ FilesType /\ mem[p] \in Mem /\ mem[p].copy \in Job
      /\ Backs("settle_job", mem[p]) /\ Fits("settle_job", mem[p])
  BY AtStepAlone DEF CompletedIsSaved
<1>2. PICK j \in JobIds: j = mem[p].job
  BY <1>1 DEF Backs, OnJob, Steps
<1>3. mem[p].copy = jobs[j] /\ jobs[j].status = "VERIFIED"
  BY <1>1, <1>2 DEF Fits, Holding, OnJob, Steps, Settle
<1>4. PICK job: job = [mem[p].copy EXCEPT !.status = "COMPLETED", !.receipt = mem[p].payout]
  OBVIOUS
<1>5. job.status = "COMPLETED" /\ job.buyer = jobs[j].buyer /\ job.offer = jobs[j].offer
  BY <1>1, <1>3, <1>4 DEF Job
<1>6. jobs' = [jobs EXCEPT ![j] = job] /\ offers' = offers /\ profiles' = profiles
  BY <1>2, <1>4 DEF CompletedIsSaved, SaveJob
<1>7. jobs'[j] = job /\ \A i \in JobIds \ {j}: jobs'[i] = jobs[i]
  BY <1>1, <1>6 DEF FilesType
<1>8. ASSUME NEW a \in Dids
      PROVE  /\ a \in Parties(jobs[j]) => Done(a)' = Done(a) \cup {j}
             /\ a \notin Parties(jobs[j]) => Done(a)' = Done(a)
             /\ j \notin Done(a)
  BY <1>3, <1>5, <1>6, <1>7 DEF Done, Parties
<1>9. ASSUME NEW a \in Dids
      PROVE  /\ IsFiniteSet(Done(a)') /\ profiles'[a] <= Cardinality(Done(a)')
             /\ a \in Parties(jobs[j]) => profiles'[a] < Cardinality(Done(a)')
  <2>1. IsFiniteSet(Done(a)) /\ profiles[a] <= Cardinality(Done(a))
    BY DEF Tallied
  <2>2. Cardinality(Done(a)) \in Nat /\ profiles[a] \in Nat
    BY <1>1, <2>1, FS_CardinalityType DEF FilesType
  <2>3. IsFiniteSet(Done(a) \cup {j}) /\ Cardinality(Done(a) \cup {j}) = Cardinality(Done(a)) + 1
    BY <1>8, <2>1, FS_AddElement
  <2>4. profiles'[a] = profiles[a]
    BY <1>6
  <2>5. CASE a \in Parties(jobs[j])
    <3>1. Done(a)' = Done(a) \cup {j}
      BY <1>8, <2>5
    <3>2. IsFiniteSet(Done(a)') /\ Cardinality(Done(a)') = Cardinality(Done(a)) + 1
      BY <2>3, <3>1
    <3> QED
      BY <2>1, <2>2, <2>4, <3>2
  <2>6. CASE a \notin Parties(jobs[j])
    <3>1. Done(a)' = Done(a)
      BY <1>8, <2>6
    <3> QED
      BY <2>1, <2>4, <2>6, <3>1
  <2> QED
    BY <2>5, <2>6
<1>10. Tallied'
  BY <1>9 DEF Tallied
<1>11. PICK m: m = [mem[p] EXCEPT !.todo = Parties(mem[p].copy)]
  OBVIOUS
<1>12. m.todo = Parties(jobs[j])
  BY <1>1, <1>3, <1>11 DEF Mem
<1>13. pc'[p] = "settle_load" /\ mem'[p] = m
  <2>1. Go(p, "settle_load", m)
    BY <1>11 DEF CompletedIsSaved
  <2> QED
    BY <1>1, <2>1, GoesThere
<1>14. Counts("settle_load", m)'
  BY <1>9, <1>12 DEF Counts, Owed
<1> QED
  BY <1>10, <1>13, <1>14

LEMMA StepCounts ==
  ASSUME Quiet, Counting, NEW p \in Procs, Step(p)
  PROVE  Counting'
<1>1. Tallied /\ \A q \in Procs: Counts(pc[q], mem[q])
  BY DEF Quiet, Counting
<1>2. Tallied' /\ Counts(pc[p], mem[p])'
  <2>1. CASE CompletedIsSaved(p)
    BY <1>1, <2>1, CompletedIsSavedCounts
  <2>2. CASE ProfileIsSaved(p)
    BY <1>1, <2>2, ProfileIsSavedCounts DEF ProfileIsSaved, At
  <2>3. ASSUME NEW a \in Dids, ProfileIsLoaded(p, a)
        PROVE  Tallied' /\ Counts(pc[p], mem[p])'
    BY <1>1, <2>3, ProfileIsLoadedCounts DEF ProfileIsLoaded, At
  <2> QED
    BY <1>1, <2>1, <2>2, <2>3, OthersCount
<1>3. ASSUME NEW q \in Procs, q # p
      PROVE  Counts(pc[q], mem[q])'
  <2>1. pc'[q] = "idle"
    BY <1>3, OthersIdle, StepSane DEF Quiet, Whole, Calm, Filed, Step, Sane
  <2>2. PICK m: m = mem'[q]
    OBVIOUS
  <2>3. Counts("idle", m)'
    BY ElsewhereCounts DEF Profiling
  <2> QED
    BY <2>1, <2>2, <2>3
<1> QED
  BY <1>2, <1>3 DEF Counting

LEMMA NextCounts ==
  ASSUME Whole, Counting, [Next]_vars
  PROVE  Counting'
<1>1. CASE UNCHANGED vars
  <2>1. UNCHANGED <<jobs, offers, profiles, pc, mem, alone>>
    BY <1>1 DEF vars
  <2>2. \A a: Done(a)' = Done(a)
    BY <2>1 DEF Done, Parties
  <2> QED
    BY <2>1, <2>2 DEF Counting, Tallied, Counts
<1>2. ASSUME NEW p \in Procs, Step(p)
      PROVE  Counting'
  <2>1. alone' = alone
    BY <1>2, StepSane DEF Whole, Filed, Step, Sane
  <2>2. CASE alone
    BY <1>2, <2>2, StepCounts DEF Quiet
  <2> QED
    BY <2>1, <2>2 DEF Counting
<1> QED
  BY <1>1, <1>2 DEF Next, Step

LEMMA InitCounts == Init => Counting
<1> SUFFICES ASSUME Init PROVE Tallied /\ \A p \in Procs: Counts(pc[p], mem[p])
  BY DEF Counting
<1>1. \A a: Done(a) = {}
  BY DEF Init, NoJob, Done
<1>2. Tallied
  BY <1>1, FS_EmptySet DEF Tallied, Init
<1>3. \A p \in Procs: Counts(pc[p], mem[p])
  BY DEF Counts, Owed, Init
<1> QED
  BY <1>2, <1>3

\* One call at a time, with any settle killed and given again: no profile counts
\* more jobs than its party has COMPLETED ones.
THEOREM JobsAreCountedOnce == Spec => []CountedOnce
<1>1. Whole /\ Counting /\ [Next]_vars => Counting'
  BY NextCounts
<1>2. Counting => CountedOnce
  BY DEF Counting, Tallied, Done, CountedOnce
<1> QED
  BY <1>1, <1>2, InitCounts, AlwaysWhole, PTL DEF Spec

=============================================================================
