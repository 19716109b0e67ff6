---------------------- MODULE ExchangeProcesses_proofs ----------------------
(***************************************************************************)
(* Theorems about ExchangeProcesses for every choice of its constants: any *)
(* number of processes, jobs, offers, deals, parties and keys.             *)
(***************************************************************************)
EXTENDS ExchangeProcesses, FiniteSetTheorems, TLAPS

-----------------------------------------------------------------------------
(* What the calls in progress know. *)

\* The steps at which a call holds the id of its job.
OnJob == Steps \ {"idle", "identity_pem", "identity_meta"}

\* The steps of accept_offer, and those after it has written the deal.
Accept == {"accept_job", "accept_route", "accept_deal", "accept_offer",
           "accept_list", "accept_decline"}
Awarding == {"accept_offer", "accept_list", "accept_decline"}

\* The steps of settle until it has saved the job, and those after the payment.
Settle == {"settle_pay", "settle_key", "settle_meta", "settle_receipt", "settle_job"}
Paid == {"settle_key", "settle_meta", "settle_receipt", "settle_job"}

\* The deal and the offer a copy of job j names are on file and about j.
Named(job, j) ==
  job.deal # None =>
    /\ deals[job.deal] = [job |-> j, offer |-> job.offer]
    /\ offers[job.offer].job = j

\* A call at this step, with this in its memory, has it on file still.
Backs(step, m) ==
  /\ step \in OnJob => m.job \in JobIds /\ Named(m.copy, m.job)
  /\ step \in Accept => /\ m.offer \in OfferIds
                        /\ offers[m.offer] # NoOffer
                        /\ offers[m.offer].job = m.job
  /\ step \in Awarding => /\ m.deal \in DealIds
                          /\ deals[m.deal] = [job |-> m.job, offer |-> m.offer]
  /\ step = "accept_decline" => \A o \in m.todo: o \in OfferIds /\ offers[o] # NoOffer
  /\ step \in Settle => m.copy.deal # None
  /\ step \in Paid => m.payout \in 1 .. MaxPayouts /\ paid[m.job] > 0
  /\ step \in {"settle_meta", "settle_receipt", "identity_meta"} => m.key \in Keys
  /\ step = "settle_receipt" => m.did \in Keys
  /\ step = "settle_job" => receipts[m.job] # NoReceipt
  /\ step = "settle_record" => m.party \in Dids
  /\ step = "identity_meta" => KeyOnFile

\* However calls interleave.
Sound == TypeOK /\ \A p \in Procs: Backs(pc[p], mem[p])
Filed == ReferencesOnFile /\ CompletedHasReceipt /\ MetadataHasKey


-----------------------------------------------------------------------------
(* Steps. *)

\* What no step takes away from the files.
Kept ==
  /\ \A d \in DealIds: deals[d] # NoDeal => deals'[d] = deals[d]
  /\ \A o \in OfferIds:
       offers[o] # NoOffer => /\ offers'[o] # NoOffer
                              /\ offers'[o].job = offers[o].job
                              /\ offers'[o].seller = offers[o].seller
  /\ \A j \in JobIds: receipts[j] # NoReceipt => receipts'[j] # NoReceipt
  /\ \A j \in JobIds: paid[j] <= paid'[j]
  /\ KeyOnFile => KeyOnFile'

\* The types of the files of the store and of the identity, and of a call.
FilesType ==
  /\ jobs \in [JobIds -> Job]
  /\ offers \in [OfferIds -> {NoOffer} \cup Offer]
  /\ deals \in [DealIds -> {NoDeal} \cup Deal]
  /\ receipts \in [JobIds -> {NoReceipt} \cup Receipt]
  /\ profiles \in [Dids -> Nat] /\ paid \in [JobIds -> 0 .. MaxPayouts]
  /\ IdentityTypeOK

CallsType == pc \in [Procs -> Steps] /\ mem \in [Procs -> Mem] /\ alone \in BOOLEAN

LEMMA TypesSplit == TypeOK <=> FilesType /\ CallsType
BY DEF TypeOK, FilesType, CallsType

LEMMA NoMemType == NoJob \in Job /\ NoMem \in Mem
BY ProcessAssumption DEF NoJob, NoMem, Job, Mem, JobStatus

\* A call goes on: its own place and memory change, and no other's.
LEMMA Going ==
  ASSUME CallsType, NEW p \in Procs, NEW step \in Steps, NEW m \in Mem, Go(p, step, m)
  PROVE  /\ CallsType'
         /\ pc'[p] = step /\ mem'[p] = m
         /\ \A q \in Procs \ {p}: pc'[q] = pc[q] /\ mem'[q] = mem[q]
         /\ alone' = alone
BY DEF CallsType, Go

\* A call that ends forgets what it had read.
LEMMA Ending ==
  ASSUME CallsType, NEW p \in Procs, End(p)
  PROVE  /\ CallsType'
         /\ pc'[p] = "idle" /\ mem'[p] = NoMem
         /\ \A q \in Procs \ {p}: pc'[q] = pc[q] /\ mem'[q] = mem[q]
         /\ alone' = alone
<1>1. "idle" \in Steps
  BY DEF Steps
<1> QED
  BY <1>1, NoMemType, Going DEF End

\* Untouched files are kept.
LEMMA ReadingKeeps ==
  ASSUME FilesType, UNCHANGED <<store, identityFiles>>
  PROVE  FilesType' /\ Kept
<1>1. \A j \in JobIds: paid[j] <= paid[j]
  BY DEF FilesType
<1> QED
  BY <1>1 DEF FilesType, Kept, store, identityFiles, KeyOnFile, IdentityTypeOK

\* A deal and an offer that are on file stay what they are about.
LEMMA StaysNamed ==
  ASSUME FilesType, Kept, NEW job \in Job, NEW j \in JobIds, Named(job, j)
  PROVE  Named(job, j)'
<1> SUFFICES ASSUME job.deal # None
             PROVE  /\ deals'[job.deal] = [job |-> j, offer |-> job.offer]
                    /\ offers'[job.offer].job = j
  BY DEF Named
<1>1. job.deal \in DealIds /\ deals[job.deal] = [job |-> j, offer |-> job.offer]
  BY DEF Named, Job
<1>2. deals[job.deal].job = j /\ deals[job.deal].offer = job.offer
  BY <1>1
<1>3. deals[job.deal] # NoDeal
  BY <1>2, ProcessAssumption DEF NoDeal
<1>4. deals[job.deal] \in Deal
  BY <1>1, <1>3 DEF FilesType
<1>5. job.offer \in OfferIds /\ offers[job.offer].job = j
  BY <1>2, <1>4 DEF Deal, Named
<1>6. offers[job.offer] # NoOffer
  BY <1>5, ProcessAssumption DEF NoOffer
<1> QED
  BY <1>1, <1>3, <1>5, <1>6 DEF Kept

\* What a call relies on stays, as long as the files keep what they hold.
LEMMA StaysBacked ==
  ASSUME FilesType, FilesType', Kept,
         NEW step, NEW m \in Mem, Backs(step, m)
  PROVE  Backs(step, m)'
<1>1. m.copy \in Job /\ m.deal \in DealIds \cup {None}
  BY DEF Mem
<1>2. step \in OnJob => m.job \in JobIds /\ Named(m.copy, m.job)'
  BY <1>1, StaysNamed DEF Backs
<1>3. step \in Accept => /\ m.offer \in OfferIds
                         /\ offers'[m.offer] # NoOffer
                         /\ offers'[m.offer].job = m.job
  BY DEF Backs, Kept
<1>4. step \in Awarding =>
        /\ m.deal \in DealIds
        /\ deals'[m.deal] = [job |-> m.job, offer |-> m.offer]
  <2> SUFFICES ASSUME step \in Awarding
               PROVE  deals'[m.deal] = deals[m.deal]
    BY DEF Backs
  <2>1. deals[m.deal].offer = m.offer /\ m.offer \in OfferIds
    BY DEF Backs, Awarding, Accept
  <2>2. deals[m.deal] # NoDeal
    BY <2>1, ProcessAssumption DEF NoDeal
  <2> QED
    BY <2>2 DEF Backs, Kept
<1>5. step \in Paid => paid'[m.job] > 0
  <2> SUFFICES ASSUME step \in Paid PROVE paid'[m.job] > 0
    OBVIOUS
  <2>1. m.job \in JobIds /\ paid[m.job] > 0
    BY DEF Backs, Paid, OnJob, Steps
  <2> QED
    BY <2>1 DEF Kept, FilesType
<1>6. step = "settle_job" => receipts'[m.job] # NoReceipt
  BY DEF Backs, Kept, OnJob, Steps
<1>7. step = "identity_meta" => KeyOnFile'
  BY DEF Backs, Kept
<1>8. step = "accept_decline" => \A o \in m.todo: o \in OfferIds /\ offers'[o] # NoOffer
  BY DEF Backs, Kept
<1> QED
  BY <1>2, <1>3, <1>4, <1>5, <1>6, <1>7, <1>8 DEF Backs

-----------------------------------------------------------------------------
(* Every step, whatever runs beside it. *)

\* What a step of process p does to the rest: it keeps what is on file, goes on
\* from a place it is backed at, and leaves the other calls alone.
Sane(p) ==
  /\ FilesType' /\ CallsType' /\ Kept
  /\ Backs(pc[p], mem[p])'
  /\ \A q \in Procs \ {p}: pc'[q] = pc[q] /\ mem'[q] = mem[q]
  /\ alone' = alone

LEMMA SaneIsSound ==
  ASSUME Sound, NEW p \in Procs, Sane(p)
  PROVE  Sound'
<1>1. ASSUME NEW q \in Procs, q # p
      PROVE  Backs(pc[q], mem[q])'
  <2>1. mem[q] \in Mem /\ Backs(pc[q], mem[q]) /\ pc'[q] = pc[q] /\ mem'[q] = mem[q]
    BY <1>1, TypesSplit DEF Sound, Sane, CallsType
  <2>2. PICK step: step = pc[q]
    OBVIOUS
  <2>3. PICK m \in Mem: m = mem[q]
    BY <2>1
  <2>4. Backs(step, m)'
    BY <2>1, <2>2, <2>3, StaysBacked, TypesSplit DEF Sound, Sane
  <2> QED
    BY <2>1, <2>2, <2>3, <2>4
<1>2. TypeOK'
  BY DEF Sane, TypeOK, FilesType, CallsType
<1> QED
  BY <1>1, <1>2 DEF Sound, Sane

\* A call that writes a file and goes on.
LEMMA Writing ==
  ASSUME Sound, NEW p \in Procs, NEW step \in Steps, NEW m \in Mem, Go(p, step, m),
         FilesType', Kept, Backs(step, m)'
  PROVE  Sane(p)
<1>1. CallsType
  BY TypesSplit DEF Sound
<1>2. /\ CallsType' /\ pc'[p] = step /\ mem'[p] = m /\ alone' = alone
      /\ \A q \in Procs \ {p}: pc'[q] = pc[q] /\ mem'[q] = mem[q]
  BY <1>1, Going
<1>3. Backs(pc[p], mem[p])'
  BY <1>2
<1> QED
  BY <1>2, <1>3 DEF Sane

\* A call that only reads and goes on.
LEMMA Reading ==
  ASSUME Sound, NEW p \in Procs, NEW step \in Steps, NEW m \in Mem, Go(p, step, m),
         UNCHANGED <<store, identityFiles>>, Backs(step, m)
  PROVE  Sane(p)
<1>1. FilesType' /\ Kept
  BY ReadingKeeps, TypesSplit DEF Sound
<1>2. Backs(step, m)'
  BY <1>1, StaysBacked, TypesSplit DEF Sound
<1> QED
  BY <1>1, <1>2, Writing

\* A call that ends.
LEMMA Stopping ==
  ASSUME Sound, NEW p \in Procs, End(p), FilesType', Kept
  PROVE  Sane(p)
<1>1. PICK step \in Steps: step = "idle"
  BY DEF Steps
<1>2. PICK m \in Mem: m = NoMem
  BY NoMemType
<1>3. Backs(step, m)'
  BY <1>1 DEF Backs, OnJob, Accept, Awarding, Settle, Paid
<1> QED
  BY <1>1, <1>2, <1>3, Writing DEF End

LEMMA StoppingEarly ==
  ASSUME Sound, NEW p \in Procs, End(p), UNCHANGED <<store, identityFiles>>
  PROVE  Sane(p)
BY Stopping, ReadingKeeps, TypesSplit DEF Sound

\* A job that is saved changes its own file.
LEMMA SavingJob ==
  ASSUME FilesType, NEW p \in Procs, NEW job \in Job, SaveJob(p, job)
  PROVE  FilesType' /\ Kept
<1>1. \A j \in JobIds: paid[j] <= paid[j]
  BY DEF FilesType
<1> QED
  BY <1>1 DEF FilesType, Kept, SaveJob, identityFiles, KeyOnFile, IdentityTypeOK

\* What is known of a call in progress.
LEMMA AtStep ==
  ASSUME Sound, NEW p \in Procs, NEW step, At(p, step)
  PROVE  /\ mem[p] \in Mem /\ mem[p].copy \in Job /\ Backs(step, mem[p])
         /\ FilesType /\ CallsType
BY TypesSplit DEF Sound, At, CallsType, Mem

(* submit_offer and submit_result *)

LEMMA BeginOnJobSane ==
  ASSUME Sound, NEW p \in Procs, NEW j \in JobIds, NEW method,
         NEW step \in OnJob \ (Accept \cup Paid \cup {"settle_record"}),
         step = "settle_pay" => jobs[j].deal # None,
         ReferencesOnFile, BeginOnJob(p, j, method, step)
  PROVE  Sane(p)
<1> DEFINE m == [NoMem EXCEPT !.job = j, !.copy = jobs[j]]
<1>1. m \in Mem /\ m.job = j /\ m.copy = jobs[j]
  BY NoMemType, TypesSplit DEF Sound, FilesType, Mem, NoMem
<1>2. Named(m.copy, m.job)
  BY <1>1 DEF ReferencesOnFile, Named
<1>3. Backs(step, m)
  <2> HIDE DEF m
  <2> QED
    BY <1>1, <1>2 DEF Backs, OnJob, Accept, Awarding, Settle, Paid
<1>4. step \in Steps
  BY DEF OnJob
<1> QED
  <2> HIDE DEF m
  <2> QED
    BY <1>1, <1>3, <1>4, Reading DEF BeginOnJob, m

LEMMA PostJobSane ==
  ASSUME Sound, NEW p \in Procs, NEW j \in JobIds, NEW buyer \in Dids,
         PostJob(p, j, buyer)
  PROVE  Sane(p)
<1> DEFINE job == [NoJob EXCEPT !.status = "POSTED", !.buyer = buyer]
<1>1. job \in Job
  BY NoMemType DEF Job, NoJob, JobStatus
<1>2. FilesType' /\ Kept
  <2>1. \A i \in JobIds: paid[i] <= paid[i]
    BY TypesSplit DEF Sound, FilesType
  <2> HIDE DEF job
  <2> QED
    BY <1>1, <2>1, TypesSplit
    DEF PostJob, Sound, FilesType, Kept, identityFiles, KeyOnFile, IdentityTypeOK, job
<1>3. CallsType' /\ alone' = alone /\ pc'[p] = pc[p] /\ mem'[p] = mem[p]
  BY TypesSplit DEF PostJob, Sound, CallsType
<1>4. Backs(pc[p], mem[p])'
  <2>1. PICK step: step = pc[p]
    OBVIOUS
  <2>2. PICK m \in Mem: m = mem[p]
    BY TypesSplit DEF Sound, CallsType
  <2>3. Backs(step, m)'
    BY <1>2, <2>1, <2>2, StaysBacked, TypesSplit DEF Sound
  <2> QED
    BY <1>3, <2>1, <2>2, <2>3
<1> QED
  BY <1>2, <1>3, <1>4 DEF Sane, PostJob

LEMMA SubmittingSane ==
  ASSUME Sound, ReferencesOnFile, NEW p \in Procs, Submitting(p)
  PROVE  Sane(p)
<1>1. ASSUME NEW j \in JobIds, NEW a \in Dids, PostJob(p, j, a)
      PROVE  Sane(p)
  BY <1>1, PostJobSane
<1>2. ASSUME NEW j \in JobIds, OfferReadsJob(p, j) \/ ResultReadsJob(p, j)
      PROVE  Sane(p)
  BY <1>2, BeginOnJobSane
     DEF OfferReadsJob, ResultReadsJob, Steps, OnJob, Accept, Paid
<1>3. ASSUME NEW o \in OfferIds, NEW a \in Dids, OfferIsSaved(p, o, a)
      PROVE  Sane(p)
  <2>1. /\ mem[p] \in Mem /\ Backs("offer_save", mem[p]) /\ FilesType
        /\ offers[o] = NoOffer
    BY <1>3, AtStep DEF OfferIsSaved
  <2>2. mem[p].job \in JobIds
    BY <2>1 DEF Backs, OnJob, Steps
  <2>3. FilesType'
    BY <1>3, <2>1, <2>2
    DEF OfferIsSaved, FilesType, Offer, identityFiles, IdentityTypeOK
  <2>4. Kept
    <3>1. \A i \in JobIds: paid[i] <= paid[i]
      BY <2>1 DEF FilesType
    <3> QED
      BY <1>3, <2>1, <3>1 DEF OfferIsSaved, FilesType, Kept, identityFiles, KeyOnFile
  <2>5. PICK m \in Mem: m = mem[p]
    BY <2>1
  <2>6. Backs("offer_save", m)'
    BY <2>1, <2>3, <2>4, <2>5, StaysBacked
  <2>7. Backs("offer_job", m)'
    BY <2>6 DEF Backs, OnJob, Accept, Awarding, Settle, Paid, Steps
  <2> QED
    BY <1>3, <2>3, <2>4, <2>5, <2>7, Writing DEF OfferIsSaved, Steps
<1>4. ASSUME OfferedIsSaved(p)
      PROVE  Sane(p)
  <2>1. mem[p].copy \in Job /\ FilesType
    BY <1>4, AtStep DEF OfferedIsSaved
  <2>2. [mem[p].copy EXCEPT !.status = "OFFERED"] \in Job
    BY <2>1 DEF Job, JobStatus
  <2> QED
    BY <1>4, <2>1, <2>2, SavingJob, Stopping DEF OfferedIsSaved
<1>5. ASSUME ResultIsSaved(p)
      PROVE  Sane(p)
  <2>1. mem[p].copy \in Job /\ FilesType
    BY <1>5, AtStep DEF ResultIsSaved
  <2>2. [mem[p].copy EXCEPT !.status = "RESULT_SUBMITTED"] \in Job
    BY <2>1 DEF Job, JobStatus
  <2> QED
    BY <1>5, <2>1, <2>2, SavingJob, Stopping DEF ResultIsSaved
<1> QED
  BY <1>1, <1>2, <1>3, <1>4, <1>5 DEF Submitting

(* accept_offer *)

LEMMA AcceptReadsOfferSane ==
  ASSUME Sound, NEW p \in Procs, NEW o \in OfferIds, AcceptReadsOffer(p, o)
  PROVE  Sane(p)
<1> DEFINE m == [NoMem EXCEPT !.job = offers[o].job, !.offer = o, !.seen = offers[o].status]
<1>1. offers[o] \in Offer /\ offers[o] # NoOffer
  BY TypesSplit DEF AcceptReadsOffer, Sound, FilesType
<1>2. /\ m \in Mem /\ m.job = offers[o].job /\ m.job \in JobIds /\ m.offer = o
      /\ m.copy = NoJob
  BY <1>1, NoMemType DEF Mem, NoMem, Offer
<1>3. Backs("accept_job", m)
  <2> HIDE DEF m
  <2> QED
    BY <1>1, <1>2 DEF Backs, OnJob, Accept, Awarding, Settle, Paid, Named, NoJob
<1> QED
  <2> HIDE DEF m
  <2> QED
    BY <1>2, <1>3, Reading DEF AcceptReadsOffer, Steps, m

LEMMA AcceptReadsJobSane ==
  ASSUME Sound, ReferencesOnFile, NEW p \in Procs, AcceptReadsJob(p)
  PROVE  Sane(p)
<1> DEFINE m == [mem[p] EXCEPT !.copy = jobs[mem[p].job]]
<1>1. /\ mem[p] \in Mem /\ FilesType /\ mem[p].job \in JobIds
      /\ Backs("accept_job", mem[p])
  BY AtStep DEF AcceptReadsJob, Backs, OnJob, Steps
<1>2. /\ m \in Mem /\ m.job = mem[p].job /\ m.offer = mem[p].offer
      /\ m.copy = jobs[m.job]
  BY <1>1 DEF Mem, FilesType
<1>3. Backs("accept_route", m)
  <2> HIDE DEF m
  <2> QED
    BY <1>1, <1>2
    DEF Backs, OnJob, Accept, Awarding, Settle, Paid, Steps, ReferencesOnFile, Named
<1>4. CASE Go(p, "accept_route", m)
  <2> HIDE DEF m
  <2> QED
    BY <1>2, <1>3, <1>4, Reading DEF AcceptReadsJob, Steps
<1>5. CASE End(p)
  BY <1>5, StoppingEarly DEF AcceptReadsJob
<1> QED
  BY <1>4, <1>5 DEF AcceptReadsJob

LEMMA AcceptRoutesSane ==
  ASSUME Sound, NEW p \in Procs, AcceptRoutes(p)
  PROVE  Sane(p)
<1>1. mem[p] \in Mem /\ Backs("accept_route", mem[p])
  BY AtStep DEF AcceptRoutes
<1>2. Backs("accept_deal", mem[p])
  BY <1>1 DEF Backs, OnJob, Accept, Awarding, Settle, Paid, Steps
<1>3. CASE Go(p, "accept_deal", mem[p])
  BY <1>1, <1>2, <1>3, Reading DEF AcceptRoutes, Steps
<1>4. CASE End(p)
  BY <1>4, StoppingEarly DEF AcceptRoutes
<1> QED
  BY <1>3, <1>4 DEF AcceptRoutes

LEMMA DealIsSavedSane ==
  ASSUME Sound, NEW p \in Procs, NEW d \in DealIds, DealIsSaved(p, d)
  PROVE  Sane(p)
<1>1. /\ mem[p] \in Mem /\ Backs("accept_deal", mem[p]) /\ FilesType
      /\ deals[d] = NoDeal
  BY AtStep DEF DealIsSaved
<1>2. mem[p].job \in JobIds /\ mem[p].offer \in OfferIds
  BY <1>1 DEF Backs, OnJob, Accept, Steps
<1>3. FilesType'
  BY <1>1, <1>2 DEF DealIsSaved, FilesType, Deal, identityFiles, IdentityTypeOK
<1>4. Kept
  <2>1. \A i \in JobIds: paid[i] <= paid[i]
    BY <1>1 DEF FilesType
  <2> QED
    BY <1>1, <2>1 DEF DealIsSaved, FilesType, Kept, identityFiles, KeyOnFile
<1>5. PICK m \in Mem: m = [mem[p] EXCEPT !.deal = d]
  BY <1>1 DEF Mem
<1>6. /\ m.job = mem[p].job /\ m.offer = mem[p].offer /\ m.copy = mem[p].copy
      /\ m.deal = d
  BY <1>1, <1>5 DEF Mem
<1>7. Backs("accept_deal", m)
  BY <1>1, <1>6 DEF Backs, OnJob, Accept, Awarding, Settle, Paid, Steps
<1>8. Backs("accept_deal", m)'
  BY <1>1, <1>3, <1>4, <1>7, StaysBacked
<1>9. deals'[d] = [job |-> m.job, offer |-> m.offer]
  BY <1>1, <1>6 DEF DealIsSaved, FilesType
<1>10. Backs("accept_offer", m)'
  BY <1>6, <1>8, <1>9 DEF Backs, OnJob, Accept, Awarding, Settle, Paid, Steps
<1> QED
  BY <1>3, <1>4, <1>5, <1>10, Writing DEF DealIsSaved, Steps

\* An offer on file that gets another status stays about what it was.
LEMMA OfferStatusChanges ==
  ASSUME FilesType, NEW o \in OfferIds, offers[o] # NoOffer,
         NEW status \in {"ACCEPTED", "DECLINED"},
         offers' = [offers EXCEPT ![o].status = status],
         UNCHANGED <<jobs, deals, receipts, profiles, paid, identityFiles>>
  PROVE  FilesType' /\ Kept
<1>1. offers[o] \in Offer
  BY DEF FilesType
<1>2. PICK e \in Offer: e = [offers[o] EXCEPT !.status = status]
  BY <1>1 DEF Offer
<1>3. e # NoOffer /\ e.job = offers[o].job /\ e.seller = offers[o].seller
  BY <1>1, <1>2 DEF Offer, NoOffer
<1>4. offers' = [offers EXCEPT ![o] = e]
  BY <1>2
<1>5. FilesType'
  BY <1>4 DEF FilesType, identityFiles, IdentityTypeOK
<1>6. \A i \in JobIds: paid[i] <= paid[i]
  BY DEF FilesType
<1> QED
  BY <1>3, <1>4, <1>5, <1>6 DEF FilesType, Kept, identityFiles, KeyOnFile

LEMMA AcceptedOfferIsSavedSane ==
  ASSUME Sound, NEW p \in Procs, AcceptedOfferIsSaved(p)
  PROVE  Sane(p)
<1>1. mem[p] \in Mem /\ Backs("accept_offer", mem[p]) /\ FilesType
  BY AtStep DEF AcceptedOfferIsSaved
<1>2. mem[p].offer \in OfferIds /\ offers[mem[p].offer] # NoOffer
  BY <1>1 DEF Backs, Accept
<1>3. FilesType' /\ Kept
  BY <1>1, <1>2, OfferStatusChanges DEF AcceptedOfferIsSaved
<1>4. PICK m \in Mem: m = mem[p]
  BY <1>1
<1>5. Backs("accept_list", m)
  BY <1>1, <1>4 DEF Backs, OnJob, Accept, Awarding, Settle, Paid, Steps
<1>6. Backs("accept_list", m)'
  BY <1>1, <1>3, <1>5, StaysBacked
<1> QED
  BY <1>3, <1>4, <1>6, Writing DEF AcceptedOfferIsSaved, Steps

LEMMA AcceptListsOthersSane ==
  ASSUME Sound, NEW p \in Procs, AcceptListsOthers(p)
  PROVE  Sane(p)
<1> DEFINE others == ListOffers(mem[p].job, "OPEN") \ {mem[p].offer}
<1>1. mem[p] \in Mem /\ Backs("accept_list", mem[p]) /\ FilesType
  BY AtStep DEF AcceptListsOthers
<1>2. \A o \in others: o \in OfferIds /\ offers[o] # NoOffer
  BY DEF ListOffers, NoOffer
<1>3. PICK m \in Mem: m = [mem[p] EXCEPT !.todo = others]
  BY <1>1, <1>2 DEF Mem
<1>4. /\ m.job = mem[p].job /\ m.offer = mem[p].offer /\ m.copy = mem[p].copy
      /\ m.deal = mem[p].deal /\ m.todo = others
  BY <1>1, <1>3 DEF Mem
<1>5. Backs("accept_decline", m)
  <2> HIDE DEF others
  <2> QED
    BY <1>1, <1>2, <1>4 DEF Backs, OnJob, Accept, Awarding, Settle, Paid, Steps
<1> QED
  BY <1>3, <1>5, Reading DEF AcceptListsOthers, Steps

LEMMA DeclinedIsSavedSane ==
  ASSUME Sound, NEW p \in Procs, NEW o \in OfferIds, DeclinedIsSaved(p, o)
  PROVE  Sane(p)
<1>1. mem[p] \in Mem /\ Backs("accept_decline", mem[p]) /\ FilesType /\ o \in mem[p].todo
  BY AtStep DEF DeclinedIsSaved
<1>2. offers[o] # NoOffer
  BY <1>1 DEF Backs
<1>3. FilesType' /\ Kept
  BY <1>1, <1>2, OfferStatusChanges DEF DeclinedIsSaved
<1>4. PICK m \in Mem: m = [mem[p] EXCEPT !.todo = @ \ {o}]
  BY <1>1 DEF Mem
<1>5. /\ m.job = mem[p].job /\ m.offer = mem[p].offer /\ m.copy = mem[p].copy
      /\ m.deal = mem[p].deal /\ m.todo = mem[p].todo \ {o}
  BY <1>1, <1>4 DEF Mem
<1>6. Backs("accept_decline", m)
  BY <1>1, <1>5 DEF Backs, OnJob, Accept, Awarding, Settle, Paid, Steps
<1>7. Backs("accept_decline", m)'
  BY <1>1, <1>3, <1>6, StaysBacked
<1> QED
  BY <1>3, <1>4, <1>7, Writing DEF DeclinedIsSaved, Steps

LEMMA AcceptedIsSavedSane ==
  ASSUME Sound, NEW p \in Procs, AcceptedIsSaved(p)
  PROVE  Sane(p)
<1>1. mem[p] \in Mem /\ mem[p].copy \in Job /\ FilesType
  BY AtStep DEF AcceptedIsSaved
<1>2. [mem[p].copy EXCEPT !.status = "ACCEPTED", !.offer = mem[p].offer,
                          !.deal = mem[p].deal] \in Job
  BY <1>1 DEF Job, JobStatus, Mem
<1> QED
  BY <1>1, <1>2, SavingJob, Stopping DEF AcceptedIsSaved

LEMMA AcceptingSane ==
  ASSUME Sound, ReferencesOnFile, NEW p \in Procs, Accepting(p)
  PROVE  Sane(p)
BY AcceptReadsOfferSane, DeclinedIsSavedSane, AcceptReadsJobSane, AcceptRoutesSane,
   DealIsSavedSane, AcceptedOfferIsSavedSane, AcceptListsOthersSane, AcceptedIsSavedSane
   DEF Accepting

(* verify, refund and settle *)

LEMMA ConcludingReadsSane ==
  ASSUME Sound, ReferencesOnFile, NEW p \in Procs, NEW j \in JobIds,
         VerifyReadsJob(p, j) \/ RefundReadsJob(p, j) \/ SettleReadsJob(p, j)
  PROVE  Sane(p)
BY BeginOnJobSane
   DEF VerifyReadsJob, RefundReadsJob, SettleReadsJob, Steps, OnJob, Accept, Paid

LEMMA VerdictIsSavedSane ==
  ASSUME Sound, NEW p \in Procs, NEW status \in JobStatus, VerdictIsSaved(p, status)
  PROVE  Sane(p)
<1>1. mem[p].copy \in Job /\ FilesType
  BY AtStep DEF VerdictIsSaved
<1>2. [mem[p].copy EXCEPT !.status = status] \in Job
  BY <1>1 DEF Job
<1> QED
  BY <1>1, <1>2, SavingJob, Stopping DEF VerdictIsSaved

LEMMA RefundedIsSavedSane ==
  ASSUME Sound, NEW p \in Procs, RefundedIsSaved(p)
  PROVE  Sane(p)
<1>1. mem[p].copy \in Job /\ FilesType
  BY AtStep DEF RefundedIsSaved
<1>2. [mem[p].copy EXCEPT !.status = "REFUNDED"] \in Job
  BY <1>1 DEF Job, JobStatus
<1> QED
  BY <1>1, <1>2, SavingJob, Stopping DEF RefundedIsSaved

LEMMA SettlePaysSane ==
  ASSUME Sound, NEW p \in Procs, SettlePays(p)
  PROVE  Sane(p)
<1>1. mem[p] \in Mem /\ Backs("settle_pay", mem[p]) /\ FilesType
  BY AtStep DEF SettlePays
<1>2. mem[p].job \in JobIds
  BY <1>1 DEF Backs, OnJob, Steps
<1>3. PICK n \in 0 .. MaxPayouts: n = paid[mem[p].job]
  BY <1>1, <1>2 DEF FilesType
<1>4. n < MaxPayouts /\ n + 1 \in 1 .. MaxPayouts /\ n + 1 \in 0 .. MaxPayouts
  BY <1>3, ProcessAssumption DEF SettlePays
<1>5. paid' = [paid EXCEPT ![mem[p].job] = n + 1]
  BY <1>3 DEF SettlePays
<1>6. FilesType'
  BY <1>1, <1>2, <1>4, <1>5, ProcessAssumption
  DEF SettlePays, FilesType, identityFiles, IdentityTypeOK
<1>7. Kept
  <2>1. \A i \in JobIds: paid[i] <= paid'[i]
    BY <1>1, <1>2, <1>3, <1>5 DEF FilesType
  <2> QED
    BY <2>1 DEF SettlePays, Kept, identityFiles, KeyOnFile
<1>8. PICK m \in Mem: m = [mem[p] EXCEPT !.payout = n + 1]
  BY <1>1, <1>4 DEF Mem
<1>9. m.job = mem[p].job /\ m.copy = mem[p].copy /\ m.payout = n + 1
  BY <1>1, <1>8 DEF Mem
<1>10. Backs("settle_pay", m)
  BY <1>1, <1>9 DEF Backs, OnJob, Accept, Awarding, Settle, Paid, Steps
<1>11. Backs("settle_pay", m)'
  BY <1>1, <1>6, <1>7, <1>10, StaysBacked
<1>12. paid'[m.job] > 0
  BY <1>1, <1>2, <1>4, <1>5, <1>9 DEF FilesType
<1>13. Backs("settle_key", m)'
  BY <1>4, <1>9, <1>11, <1>12 DEF Backs, OnJob, Accept, Awarding, Settle, Paid, Steps
<1> QED
  BY <1>3, <1>6, <1>7, <1>8, <1>13, Writing DEF SettlePays, Steps

LEMMA SettleReadsKeySane ==
  ASSUME Sound, NEW p \in Procs, SettleReadsKey(p)
  PROVE  Sane(p)
<1>1. mem[p] \in Mem /\ Backs("settle_key", mem[p]) /\ FilesType
  BY AtStep DEF SettleReadsKey
<1>2. CASE End(p)
  BY <1>2, StoppingEarly DEF SettleReadsKey
<1>3. CASE KeyOnFile /\ Go(p, "settle_meta", [mem[p] EXCEPT !.key = pem])
  <2>1. pem \in Keys
    BY <1>1, <1>3 DEF FilesType, IdentityTypeOK, KeyOnFile
  <2>2. PICK m \in Mem: m = [mem[p] EXCEPT !.key = pem]
    BY <1>1, <2>1 DEF Mem
  <2>3. /\ m.job = mem[p].job /\ m.copy = mem[p].copy /\ m.payout = mem[p].payout
        /\ m.key = pem
    BY <1>1, <2>2 DEF Mem
  <2>4. Backs("settle_meta", m)
    BY <1>1, <2>1, <2>3 DEF Backs, OnJob, Accept, Awarding, Settle, Paid, Steps
  <2> QED
    BY <1>3, <2>2, <2>4, Reading DEF SettleReadsKey, Steps
<1> QED
  BY <1>2, <1>3 DEF SettleReadsKey

LEMMA SettleReadsDidSane ==
  ASSUME Sound, NEW p \in Procs, SettleReadsDid(p)
  PROVE  Sane(p)
<1>1. mem[p] \in Mem /\ Backs("settle_meta", mem[p]) /\ FilesType
  BY AtStep DEF SettleReadsDid
<1>2. CASE End(p)
  BY <1>2, StoppingEarly DEF SettleReadsDid
<1>3. CASE MetadataOnFile /\ Go(p, "settle_receipt", [mem[p] EXCEPT !.did = meta])
  <2>1. meta \in Keys
    BY <1>1, <1>3 DEF FilesType, IdentityTypeOK, MetadataOnFile
  <2>2. PICK m \in Mem: m = [mem[p] EXCEPT !.did = meta]
    BY <1>1, <2>1 DEF Mem
  <2>3. /\ m.job = mem[p].job /\ m.copy = mem[p].copy /\ m.payout = mem[p].payout
        /\ m.key = mem[p].key /\ m.did = meta
    BY <1>1, <2>2 DEF Mem
  <2>4. Backs("settle_receipt", m)
    BY <1>1, <2>1, <2>3 DEF Backs, OnJob, Accept, Awarding, Settle, Paid, Steps
  <2> QED
    BY <1>3, <2>2, <2>4, Reading DEF SettleReadsDid, Steps
<1> QED
  BY <1>2, <1>3 DEF SettleReadsDid

\* The receipt a call at settle_receipt writes.
ReceiptOf(m) == [deal |-> m.copy.deal, payout |-> m.payout, key |-> m.key, did |-> m.did]

LEMMA ReceiptIsSavedSane ==
  ASSUME Sound, NEW p \in Procs, ReceiptIsSaved(p)
  PROVE  Sane(p)
<1>1. mem[p] \in Mem /\ mem[p].copy \in Job /\ Backs("settle_receipt", mem[p]) /\ FilesType
  BY AtStep DEF ReceiptIsSaved
<1>2. mem[p].job \in JobIds
  BY <1>1 DEF Backs, OnJob, Steps
<1>3. PICK r \in Receipt: r = ReceiptOf(mem[p])
  <2>1. /\ mem[p].copy.deal \in DealIds /\ mem[p].payout \in 1 .. MaxPayouts
        /\ mem[p].key \in Keys /\ mem[p].did \in Keys
    BY <1>1 DEF Backs, Settle, Paid, Job
  <2> QED
    BY <2>1 DEF ReceiptOf, Receipt
<1>4. r # NoReceipt
  BY ProcessAssumption DEF Receipt, NoReceipt
<1>5. receipts' = [receipts EXCEPT ![mem[p].job] = r]
  BY <1>3 DEF ReceiptIsSaved, ReceiptOf
<1>6. FilesType'
  BY <1>1, <1>2, <1>5 DEF ReceiptIsSaved, FilesType, identityFiles, IdentityTypeOK
<1>7. Kept
  <2>1. \A i \in JobIds: paid[i] <= paid[i]
    BY <1>1 DEF FilesType
  <2> QED
    BY <1>1, <1>2, <1>4, <1>5, <2>1
    DEF ReceiptIsSaved, FilesType, Kept, identityFiles, KeyOnFile
<1>8. PICK m \in Mem: m = mem[p]
  BY <1>1
<1>9. Backs("settle_receipt", m)'
  BY <1>1, <1>6, <1>7, <1>8, StaysBacked
<1>10. receipts'[m.job] # NoReceipt
  BY <1>1, <1>2, <1>4, <1>5, <1>8 DEF FilesType
<1>11. Backs("settle_job", m)'
  BY <1>9, <1>10 DEF Backs, OnJob, Accept, Awarding, Settle, Paid, Steps
<1> QED
  BY <1>6, <1>7, <1>8, <1>11, Writing DEF ReceiptIsSaved, Steps

LEMMA CompletedIsSavedSane ==
  ASSUME Sound, NEW p \in Procs, CompletedIsSaved(p)
  PROVE  Sane(p)
<1>1. mem[p] \in Mem /\ mem[p].copy \in Job /\ Backs("settle_job", mem[p]) /\ FilesType
  BY AtStep DEF CompletedIsSaved
<1>2. [mem[p].copy EXCEPT !.status = "COMPLETED", !.receipt = mem[p].payout] \in Job
  BY <1>1 DEF Job, JobStatus, Mem
<1>3. FilesType' /\ Kept
  BY <1>1, <1>2, SavingJob DEF CompletedIsSaved
<1>4. Parties(mem[p].copy) \in SUBSET (OfferIds \cup Dids \cup {None})
  <2>1. mem[p].copy.deal \in DealIds /\ mem[p].job \in JobIds
        /\ Named(mem[p].copy, mem[p].job)
    BY <1>1 DEF Backs, Settle, Job, OnJob, Steps
  <2>2. deals[mem[p].copy.deal] # NoDeal /\ deals[mem[p].copy.deal].offer = mem[p].copy.offer
    <3>1. deals[mem[p].copy.deal].job = mem[p].job
          /\ deals[mem[p].copy.deal].offer = mem[p].copy.offer
      BY <2>1, ProcessAssumption DEF Named
    <3> QED
      BY <2>1, <3>1, ProcessAssumption DEF NoDeal
  <2>3. mem[p].copy.offer \in OfferIds
    BY <1>1, <2>1, <2>2 DEF FilesType, Deal
  <2>4. offers[mem[p].copy.offer].seller \in Dids \cup {None}
    BY <1>1, <2>3 DEF FilesType, Offer, NoOffer
  <2> QED
    BY <1>1, <2>4 DEF Parties, Job
<1>5. PICK m \in Mem: m = [mem[p] EXCEPT !.todo = Parties(mem[p].copy)]
  BY <1>1, <1>4 DEF Mem
<1>6. m.job = mem[p].job /\ m.copy = mem[p].copy
  BY <1>1, <1>5 DEF Mem
<1>7. Backs("settle_load", m)
  BY <1>1, <1>6 DEF Backs, OnJob, Accept, Awarding, Settle, Paid, Steps
<1>8. Backs("settle_load", m)'
  BY <1>1, <1>3, <1>7, StaysBacked
<1> QED
  BY <1>3, <1>5, <1>8, Writing DEF CompletedIsSaved, Steps

LEMMA ProfileIsLoadedSane ==
  ASSUME Sound, NEW p \in Procs, NEW a \in Dids, ProfileIsLoaded(p, a)
  PROVE  Sane(p)
<1>1. mem[p] \in Mem /\ Backs("settle_load", mem[p]) /\ FilesType
  BY AtStep DEF ProfileIsLoaded
<1>2. PICK m \in Mem:
        m = [mem[p] EXCEPT !.party = a, !.count = profiles[a], !.todo = @ \ {a}]
  BY <1>1 DEF Mem, FilesType
<1>3. m.job = mem[p].job /\ m.copy = mem[p].copy /\ m.party = a
  BY <1>1, <1>2 DEF Mem
<1>4. Backs("settle_record", m)
  BY <1>1, <1>3 DEF Backs, OnJob, Accept, Awarding, Settle, Paid, Steps
<1> QED
  BY <1>2, <1>4, Reading DEF ProfileIsLoaded, Steps

LEMMA ProfileIsSavedSane ==
  ASSUME Sound, NEW p \in Procs, ProfileIsSaved(p)
  PROVE  Sane(p)
<1>1. mem[p] \in Mem /\ Backs("settle_record", mem[p]) /\ FilesType
  BY AtStep DEF ProfileIsSaved
<1>2. mem[p].count + 1 \in Nat
  BY <1>1 DEF Mem
<1>3. FilesType'
  BY <1>1, <1>2 DEF ProfileIsSaved, FilesType, identityFiles, IdentityTypeOK
<1>4. Kept
  <2>1. \A i \in JobIds: paid[i] <= paid[i]
    BY <1>1 DEF FilesType
  <2> QED
    BY <2>1 DEF ProfileIsSaved, Kept, identityFiles, KeyOnFile
<1>5. CASE End(p)
  BY <1>3, <1>4, <1>5, Stopping
<1>6. CASE Go(p, "settle_load", mem[p])
  <2>1. PICK m \in Mem: m = mem[p]
    BY <1>1
  <2>2. Backs("settle_load", m)
    BY <1>1, <2>1 DEF Backs, OnJob, Accept, Awarding, Settle, Paid, Steps
  <2>3. Backs("settle_load", m)'
    BY <1>1, <1>3, <1>4, <2>2, StaysBacked
  <2> QED
    BY <1>3, <1>4, <1>6, <2>1, <2>3, Writing DEF Steps
<1> QED
  BY <1>5, <1>6 DEF ProfileIsSaved

LEMMA ConcludingSane ==
  ASSUME Sound, ReferencesOnFile, NEW p \in Procs, Concluding(p)
  PROVE  Sane(p)
BY ConcludingReadsSane, VerdictIsSavedSane, RefundedIsSavedSane, SettlePaysSane,
   SettleReadsKeySane, SettleReadsDidSane, ReceiptIsSavedSane, CompletedIsSavedSane,
   ProfileIsLoadedSane, ProfileIsSavedSane
   DEF Concluding

(* The identity *)

LEMMA CreatingIdentitySane ==
  ASSUME Sound, NEW p \in Procs, CreatingIdentity(p)
  PROVE  Sane(p)
<1> USE DEF Backs, OnJob, Accept, Awarding, Settle, Paid
<1>1. ASSUME InitIdentity(p)
      PROVE  Sane(p)
  <2>1. Backs("identity_pem", NoMem)
    OBVIOUS
  <2> QED
    BY <1>1, <2>1, NoMemType, Reading DEF InitIdentity, Steps
<1>2. ASSUME NEW k \in Keys, KeyIsWritten(p, k)
      PROVE  Sane(p)
  <2>1. mem[p] \in Mem /\ FilesType
    BY <1>2, AtStep DEF KeyIsWritten
  <2>2. PICK m \in Mem: m = [mem[p] EXCEPT !.key = k]
    BY <2>1 DEF Mem
  <2>3. FilesType' /\ pem' = k /\ KeyOnFile'
    BY <1>2, <2>1, KeyAssumption
    DEF KeyIsWritten, WriteKey, store, FilesType, IdentityTypeOK, KeyOnFile
  <2>4. Kept
    <3>1. \A i \in JobIds: paid[i] <= paid[i]
      BY <2>1 DEF FilesType
    <3> QED
      BY <1>2, <2>3, <3>1 DEF KeyIsWritten, store, Kept
  <2>5. m.key = k
    BY <2>1, <2>2 DEF Mem
  <2>6. Backs("identity_meta", m)'
    BY <2>3, <2>5
  <2> QED
    BY <1>2, <2>2, <2>3, <2>4, <2>6, Writing DEF KeyIsWritten, Steps
<1>3. ASSUME MetadataIsWritten(p)
      PROVE  Sane(p)
  <2>1. mem[p].key \in Keys /\ FilesType
    <3>1. Backs("identity_meta", mem[p]) /\ FilesType
      BY <1>3, AtStep DEF MetadataIsWritten
    <3> QED
      BY <3>1
  <2>2. FilesType'
    BY <1>3, <2>1 DEF MetadataIsWritten, WriteMetadata, store, FilesType, IdentityTypeOK
  <2>3. Kept
    <3>1. \A i \in JobIds: paid[i] <= paid[i]
      BY <2>1 DEF FilesType
    <3> QED
      BY <1>3, <3>1 DEF MetadataIsWritten, WriteMetadata, store, Kept, KeyOnFile
  <2> QED
    BY <1>3, <2>2, <2>3, Stopping DEF MetadataIsWritten
<1> QED
  BY <1>1, <1>2, <1>3 DEF CreatingIdentity

\* Every step of every process keeps what is on file, and what calls rely on.
LEMMA StepSane ==
  ASSUME Sound, ReferencesOnFile, NEW p \in Procs,
         Submitting(p) \/ Accepting(p) \/ Concluding(p) \/ CreatingIdentity(p) \/ Killed(p)
  PROVE  Sane(p)
BY SubmittingSane, AcceptingSane, ConcludingSane, CreatingIdentitySane, StoppingEarly
   DEF Killed

-----------------------------------------------------------------------------
(* What is on file, whatever interleaves and wherever a call is killed. *)

\* What a step writes names what is on file.
WellFiled ==
  /\ \A j \in JobIds:
       \/ jobs'[j] = jobs[j]
       \/ /\ Named(jobs'[j], j)
          /\ jobs'[j].status = "COMPLETED" => receipts[j] # NoReceipt
  /\ \A j \in JobIds:
       \/ receipts'[j] = receipts[j]
       \/ deals[receipts'[j].deal].job = j
  /\ meta' = meta \/ KeyOnFile

LEMMA WellFiledIsFiled ==
  ASSUME FilesType, FilesType', Kept, Filed, WellFiled
  PROVE  Filed'
<1>1. ASSUME NEW j \in JobIds, jobs'[j].deal # None
      PROVE  /\ deals'[jobs'[j].deal] = [job |-> j, offer |-> jobs'[j].offer]
             /\ offers'[jobs'[j].offer].job = j
  <2>1. PICK job \in Job: job = jobs'[j]
    BY DEF FilesType
  <2>2. Named(job, j)
    BY <2>1 DEF WellFiled, Filed, ReferencesOnFile, Named
  <2> QED
    BY <1>1, <2>1, <2>2, StaysNamed DEF Named
<1>2. ASSUME NEW j \in JobIds, receipts'[j] # NoReceipt
      PROVE  deals'[receipts'[j].deal].job = j
  <2>1. deals[receipts'[j].deal].job = j
    BY <1>2 DEF WellFiled, Filed, ReferencesOnFile
  <2>2. receipts'[j].deal \in DealIds
    BY <1>2 DEF FilesType, Receipt
  <2>3. deals[receipts'[j].deal] # NoDeal
    BY <2>1, ProcessAssumption DEF NoDeal
  <2> QED
    BY <2>1, <2>2, <2>3 DEF Kept
<1>3. CompletedHasReceipt'
  BY DEF WellFiled, Filed, CompletedHasReceipt, Kept
<1>4. MetadataHasKey'
  BY DEF WellFiled, Filed, MetadataHasKey, MetadataOnFile, Kept
<1> QED
  BY <1>1, <1>2, <1>3, <1>4 DEF Filed, ReferencesOnFile

\* A job saved by the call that holds it.
LEMMA SaveIsWellFiled ==
  ASSUME FilesType, NEW p \in Procs, NEW job \in Job, SaveJob(p, job),
         Named(job, mem[p].job), mem[p].job \in JobIds,
         job.status = "COMPLETED" => receipts[mem[p].job] # NoReceipt
  PROVE  WellFiled
BY DEF SaveJob, WellFiled, FilesType, identityFiles

LEMMA SubmittingFiles ==
  ASSUME Sound, Filed, NEW p \in Procs, Submitting(p)
  PROVE  WellFiled
<1>1. ASSUME NEW j \in JobIds, NEW a \in Dids, PostJob(p, j, a)
      PROVE  WellFiled
  BY <1>1, TypesSplit DEF PostJob, Sound, FilesType, WellFiled, Named, NoJob, identityFiles
<1>2. ASSUME NEW j \in JobIds, OfferReadsJob(p, j) \/ ResultReadsJob(p, j)
      PROVE  WellFiled
  BY <1>2 DEF OfferReadsJob, ResultReadsJob, BeginOnJob, WellFiled, store, identityFiles
<1>3. ASSUME NEW o \in OfferIds, NEW a \in Dids, OfferIsSaved(p, o, a)
      PROVE  WellFiled
  BY <1>3 DEF OfferIsSaved, WellFiled, identityFiles
<1>4. ASSUME OfferedIsSaved(p)
      PROVE  WellFiled
  <2>1. mem[p].copy \in Job /\ FilesType /\ Backs("offer_job", mem[p])
    BY <1>4, AtStep DEF OfferedIsSaved
  <2>2. PICK job \in Job: job = [mem[p].copy EXCEPT !.status = "OFFERED"]
    BY <2>1 DEF Job, JobStatus
  <2>3. mem[p].job \in JobIds /\ Named(mem[p].copy, mem[p].job)
    BY <2>1 DEF Backs, OnJob, Steps
  <2>4. Named(job, mem[p].job) /\ job.status = "OFFERED"
    BY <2>1, <2>2, <2>3 DEF Named, Job
  <2> QED
    BY <1>4, <2>1, <2>2, <2>3, <2>4, SaveIsWellFiled DEF OfferedIsSaved
<1>5. ASSUME ResultIsSaved(p)
      PROVE  WellFiled
  <2>1. mem[p].copy \in Job /\ FilesType /\ Backs("result_save", mem[p])
    BY <1>5, AtStep DEF ResultIsSaved
  <2>2. PICK job \in Job: job = [mem[p].copy EXCEPT !.status = "RESULT_SUBMITTED"]
    BY <2>1 DEF Job, JobStatus
  <2>3. mem[p].job \in JobIds /\ Named(mem[p].copy, mem[p].job)
    BY <2>1 DEF Backs, OnJob, Steps
  <2>4. Named(job, mem[p].job) /\ job.status = "RESULT_SUBMITTED"
    BY <2>1, <2>2, <2>3 DEF Named, Job
  <2> QED
    BY <1>5, <2>1, <2>2, <2>3, <2>4, SaveIsWellFiled DEF ResultIsSaved
<1> QED
  BY <1>1, <1>2, <1>3, <1>4, <1>5 DEF Submitting

LEMMA AcceptingFiles ==
  ASSUME Sound, Filed, NEW p \in Procs, Accepting(p)
  PROVE  WellFiled
<1>1. CASE AcceptedIsSaved(p)
  <2>1. /\ mem[p].copy \in Job /\ mem[p] \in Mem /\ FilesType
        /\ Backs("accept_decline", mem[p])
    BY <1>1, AtStep DEF AcceptedIsSaved
  <2>2. PICK job \in Job: job = [mem[p].copy EXCEPT !.status = "ACCEPTED",
                                    !.offer = mem[p].offer, !.deal = mem[p].deal]
    BY <2>1 DEF Job, JobStatus, Mem
  <2>3. /\ mem[p].job \in JobIds
        /\ deals[mem[p].deal] = [job |-> mem[p].job, offer |-> mem[p].offer]
        /\ offers[mem[p].offer].job = mem[p].job
    BY <2>1 DEF Backs, OnJob, Steps, Awarding, Accept
  <2>4. job.status = "ACCEPTED" /\ job.offer = mem[p].offer /\ job.deal = mem[p].deal
    BY <2>1, <2>2 DEF Job
  <2>5. Named(job, mem[p].job)
    BY <2>3, <2>4 DEF Named
  <2> QED
    BY <1>1, <2>1, <2>2, <2>3, <2>4, <2>5, SaveIsWellFiled DEF AcceptedIsSaved
<1>2. CASE UNCHANGED <<jobs, receipts, meta>>
  BY <1>2 DEF WellFiled
<1>3. AcceptedIsSaved(p) \/ UNCHANGED <<jobs, receipts, meta>>
  BY DEF Accepting, AcceptReadsOffer, DeclinedIsSaved, AcceptReadsJob, AcceptRoutes,
         DealIsSaved, AcceptedOfferIsSaved, AcceptListsOthers, store, identityFiles
<1> QED
  BY <1>1, <1>2, <1>3

LEMMA ConcludingFiles ==
  ASSUME Sound, Filed, NEW p \in Procs, Concluding(p)
  PROVE  WellFiled
<1>1. ASSUME NEW status \in JobStatus, VerdictIsSaved(p, status)
      PROVE  WellFiled
  <2>1. mem[p].copy \in Job /\ FilesType /\ Backs("verify_save", mem[p])
    BY <1>1, AtStep DEF VerdictIsSaved
  <2>2. PICK job \in Job: job = [mem[p].copy EXCEPT !.status = status]
    BY <2>1 DEF Job
  <2>3. mem[p].job \in JobIds /\ Named(mem[p].copy, mem[p].job)
    BY <2>1 DEF Backs, OnJob, Steps
  <2>4. Named(job, mem[p].job) /\ job.status # "COMPLETED"
    BY <1>1, <2>1, <2>2, <2>3 DEF Named, Job, VerdictIsSaved
  <2> QED
    BY <1>1, <2>1, <2>2, <2>3, <2>4, SaveIsWellFiled DEF VerdictIsSaved
<1>2. CASE RefundedIsSaved(p)
  <2>1. mem[p].copy \in Job /\ FilesType /\ Backs("refund_save", mem[p])
    BY <1>2, AtStep DEF RefundedIsSaved
  <2>2. PICK job \in Job: job = [mem[p].copy EXCEPT !.status = "REFUNDED"]
    BY <2>1 DEF Job, JobStatus
  <2>3. mem[p].job \in JobIds /\ Named(mem[p].copy, mem[p].job)
    BY <2>1 DEF Backs, OnJob, Steps
  <2>4. Named(job, mem[p].job) /\ job.status # "COMPLETED"
    BY <2>1, <2>2, <2>3 DEF Named, Job
  <2> QED
    BY <1>2, <2>1, <2>2, <2>3, <2>4, SaveIsWellFiled DEF RefundedIsSaved
<1>3. CASE ReceiptIsSaved(p)
  <2>1. Backs("settle_receipt", mem[p]) /\ FilesType
    BY <1>3, AtStep DEF ReceiptIsSaved
  <2>2. /\ mem[p].job \in JobIds /\ Named(mem[p].copy, mem[p].job)
        /\ mem[p].copy.deal # None
    BY <2>1 DEF Backs, OnJob, Steps, Settle
  <2>3. deals[mem[p].copy.deal].job = mem[p].job
    BY <2>2 DEF Named
  <2> QED
    BY <1>3, <2>1, <2>2, <2>3 DEF ReceiptIsSaved, WellFiled, FilesType, identityFiles
<1>4. CASE CompletedIsSaved(p)
  <2>1. /\ mem[p].copy \in Job /\ mem[p] \in Mem /\ FilesType
        /\ Backs("settle_job", mem[p])
    BY <1>4, AtStep DEF CompletedIsSaved
  <2>2. PICK job \in Job:
          job = [mem[p].copy EXCEPT !.status = "COMPLETED", !.receipt = mem[p].payout]
    BY <2>1 DEF Job, JobStatus, Mem
  <2>3. mem[p].job \in JobIds /\ Named(mem[p].copy, mem[p].job)
        /\ receipts[mem[p].job] # NoReceipt
    BY <2>1 DEF Backs, OnJob, Steps
  <2>4. Named(job, mem[p].job)
    BY <2>1, <2>2, <2>3 DEF Named, Job
  <2> QED
    BY <1>4, <2>1, <2>2, <2>3, <2>4, SaveIsWellFiled DEF CompletedIsSaved
<1>5. CASE UNCHANGED <<jobs, receipts, meta>>
  BY <1>5 DEF WellFiled
<1>6. \/ \E status \in JobStatus: VerdictIsSaved(p, status)
      \/ RefundedIsSaved(p) \/ ReceiptIsSaved(p) \/ CompletedIsSaved(p)
      \/ UNCHANGED <<jobs, receipts, meta>>
  BY DEF Concluding, VerifyReadsJob, RefundReadsJob, SettleReadsJob, BeginOnJob, SettlePays,
         SettleReadsKey, SettleReadsDid, ProfileIsLoaded, ProfileIsSaved, store, identityFiles
<1> QED
  BY <1>1, <1>2, <1>3, <1>4, <1>5, <1>6

LEMMA CreatingIdentityFiles ==
  ASSUME Sound, NEW p \in Procs, CreatingIdentity(p)
  PROVE  WellFiled
<1>1. MetadataIsWritten(p) => KeyOnFile
  BY AtStep DEF MetadataIsWritten, Backs
<1> QED
  BY <1>1 DEF CreatingIdentity, InitIdentity, KeyIsWritten, MetadataIsWritten, WriteKey,
              WriteMetadata, WellFiled, store, identityFiles

LEMMA InitSound == Init => Sound /\ Filed
<1> SUFFICES ASSUME Init PROVE Sound /\ Filed
  OBVIOUS
<1>1. TypeOK
  BY NoMemType, ProcessAssumption
  DEF Init, TypeOK, IdentityInit, IdentityTypeOK, Steps
<1>2. \A p \in Procs: Backs(pc[p], mem[p])
  BY DEF Init, Backs, OnJob, Accept, Awarding, Settle, Paid
<1>3. Filed
  BY DEF Init, Filed, ReferencesOnFile, CompletedHasReceipt, MetadataHasKey, NoJob,
         IdentityInit, MetadataOnFile
<1> QED
  BY <1>1, <1>2, <1>3 DEF Sound

LEMMA NextSound ==
  ASSUME Sound, Filed, [Next]_vars
  PROVE  Sound' /\ Filed'
<1>1. ASSUME NEW p \in Procs,
             Submitting(p) \/ Accepting(p) \/ Concluding(p) \/ CreatingIdentity(p) \/ Killed(p)
      PROVE  Sound' /\ Filed'
  <2>1. Sane(p)
    BY <1>1, StepSane DEF Filed
  <2>2. WellFiled
    <3>1. Killed(p) => WellFiled
      BY DEF Killed, WellFiled, store, identityFiles
    <3> QED
      BY <1>1, <3>1, SubmittingFiles, AcceptingFiles, ConcludingFiles, CreatingIdentityFiles
  <2> QED
    BY <2>1, <2>2, SaneIsSound, WellFiledIsFiled, TypesSplit DEF Sane, Sound
<1>2. CASE UNCHANGED vars
  <2>1. TypeOK'
    BY <1>2 DEF Sound, vars, TypeOK, IdentityTypeOK
  <2>2. \A p \in Procs: Backs(pc[p], mem[p])'
    BY <1>2 DEF Sound, vars, Backs, Named, KeyOnFile
  <2>3. Filed'
    BY <1>2 DEF vars, Filed, ReferencesOnFile, CompletedHasReceipt, MetadataHasKey,
                MetadataOnFile, KeyOnFile
  <2> QED
    BY <2>1, <2>2, <2>3 DEF Sound
<1> QED
  BY <1>1, <1>2 DEF Next

LEMMA SoundAndFiled == Spec => [](Sound /\ Filed)
<1>1. Init => Sound /\ Filed
  BY InitSound
<1>2. Sound /\ Filed /\ [Next]_vars => (Sound /\ Filed)'
  BY NextSound
<1> QED
  BY <1>1, <1>2, PTL DEF Spec

\* Whatever interleaves and wherever a call is killed, every file holds what
\* some method writes there and every process is at a step of a method.
THEOREM ProcessesTypeCorrect == Spec => []TypeOK
<1>1. Sound => TypeOK
  BY DEF Sound
<1> QED
  BY <1>1, SoundAndFiled, PTL

\* The order of the writes leaves no reference to a file that is not there: a
\* job's deal and offer, and a receipt's deal, are on file and about that job.
THEOREM FilesRefer == Spec => []ReferencesOnFile
<1>1. Filed => ReferencesOnFile
  BY DEF Filed
<1> QED
  BY <1>1, SoundAndFiled, PTL

\* settle writes the receipt before the job: no COMPLETED job is without one.
THEOREM CompletedIsReceipted == Spec => []CompletedHasReceipt
<1>1. Filed => CompletedHasReceipt
  BY DEF Filed
<1> QED
  BY <1>1, SoundAndFiled, PTL

\* The key is written before the metadata, and is never taken away: no DID is
\* on file without its key.
THEOREM MetadataIsKeyed == Spec => []MetadataHasKey
<1>1. Filed => MetadataHasKey
  BY DEF Filed
<1> QED
  BY <1>1, SoundAndFiled, PTL

=============================================================================
