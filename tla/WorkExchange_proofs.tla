------------------------ MODULE WorkExchange_proofs ------------------------
(***************************************************************************)
(* Theorems about WorkExchange for every choice of its constants.          *)
(***************************************************************************)
EXTENDS WorkExchange, TLAPS

-----------------------------------------------------------------------------
(* Lemmas about the paper accounts. *)

\* Assigning to one point keeps the type of a function, in its domain or not.
LEMMA AssignType ==
  ASSUME NEW S, NEW T, NEW f \in [S -> T], NEW x, NEW v, x \in S => v \in T
  PROVE  [f EXCEPT ![x] = v] \in [S -> T]
OBVIOUS

\* A move between two accounts keeps every balance an integer.
LEMMA MoveType ==
  ASSUME NEW b \in [Accounts -> Int], NEW debit, NEW credit, NEW amount \in Int
  PROVE  Move(b, debit, credit, amount) \in [Accounts -> Int]
<1> DEFINE b1 == [b EXCEPT ![debit] = @ - amount]
<1>1. b1 \in [Accounts -> Int]
  <2>1. debit \in Accounts => b[debit] - amount \in Int
    OBVIOUS
  <2> QED
    BY <2>1, AssignType
<1>2. credit \in Accounts => b1[credit] + amount \in Int
  BY <1>1
<1>3. [b1 EXCEPT ![credit] = @ + amount] \in [Accounts -> Int]
  BY <1>1, <1>2, AssignType
<1> QED
  BY <1>3 DEF Move

\* One more entry for a job and a reason keeps every count a natural number.
LEMMA CountType ==
  ASSUME NEW e \in [JobIds -> [Reasons -> Nat]], NEW j \in JobIds, NEW reason \in Reasons
  PROVE  [e EXCEPT ![j][reason] = @ + 1] \in [JobIds -> [Reasons -> Nat]]
OBVIOUS

\* Whatever transfer does, it leaves a book.
LEMMA TransferType ==
  ASSUME NEW book \in Book, NEW debit, NEW credit, NEW amount \in Nat,
         NEW reason \in Reasons, NEW j \in JobIds
  PROVE  Transfer(book, debit, credit, amount, reason, j) \in Book
<1>1. /\ book.balance \in [Accounts -> Int]
      /\ book.entries \in [JobIds -> [Reasons -> Nat]]
      /\ [book EXCEPT !.ok = FALSE] \in Book
  BY DEF Book
<1>2. Move(book.balance, debit, credit, amount) \in [Accounts -> Int]
  BY <1>1, MoveType
<1>3. [book.entries EXCEPT ![j][reason] = @ + 1] \in [JobIds -> [Reasons -> Nat]]
  BY <1>1, CountType
<1>4. [balance |-> Move(book.balance, debit, credit, amount),
       entries |-> [book.entries EXCEPT ![j][reason] = @ + 1],
       ok |-> TRUE] \in Book
  BY <1>2, <1>3 DEF Book
<1> QED
  BY <1>1, <1>4 DEF Transfer

\* The ledger as it stands is a book.
LEMMA CurrentBookType == TypeOK => CurrentBook \in Book
BY DEF TypeOK, CurrentBook, Book

\* A book posted to the ledger keeps the ledger's types.
LEMMA PostBookType ==
  ASSUME NEW book \in Book, PostBook(book)
  PROVE  /\ balance' \in [Accounts -> Int]
         /\ entries' \in [JobIds -> [Reasons -> Nat]]
BY DEF PostBook, Book

\* The four transfers of a settlement leave a book.
LEMMA SettleBookType ==
  ASSUME TypeOK, NEW j \in JobIds, deals[jobs[j].deal] \in Terms
  PROVE  SettleBook(j) \in Book
<1>1. deals[jobs[j].deal].price \in Nat
  BY DEF Terms
<1>2. {"worker-payout", "orchestration-fee", "completion-fee",
       "bench-validation-fee-stub"} \subseteq Reasons
  BY DEF Reasons
<1> QED
  BY <1>1, <1>2, CurrentBookType, TransferType, ExchangeAssumption, Zenon DEF SettleBook

\* So does a refund.
LEMMA RefundBookType ==
  ASSUME TypeOK, NEW j \in JobIds
  PROVE  RefundBook(j) \in Book
BY CurrentBookType, TransferType, ExchangeAssumption DEF RefundBook, Reasons

\* One more completed deal leaves a profile.
LEMMA RecordCompletionType ==
  ASSUME NEW profile \in Profile, NEW terms \in Terms
  PROVE  RecordCompletion(profile, terms, TRUE) \in Profile
<1>1. /\ terms.price \in Nat /\ terms.relationship \in Relationships
      /\ terms.repEligible \in BOOLEAN /\ terms.feeEligible \in BOOLEAN
      /\ terms.wash \in BOOLEAN
  BY DEF Terms
<1>2. PICK jobsBucket \in Relationships, volumeBucket \in Relationships:
        /\ jobsBucket = Bucket(terms.relationship, terms.repEligible)
        /\ volumeBucket = Bucket(terms.relationship, terms.feeEligible)
  BY <1>1 DEF Bucket, Relationships
<1>3. PICK wash \in Nat: wash = profile.wash + (IF terms.wash THEN 1 ELSE 0)
  BY <1>1 DEF Profile
<1>4. /\ profile.completed + 1 \in Nat
      /\ profile.passes + (IF TRUE THEN 1 ELSE 0) \in Nat
      /\ [profile.jobs EXCEPT ![jobsBucket] = @ + 1] \in [Relationships -> Nat]
      /\ [profile.volume EXCEPT ![volumeBucket] = @ + terms.price]
           \in [Relationships -> Nat]
  BY <1>1 DEF Profile
<1> QED
  BY <1>2, <1>3, <1>4 DEF RecordCompletion, Profile

-----------------------------------------------------------------------------
(* What the guards of the methods say about the files they read. *)

\* A job that a method may work on is there.
LEMMA JobIsThere ==
  ASSUME TypeOK, NEW j \in JobIds, NEW method \in DOMAIN ALLOWED,
         RequireStatus(j, method)
  PROVE  jobs[j] \in Job \ {NoJob} /\ jobs[j].status # "ABSENT"
<1>1. jobs[j] \in Job
  BY DEF TypeOK
<1>2. jobs[j].status # "ABSENT"
  BY DEF RequireStatus, ALLOWED
<1> QED
  BY <1>1, <1>2 DEF NoJob

\* An accepted offer names a posted job.
LEMMA AcceptedOfferIsThere ==
  ASSUME TypeOK, NEW o \in OfferIds, offers[o].status = "OPEN"
  PROVE  /\ offers[o].job \in JobIds /\ offers[o].seller \in Dids
         /\ offers[o].price \in Nat \ {0}
<1>1. offers[o] \in Offer /\ offers[o] # NoOffer
  BY DEF TypeOK, NoOffer
<1> QED
  BY <1>1 DEF Offer

\* The deal that settle reads is a deal of this job.
LEMMA SettledDealIsThere ==
  ASSUME TypeOK, DealAgreement, NEW j \in JobIds, MaySettle(j)
  PROVE  /\ jobs[j].deal \in DealIds
         /\ deals[jobs[j].deal] \in Terms
         /\ jobs[j].result \in Results
         /\ jobs[j] \in Job \ {NoJob}
<1>1. jobs[j] \in Job \ {NoJob}
  BY JobIsThere DEF MaySettle, ALLOWED
<1>2. j \in AcceptedJobs
  BY DEF MaySettle, RequireStatus, ALLOWED, AcceptedJobs, Accepted
<1>3. jobs[j].deal \in DealIds /\ deals[jobs[j].deal].job = j
  BY <1>2 DEF DealAgreement, AcceptedHasDeal
<1>4. deals[jobs[j].deal] \in Deal /\ deals[jobs[j].deal] # NoDeal
  BY <1>3, ExchangeAssumption DEF TypeOK, NoDeal
<1> QED
  BY <1>1, <1>3, <1>4 DEF Deal, Job, MaySettle

-----------------------------------------------------------------------------
(* Type correctness. *)

\* Empty files are files of their types.
LEMMA InitType == Init => TypeOK
<1> SUFFICES ASSUME Init PROVE TypeOK
  OBVIOUS
<1>1. [p \in Dids |-> EmptyProfile] \in [Dids -> Profile]
  BY DEF EmptyProfile, Profile
<1> QED
  BY <1>1 DEF Init, TypeOK, Job, Offer, Deal, Receipt

\* Setting the status of a job that is there keeps the job files typed.
LEMMA StatusType ==
  ASSUME TypeOK, NEW j \in JobIds, jobs[j] \in Job \ {NoJob},
         NEW s \in JobStatus \ {"ABSENT"}
  PROVE  [jobs[j] EXCEPT !.status = s] \in Job
BY DEF Job

\* Every method writes values of their types; settle reads the terms of the
\* job's deal, which the agreement of job and deal says are there.
LEMMA NextType == TypeOK /\ DealAgreement /\ [Next]_vars => TypeOK'
<1> SUFFICES ASSUME TypeOK, DealAgreement, [Next]_vars PROVE TypeOK'
  OBVIOUS
<1>1. CASE InitIdentity
  BY <1>1 DEF InitIdentity, TypeOK
<1>2. ASSUME NEW account \in Accounts, NEW amount \in Credits, CreditPaper(account, amount)
      PROVE  TypeOK'
  <2>1. balance' \in [Accounts -> Int]
    BY <1>2, MoveType, ExchangeAssumption DEF CreditPaper, TypeOK
  <2> QED
    BY <1>2, <2>1 DEF CreditPaper, TypeOK
<1>3. ASSUME NEW j \in JobIds, NEW buyer \in Dids, NEW budget \in Budgets,
             PostJob(j, buyer, budget)
      PROVE  TypeOK'
  <2>1. Transfer(CurrentBook, buyer, EXCHANGE_FEES, JobPosting, "job-posting-fee", j)
          \in Book
    BY CurrentBookType, TransferType, ExchangeAssumption DEF Reasons
  <2>2. balance' \in [Accounts -> Int] /\ entries' \in [JobIds -> [Reasons -> Nat]]
    BY <1>3, <2>1, PostBookType DEF PostJob
  <2>3. [NoJob EXCEPT !.status = "POSTED", !.buyer = buyer, !.budget = budget] \in Job
    BY ExchangeAssumption DEF NoJob, Job, JobStatus
  <2>4. jobs' \in [JobIds -> Job]
    BY <1>3, <2>3 DEF PostJob, TypeOK
  <2> QED
    BY <1>3, <2>2, <2>4 DEF PostJob, TypeOK
<1>4. ASSUME NEW o \in OfferIds, NEW j \in JobIds, NEW seller \in Dids,
             NEW price \in Prices, SubmitOffer(o, j, seller, price)
      PROVE  TypeOK'
  <2>1. [jobs[j] EXCEPT !.status = "OFFERED"] \in Job
    BY <1>4, JobIsThere, StatusType DEF SubmitOffer, ALLOWED, JobStatus
  <2>2. jobs' \in [JobIds -> Job]
    BY <1>4, <2>1 DEF SubmitOffer, TypeOK
  <2>3. [status |-> "OPEN", job |-> j, seller |-> seller, price |-> price] \in Offer
    BY ExchangeAssumption DEF Offer
  <2>4. offers' \in [OfferIds -> Offer]
    BY <1>4, <2>3 DEF SubmitOffer, TypeOK
  <2> QED
    BY <1>4, <2>2, <2>4 DEF SubmitOffer, TypeOK
<1>5. ASSUME NEW o \in OfferIds, NEW d \in DealIds, NEW override \in Overrides,
             AcceptOffer(o, d, override)
      PROVE  TypeOK'
  <2> DEFINE j == offers[o].job
             classified == ClassifyOperatorRelationship(jobs[j].buyer, offers[o].seller)
             relationship == IF override = None THEN classified ELSE override
  <2>1. /\ j \in JobIds /\ offers[o].seller \in Dids
        /\ offers[o].price \in Nat \ {0}
    BY <1>5, AcceptedOfferIsThere DEF AcceptOffer
  <2>2. jobs[j] \in Job \ {NoJob}
    BY <1>5, <2>1, JobIsThere DEF AcceptOffer, ALLOWED
  <2>3. relationship \in Relationships
    BY ExchangeAssumption DEF ClassifyOperatorRelationship, Relationships
  <2>4. DealFor(o, relationship) \in Terms
    BY <2>1, <2>2, <2>3 DEF DealFor, Terms, Job, DetectWashRisk,
       ReputationEligible, FeeVolumeEligible
  <2>5. deals' \in [DealIds -> Deal]
    BY <1>5, <2>4 DEF AcceptOffer, TypeOK, Deal
  <2>6. ASSUME NEW x \in OfferIds
        PROVE  offers'[x] \in Offer
    <3>1. CASE offers[x].status = "OPEN"
      <4>1. offers[x] \in Offer \ {NoOffer}
        BY <3>1 DEF TypeOK, NoOffer
      <4>2. \A s \in {"ACCEPTED", "DECLINED"}: [offers[x] EXCEPT !.status = s] \in Offer
        BY <4>1 DEF Offer
      <4> QED
        BY <1>5, <4>1, <4>2 DEF AcceptOffer, AwardOffer
    <3>2. CASE offers[x].status # "OPEN"
      BY <1>5, <3>2 DEF AcceptOffer, AwardOffer, OpenOffers, TypeOK
    <3> QED
      BY <3>1, <3>2
  <2>7. offers' \in [OfferIds -> Offer]
    BY <1>5, <2>6 DEF AcceptOffer, AwardOffer
  <2>8. [jobs[j] EXCEPT !.status = "ACCEPTED", !.offer = o, !.deal = d] \in Job
    BY <2>2 DEF Job, JobStatus
  <2>9. jobs' = [jobs EXCEPT ![j] = [jobs[j] EXCEPT !.status = "ACCEPTED",
                                                    !.offer = o, !.deal = d]]
    BY <1>5, <2>1 DEF AcceptOffer, TypeOK
  <2>10. jobs' \in [JobIds -> Job]
    BY <2>8, <2>9 DEF TypeOK
  <2> QED
    BY <1>5, <2>5, <2>7, <2>10 DEF AcceptOffer, TypeOK
<1>6. ASSUME NEW j \in JobIds, NEW result \in Results, SubmitResult(j, result)
      PROVE  TypeOK'
  <2>1. jobs[j] \in Job \ {NoJob}
    BY <1>6, JobIsThere DEF SubmitResult, ALLOWED
  <2>2. [jobs[j] EXCEPT !.status = "RESULT_SUBMITTED", !.result = result] \in Job
    BY <2>1 DEF Job, JobStatus
  <2>3. jobs' \in [JobIds -> Job]
    BY <1>6, <2>2 DEF SubmitResult, TypeOK
  <2> QED
    BY <1>6, <2>3 DEF SubmitResult, TypeOK
<1>7. ASSUME NEW j \in JobIds, NEW verdict \in BenchResults, Verify(j, verdict)
      PROVE  TypeOK'
  <2>1. jobs[j] \in Job \ {NoJob}
    BY <1>7, JobIsThere DEF Verify, ALLOWED
  <2>2. PICK s \in JobStatus \ {"ABSENT"}:
          s = IF verdict = "PASS" THEN "VERIFIED" ELSE "FAILED"
    BY DEF JobStatus
  <2>3. [jobs[j] EXCEPT !.bench = verdict, !.status = s] \in Job
    BY <2>1 DEF Job
  <2>4. jobs' \in [JobIds -> Job]
    BY <1>7, <2>2, <2>3 DEF Verify, TypeOK
  <2> QED
    BY <1>7, <2>4 DEF Verify, TypeOK
<1>8. ASSUME NEW j \in JobIds, SettleCompletes(j)
      PROVE  TypeOK'
  <2>1. /\ jobs[j].deal \in DealIds /\ jobs[j].result \in Results
        /\ deals[jobs[j].deal] \in Terms /\ jobs[j] \in Job \ {NoJob}
    BY <1>8, SettledDealIsThere DEF SettleCompletes
  <2>2. balance' \in [Accounts -> Int] /\ entries' \in [JobIds -> [Reasons -> Nat]]
    BY <1>8, <2>1, SettleBookType, PostBookType DEF SettleCompletes
  <2>3. profiles' \in [Dids -> Profile]
    BY <1>8, <2>1, RecordCompletionType DEF SettleCompletes, RecordDeal, TypeOK
  <2>4. receipts' \in [JobIds -> Receipt]
    BY <1>8, <2>1 DEF SettleCompletes, TypeOK, Receipt
  <2>5. [jobs[j] EXCEPT !.status = "COMPLETED"] \in Job
    BY <2>1, StatusType DEF JobStatus
  <2>6. jobs' \in [JobIds -> Job]
    BY <1>8, <2>5 DEF SettleCompletes, TypeOK
  <2> QED
    BY <1>8, <2>2, <2>3, <2>4, <2>6 DEF SettleCompletes, TypeOK
<1>9. ASSUME NEW j \in JobIds, SettleAborts(j)
      PROVE  TypeOK'
  <2>1. deals[jobs[j].deal] \in Terms
    BY <1>9, SettledDealIsThere DEF SettleAborts
  <2>2. balance' \in [Accounts -> Int] /\ entries' \in [JobIds -> [Reasons -> Nat]]
    BY <1>9, <2>1, SettleBookType, PostBookType DEF SettleAborts
  <2> QED
    BY <1>9, <2>2 DEF SettleAborts, TypeOK
<1>10. ASSUME NEW j \in JobIds, Refund(j)
       PROVE  TypeOK'
  <2>1. balance' \in [Accounts -> Int] /\ entries' \in [JobIds -> [Reasons -> Nat]]
    BY <1>10, RefundBookType, PostBookType DEF Refund
  <2>2. [jobs[j] EXCEPT !.status = "REFUNDED"] \in Job
    BY <1>10, JobIsThere, StatusType DEF Refund, ALLOWED, JobStatus
  <2>3. jobs' \in [JobIds -> Job]
    BY <1>10, <2>2 DEF Refund, TypeOK
  <2> QED
    BY <1>10, <2>1, <2>3 DEF Refund, TypeOK
<1>11. CASE UNCHANGED vars
  BY <1>11 DEF vars, TypeOK
<1> QED
  BY <1>1, <1>2, <1>3, <1>4, <1>5, <1>6, <1>7, <1>8, <1>9, <1>10, <1>11 DEF Next

-----------------------------------------------------------------------------
(* Agreement of the job, offer and deal files. *)

\* With no job there is nothing to agree on.
LEMMA InitAgreement == Init => DealAgreement
BY DEF Init, DealAgreement, OffersBelong, AcceptedHasDeal, DealsBelong, DealsMade,
   AcceptedJobs, Accepted, NoJob, NoOffer, NoDeal

\* A method that only moves an accepted job on, or back the posting fee,
\* touches nothing the files agree on.
LEMMA AgreementKept ==
  ASSUME TypeOK, DealAgreement, NEW j \in AcceptedJobs,
         UNCHANGED <<offers, deals>>,
         jobs'[j].status \in Accepted, jobs'[j].buyer = jobs[j].buyer,
         jobs'[j].budget = jobs[j].budget, jobs'[j].offer = jobs[j].offer,
         jobs'[j].deal = jobs[j].deal,
         \A i \in JobIds \ {j}: jobs'[i] = jobs[i]
  PROVE  DealAgreement'
<1>1. AcceptedJobs' = AcceptedJobs /\ DealsMade' = DealsMade
  BY DEF AcceptedJobs, DealsMade
<1>2. ASSUME NEW o \in OfferIds, offers[o].status # "ABSENT"
      PROVE  /\ jobs'[offers[o].job].status \notin {"ABSENT", "POSTED"}
             /\ offers[o].price <= jobs'[offers[o].job].budget
             /\ offers[o].status = "OPEN" <=> jobs'[offers[o].job].status = "OFFERED"
             /\ offers[o].status = "ACCEPTED" <=> jobs'[offers[o].job].offer = o
  <2>1. offers[o].job \in JobIds
    BY <1>2 DEF TypeOK, Offer, NoOffer
  <2> QED
    BY <1>2, <2>1 DEF DealAgreement, OffersBelong, AcceptedJobs, Accepted
<1>3. OffersBelong'
  BY <1>2 DEF OffersBelong
<1>4. AcceptedHasDeal'
  BY <1>1 DEF DealAgreement, AcceptedHasDeal, AcceptedJobs
<1>5. DealsBelong'
  BY <1>1 DEF DealAgreement, DealsBelong, AcceptedJobs
<1> QED
  BY <1>1, <1>3, <1>4, <1>5 DEF DealAgreement

\* Nor does a step that leaves all three kinds of files alone.
LEMMA AgreementUnchanged ==
  ASSUME DealAgreement, UNCHANGED <<jobs, offers, deals>>
  PROVE  DealAgreement'
BY DEF DealAgreement, OffersBelong, AcceptedHasDeal, DealsBelong, DealsMade, AcceptedJobs

\* Every method keeps the job, offer and deal files in agreement.
LEMMA NextAgreement == TypeOK /\ DealAgreement /\ [Next]_vars => DealAgreement'
<1> SUFFICES ASSUME TypeOK, DealAgreement, [Next]_vars PROVE DealAgreement'
  OBVIOUS
<1>1. CASE InitIdentity \/ UNCHANGED vars
  BY <1>1, AgreementUnchanged DEF InitIdentity, vars
<1>2. ASSUME NEW account \in Accounts, NEW amount \in Credits, CreditPaper(account, amount)
      PROVE  DealAgreement'
  BY <1>2, AgreementUnchanged DEF CreditPaper
<1>3. ASSUME NEW j \in JobIds, NEW buyer \in Dids, NEW budget \in Budgets,
             PostJob(j, buyer, budget)
      PROVE  DealAgreement'
  <2>1. /\ jobs' = [jobs EXCEPT ![j] = [NoJob EXCEPT !.status = "POSTED",
                                          !.buyer = buyer, !.budget = budget]]
        /\ UNCHANGED <<offers, deals>> /\ jobs[j].status = "ABSENT"
    BY <1>3 DEF PostJob
  <2>2. /\ jobs'[j].status = "POSTED" /\ jobs'[j].offer = None /\ jobs'[j].deal = None
        /\ \A i \in JobIds \ {j}: jobs'[i] = jobs[i]
    BY <2>1 DEF TypeOK, NoJob
  <2>3. AcceptedJobs' = AcceptedJobs /\ DealsMade' = DealsMade
    BY <2>1, <2>2 DEF AcceptedJobs, Accepted, DealsMade
  <2>4. j \notin AcceptedJobs
    BY <2>1 DEF AcceptedJobs, Accepted
  <2>5. \A o \in OfferIds:
          offers[o].status # "ABSENT" => offers[o].job \in JobIds \ {j}
    BY <2>1 DEF DealAgreement, OffersBelong, TypeOK, Offer, NoOffer
  <2>6. OffersBelong'
    BY <2>1, <2>2, <2>5 DEF DealAgreement, OffersBelong
  <2>7. AcceptedHasDeal'
    BY <2>1, <2>2, <2>3, <2>4 DEF DealAgreement, AcceptedHasDeal, AcceptedJobs
  <2>8. DealsBelong'
    BY <2>1, <2>2, <2>3, <2>4 DEF DealAgreement, DealsBelong, AcceptedJobs
  <2> QED
    BY <2>2, <2>3, <2>6, <2>7, <2>8 DEF DealAgreement
<1>4. ASSUME NEW o \in OfferIds, NEW j \in JobIds, NEW seller \in Dids,
             NEW price \in Prices, SubmitOffer(o, j, seller, price)
      PROVE  DealAgreement'
  <2>1. /\ jobs[j] \in Job \ {NoJob} /\ jobs[j].status \in {"POSTED", "OFFERED"}
        /\ offers[o].status = "ABSENT" /\ price <= jobs[j].budget
        /\ jobs' = [jobs EXCEPT ![j] = [jobs[j] EXCEPT !.status = "OFFERED"]]
        /\ deals' = deals
    BY <1>4, JobIsThere DEF SubmitOffer, RequireStatus, ALLOWED
  <2>2. /\ jobs'[j].status = "OFFERED" /\ jobs'[j].offer = jobs[j].offer
        /\ jobs'[j].deal = jobs[j].deal /\ jobs'[j].budget = jobs[j].budget
        /\ \A i \in JobIds \ {j}: jobs'[i] = jobs[i]
    BY <2>1 DEF TypeOK, Job
  <2>3. /\ offers'[o] = [status |-> "OPEN", job |-> j, seller |-> seller, price |-> price]
        /\ \A x \in OfferIds \ {o}: offers'[x] = offers[x]
    BY <1>4 DEF SubmitOffer, TypeOK
  <2>4. AcceptedJobs' = AcceptedJobs /\ DealsMade' = DealsMade /\ j \notin AcceptedJobs
    BY <2>1, <2>2 DEF AcceptedJobs, Accepted, DealsMade
  <2>5. jobs[j].offer = None /\ jobs[j].deal = None
    BY <2>4 DEF DealAgreement
  <2>6. ASSUME NEW x \in OfferIds, offers'[x].status # "ABSENT"
        PROVE  /\ jobs'[offers'[x].job].status \notin {"ABSENT", "POSTED"}
               /\ offers'[x].price <= jobs'[offers'[x].job].budget
               /\ offers'[x].status = "OPEN" <=> jobs'[offers'[x].job].status = "OFFERED"
               /\ offers'[x].status = "ACCEPTED" <=> jobs'[offers'[x].job].offer = x
    <3>1. CASE x = o
      BY <2>1, <2>2, <2>3, <2>5, <3>1, ExchangeAssumption
    <3>2. CASE x # o
      <4>1. offers[x].job \in JobIds /\ offers'[x] = offers[x]
        BY <2>3, <2>6, <3>2 DEF TypeOK, Offer, NoOffer
      <4>2. CASE offers[x].job = j
        BY <2>1, <2>2, <2>5, <2>6, <4>1, <4>2 DEF DealAgreement, OffersBelong
      <4>3. CASE offers[x].job # j
        BY <2>2, <2>6, <4>1, <4>3 DEF DealAgreement, OffersBelong
      <4> QED
        BY <4>2, <4>3
    <3> QED
      BY <3>1, <3>2
  <2>7. OffersBelong'
    BY <2>6 DEF OffersBelong
  <2>8. AcceptedHasDeal'
    BY <2>1, <2>2, <2>3, <2>4 DEF DealAgreement, AcceptedHasDeal, AcceptedJobs
  <2>9. DealsBelong'
    BY <2>1, <2>2, <2>4 DEF DealAgreement, DealsBelong, AcceptedJobs
  <2> QED
    BY <2>2, <2>4, <2>7, <2>8, <2>9 DEF DealAgreement
<1>5. ASSUME NEW o \in OfferIds, NEW d \in DealIds, NEW override \in Overrides,
             AcceptOffer(o, d, override)
      PROVE  DealAgreement'
  <2> DEFINE j == offers[o].job
  <2>1. /\ offers[o].status = "OPEN" /\ j \in JobIds /\ deals[d].job = None
        /\ offers' = AwardOffer(j, o)
    BY <1>5, AcceptedOfferIsThere DEF AcceptOffer
  <2>2. jobs[j].status = "OFFERED" /\ jobs[j] \in Job \ {NoJob}
    BY <1>5, <2>1, JobIsThere DEF AcceptOffer, ALLOWED, DealAgreement, OffersBelong
  <2>3. /\ jobs' = [jobs EXCEPT ![j] = [jobs[j] EXCEPT !.status = "ACCEPTED",
                                                      !.offer = o, !.deal = d]]
    BY <1>5, <2>1 DEF AcceptOffer, TypeOK
  <2>4. /\ jobs'[j].status = "ACCEPTED" /\ jobs'[j].offer = o /\ jobs'[j].deal = d
        /\ jobs'[j].buyer = jobs[j].buyer /\ jobs'[j].budget = jobs[j].budget
        /\ \A i \in JobIds \ {j}: jobs'[i] = jobs[i]
    BY <2>1, <2>2, <2>3 DEF TypeOK, Job
  <2>5. /\ deals'[d].job = j /\ deals'[d].offer = o /\ deals'[d].buyer = jobs[j].buyer
        /\ deals'[d].seller = offers[o].seller /\ deals'[d].price = offers[o].price
        /\ \A e \in DealIds \ {d}: deals'[e] = deals[e]
    BY <1>5 DEF AcceptOffer, DealFor, TypeOK
  <2>6. AcceptedJobs' = AcceptedJobs \cup {j} /\ j \notin AcceptedJobs
    BY <2>1, <2>2, <2>4 DEF AcceptedJobs, Accepted
  <2>7. DealsMade' = DealsMade \cup {d} /\ d \notin DealsMade
    BY <2>1, <2>5, ExchangeAssumption DEF DealsMade
  <2>8. ASSUME NEW x \in OfferIds, offers[x].status # "ABSENT"
        PROVE  /\ offers'[x].job = offers[x].job /\ offers'[x].seller = offers[x].seller
               /\ offers'[x].price = offers[x].price
               /\ offers[x].job # j => offers'[x] = offers[x]
               /\ offers[x].job = j =>
                    offers'[x].status = IF x = o THEN "ACCEPTED" ELSE "DECLINED"
    <3>1. offers[x] \in Offer \ {NoOffer}
      BY <2>8 DEF TypeOK, NoOffer
    <3>2. offers[x].job = j => offers[x].status = "OPEN"
      BY <2>2, <2>8 DEF DealAgreement, OffersBelong
    <3> QED
      BY <2>1, <2>8, <3>1, <3>2 DEF AwardOffer, OpenOffers, Offer
  <2>9. \A x \in OfferIds: offers[x].status = "ABSENT" => offers'[x].status = "ABSENT"
    BY <2>1 DEF AwardOffer, OpenOffers
  <2>10. ASSUME NEW x \in OfferIds, offers'[x].status # "ABSENT"
         PROVE  /\ jobs'[offers'[x].job].status \notin {"ABSENT", "POSTED"}
                /\ offers'[x].price <= jobs'[offers'[x].job].budget
                /\ offers'[x].status = "OPEN" <=> jobs'[offers'[x].job].status = "OFFERED"
                /\ offers'[x].status = "ACCEPTED" <=> jobs'[offers'[x].job].offer = x
    <3>1. offers[x].status # "ABSENT" /\ offers[x].job \in JobIds
      BY <2>9, <2>10 DEF TypeOK, Offer, NoOffer
    <3>2. CASE offers[x].job = j
      BY <2>4, <2>8, <3>1, <3>2 DEF DealAgreement, OffersBelong
    <3>3. CASE offers[x].job # j
      BY <2>4, <2>8, <3>1, <3>3 DEF DealAgreement, OffersBelong
    <3> QED
      BY <3>2, <3>3
  <2>11. OffersBelong'
    BY <2>10 DEF OffersBelong
  <2>12. ASSUME NEW i \in AcceptedJobs'
         PROVE  /\ jobs'[i].offer \in OfferIds /\ jobs'[i].deal \in DealIds
                /\ offers'[jobs'[i].offer].status = "ACCEPTED"
                /\ offers'[jobs'[i].offer].job = i
                /\ deals'[jobs'[i].deal].job = i
                /\ deals'[jobs'[i].deal].offer = jobs'[i].offer
                /\ deals'[jobs'[i].deal].buyer = jobs'[i].buyer
                /\ deals'[jobs'[i].deal].seller = offers'[jobs'[i].offer].seller
                /\ deals'[jobs'[i].deal].price = offers'[jobs'[i].offer].price
    <3>1. CASE i = j
      <4>1. /\ offers'[o].status = "ACCEPTED" /\ offers'[o].job = j
            /\ offers'[o].seller = offers[o].seller
            /\ offers'[o].price = offers[o].price
        BY <2>1, <2>8
      <4> QED
        BY <2>4, <2>5, <3>1, <4>1
    <3>2. CASE i # j
      <4>1. /\ i \in AcceptedJobs /\ i \in JobIds /\ jobs'[i] = jobs[i]
        BY <2>4, <2>6, <2>12, <3>2 DEF AcceptedJobs
      <4>2. /\ jobs[i].offer \in OfferIds /\ jobs[i].deal \in DealIds
            /\ offers[jobs[i].offer].status = "ACCEPTED"
            /\ offers[jobs[i].offer].job = i /\ deals[jobs[i].deal].job = i
        BY <4>1 DEF DealAgreement, AcceptedHasDeal
      <4>3. deals'[jobs[i].deal] = deals[jobs[i].deal]
        BY <2>1, <2>5, <4>1, <4>2, ExchangeAssumption
      <4>4. offers'[jobs[i].offer] = offers[jobs[i].offer]
        BY <2>8, <3>2, <4>2
      <4> QED
        BY <4>1, <4>2, <4>3, <4>4 DEF DealAgreement, AcceptedHasDeal
    <3> QED
      BY <3>1, <3>2
  <2>13. AcceptedHasDeal'
    BY <2>12 DEF AcceptedHasDeal
  <2>14. DealsBelong'
    <3>1. ASSUME NEW e \in DealsMade
          PROVE  deals'[e].job \in AcceptedJobs' /\ jobs'[deals'[e].job].deal = e
      <4>1. e \in DealIds \ {d} /\ deals[e].job \in AcceptedJobs
            /\ jobs[deals[e].job].deal = e
        BY <2>7 DEF DealAgreement, DealsBelong, DealsMade
      <4> QED
        BY <2>4, <2>5, <2>6, <4>1 DEF AcceptedJobs
    <3>2. deals'[d].job \in AcceptedJobs' /\ jobs'[deals'[d].job].deal = d
      BY <2>4, <2>5, <2>6
    <3> QED
      BY <2>7, <3>1, <3>2 DEF DealsBelong
  <2>15. \A i \in JobIds \ AcceptedJobs': jobs'[i].deal = None /\ jobs'[i].offer = None
    BY <2>4, <2>6 DEF DealAgreement
  <2> QED
    BY <2>11, <2>13, <2>14, <2>15 DEF DealAgreement
<1>6. ASSUME NEW j \in JobIds, NEW result \in Results, SubmitResult(j, result)
      PROVE  DealAgreement'
  <2>1. j \in AcceptedJobs
    BY <1>6 DEF SubmitResult, RequireStatus, ALLOWED, AcceptedJobs, Accepted
  <2>2. jobs[j] \in Job \ {NoJob}
    BY <1>6, JobIsThere DEF SubmitResult, ALLOWED
  <2>3. jobs' = [jobs EXCEPT ![j] = [jobs[j] EXCEPT !.status = "RESULT_SUBMITTED",
                                                    !.result = result]]
    BY <1>6 DEF SubmitResult
  <2>4. /\ jobs'[j].status = "RESULT_SUBMITTED" /\ jobs'[j].buyer = jobs[j].buyer
        /\ jobs'[j].budget = jobs[j].budget /\ jobs'[j].offer = jobs[j].offer
        /\ jobs'[j].deal = jobs[j].deal
        /\ \A i \in JobIds \ {j}: jobs'[i] = jobs[i]
    BY <2>2, <2>3 DEF TypeOK, Job
  <2> QED
    BY <1>6, <2>1, <2>4, AgreementKept DEF SubmitResult, Accepted
<1>7. ASSUME NEW j \in JobIds, NEW verdict \in BenchResults, Verify(j, verdict)
      PROVE  DealAgreement'
  <2>1. j \in AcceptedJobs
    BY <1>7 DEF Verify, RequireStatus, ALLOWED, AcceptedJobs, Accepted
  <2>2. jobs[j] \in Job \ {NoJob}
    BY <1>7, JobIsThere DEF Verify, ALLOWED
  <2>3. PICK s \in Accepted:
          jobs' = [jobs EXCEPT ![j] = [jobs[j] EXCEPT !.bench = verdict, !.status = s]]
    BY <1>7 DEF Verify, Accepted
  <2> QED
    <3>1. /\ jobs'[j].status = s /\ jobs'[j].buyer = jobs[j].buyer
          /\ jobs'[j].budget = jobs[j].budget /\ jobs'[j].offer = jobs[j].offer
          /\ jobs'[j].deal = jobs[j].deal
          /\ \A i \in JobIds \ {j}: jobs'[i] = jobs[i]
      BY <2>2, <2>3 DEF TypeOK, Job
    <3> QED
      BY <1>7, <2>1, <3>1, AgreementKept DEF Verify
<1>8. ASSUME NEW j \in JobIds, SettleCompletes(j)
      PROVE  DealAgreement'
  <2>1. j \in AcceptedJobs
    BY <1>8 DEF SettleCompletes, MaySettle, RequireStatus, ALLOWED, AcceptedJobs, Accepted
  <2>2. jobs[j] \in Job \ {NoJob}
    BY <1>8, SettledDealIsThere DEF SettleCompletes
  <2>3. jobs' = [jobs EXCEPT ![j] = [jobs[j] EXCEPT !.status = "COMPLETED"]]
    BY <1>8 DEF SettleCompletes
  <2>4. /\ jobs'[j].status = "COMPLETED" /\ jobs'[j].buyer = jobs[j].buyer
        /\ jobs'[j].budget = jobs[j].budget /\ jobs'[j].offer = jobs[j].offer
        /\ jobs'[j].deal = jobs[j].deal
        /\ \A i \in JobIds \ {j}: jobs'[i] = jobs[i]
    BY <2>2, <2>3 DEF TypeOK, Job
  <2> QED
    BY <1>8, <2>1, <2>4, AgreementKept DEF SettleCompletes, Accepted
<1>9. ASSUME NEW j \in JobIds, SettleAborts(j)
      PROVE  DealAgreement'
  BY <1>9, AgreementUnchanged DEF SettleAborts
<1>10. ASSUME NEW j \in JobIds, Refund(j)
       PROVE  DealAgreement'
  <2>1. j \in AcceptedJobs
    BY <1>10 DEF Refund, RequireStatus, ALLOWED, AcceptedJobs, Accepted
  <2>2. jobs[j] \in Job \ {NoJob}
    BY <1>10, JobIsThere DEF Refund, ALLOWED
  <2>3. jobs' = [jobs EXCEPT ![j] = [jobs[j] EXCEPT !.status = "REFUNDED"]]
    BY <1>10 DEF Refund
  <2>4. /\ jobs'[j].status = "REFUNDED" /\ jobs'[j].buyer = jobs[j].buyer
        /\ jobs'[j].budget = jobs[j].budget /\ jobs'[j].offer = jobs[j].offer
        /\ jobs'[j].deal = jobs[j].deal
        /\ \A i \in JobIds \ {j}: jobs'[i] = jobs[i]
    BY <2>2, <2>3 DEF TypeOK, Job
  <2> QED
    BY <1>10, <2>1, <2>4, AgreementKept DEF Refund, Accepted
<1> QED
  BY <1>1, <1>2, <1>3, <1>4, <1>5, <1>6, <1>7, <1>8, <1>9, <1>10 DEF Next

\* TypeOK is not inductive by itself: that settle reads the terms of a deal,
\* and not a missing file, takes the agreement of the job with its deal.
LEMMA TypeAndAgreement == Spec => [](TypeOK /\ DealAgreement)
<1>1. Init => TypeOK /\ DealAgreement
  BY InitType, InitAgreement
<1>2. (TypeOK /\ DealAgreement) /\ [Next]_vars => (TypeOK /\ DealAgreement)'
  BY NextType, NextAgreement
<1> QED
  BY <1>1, <1>2, PTL DEF Spec

\* Every file, account and counter always holds a value of its type.
THEOREM TypeCorrect == Spec => []TypeOK
BY TypeAndAgreement, PTL

\* The job, offer and deal files always tell one story.
THEOREM DealsAgree == Spec => []DealAgreement
BY TypeAndAgreement, PTL

=============================================================================
