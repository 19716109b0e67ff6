---------------------------- MODULE WorkExchange ----------------------------
(***************************************************************************)
(* exchange.py, class WorkExchange: jobs, offers, deals, receipts, paper   *)
(* accounts and evidence profiles, with one action for each method that    *)
(* changes state.  A command of the CLI is one call of one method in a     *)
(* process of its own; here a call runs to its end, or to the exception    *)
(* that ends it, with no other call in between.  A call that is refused    *)
(* before its first write changes nothing and has no action: the checks    *)
(* that refuse it are the guards.  A call that fails after its first write *)
(* keeps what it wrote (PostJob, SettleAborts).                            *)
(***************************************************************************)
EXTENDS Integers, FiniteSets, Functions, OperatorPolicy, EvidenceProfile, PaperSettlement

CONSTANTS
  OfferIds, DealIds,   \* ids new_id may draw: a fresh one for each object
  Results,             \* result hashes a worker may submit
  Budgets, Prices,     \* amounts a buyer and a seller may name
  Credits,             \* amounts paper-credit may issue
  MaxIssued,           \* bound: how much is issued in all
  MaxPayouts,          \* bound: payouts of a job that settle may fail after
  Overrides,           \* relationships a caller of accept_offer may state
  Routers,             \* the router adapters in use: "stub", "local"
  JobPosting, Orchestration, Completion, BenchValidation,  \* FeeSchedule
  RefundPostingFee,    \* fees.refund_posting_fee
  ProductionState,     \* the state directory is the production one
  None                 \* an absent field

ASSUME ExchangeAssumption ==
  /\ Budgets \subseteq Nat \ {0}
  /\ Prices \subseteq Nat \ {0}
  /\ Credits \subseteq Nat \ {0}
  /\ {MaxIssued, MaxPayouts} \subseteq Nat
  /\ Overrides \subseteq Relationships \cup {None} /\ None \notin Relationships
  /\ {JobPosting, Orchestration, Completion, BenchValidation} \subseteq Nat
  /\ {RefundPostingFee, ProductionState} \subseteq BOOLEAN
  /\ None \notin JobIds \cup OfferIds \cup DealIds \cup Dids \cup Results
                   \cup {"PASS", "FAIL", "PARTIAL"}

VARIABLES
  jobs,       \* jobs[j]: the job file
  offers,     \* offers[o]: the offer file
  deals,      \* deals[d]: the deal file
  receipts,   \* receipts[j]: the receipt of job j
  profiles,   \* profiles[p]: the evidence profile of DID p
  balance,    \* balance[a]: paper_balance of account a
  entries,    \* entries[j][r]: ledger entries for job j with reason r
  identity    \* the identity files: "none", "test" or "production"

vars == <<jobs, offers, deals, receipts, profiles, balance, entries, identity>>

BenchResults == {"PASS", "FAIL", "PARTIAL"}

JobStatus == {"ABSENT", "POSTED", "OFFERED", "ACCEPTED", "RESULT_SUBMITTED",
              "VERIFIED", "COMPLETED", "FAILED", "REFUNDED"}

\* ALLOWED: the statuses from which each method may start.
ALLOWED == [submit_offer  |-> {"POSTED", "OFFERED"},
            accept_offer  |-> {"POSTED", "OFFERED"},
            submit_result |-> {"ACCEPTED"},
            verify        |-> {"RESULT_SUBMITTED"},
            settle        |-> {"VERIFIED"},
            refund        |-> {"ACCEPTED", "RESULT_SUBMITTED", "FAILED"}]

\* What stands for a file that does not exist.
NoJob == [status |-> "ABSENT", buyer |-> None, budget |-> 0, offer |-> None,
          deal |-> None, result |-> None, bench |-> None]
NoOffer == [status |-> "ABSENT", job |-> None, seller |-> None, price |-> 0]
NoDeal == [job |-> None]
NoReceipt == [deal |-> None]

Job == {NoJob} \cup
       [status : JobStatus \ {"ABSENT"}, buyer : Dids, budget : Nat \ {0},
        offer : OfferIds \cup {None}, deal : DealIds \cup {None},
        result : Results \cup {None}, bench : BenchResults \cup {None}]

Offer == {NoOffer} \cup
         [status : {"OPEN", "ACCEPTED", "DECLINED"}, job : JobIds,
          seller : Dids, price : Nat \ {0}]

Terms == [job : JobIds, offer : OfferIds, buyer : Dids, seller : Dids,
          price : Nat \ {0}, relationship : Relationships, wash : BOOLEAN,
          repEligible : BOOLEAN, feeEligible : BOOLEAN]

Deal == {NoDeal} \cup Terms

Receipt == {NoReceipt} \cup [deal : DealIds, result : Results]

\* Every file, account and counter holds a value the code can write there.
TypeOK ==
  /\ jobs \in [JobIds -> Job]
  /\ offers \in [OfferIds -> Offer]
  /\ deals \in [DealIds -> Deal]
  /\ receipts \in [JobIds -> Receipt]
  /\ profiles \in [Dids -> Profile]
  /\ balance \in [Accounts -> Int]
  /\ entries \in [JobIds -> [Reasons -> Nat]]
  /\ identity \in {"none", "test", "production"}

Init ==
  /\ jobs = [j \in JobIds |-> NoJob]
  /\ offers = [o \in OfferIds |-> NoOffer]
  /\ deals = [d \in DealIds |-> NoDeal]
  /\ receipts = [j \in JobIds |-> NoReceipt]
  /\ profiles = [p \in Dids |-> EmptyProfile]
  /\ balance = [a \in Accounts |-> 0]
  /\ entries = [j \in JobIds |-> [r \in Reasons |-> 0]]
  /\ identity = "none"

-----------------------------------------------------------------------------
(* The parts of the state the methods read. *)

\* Broken variants of RequireStatus: an offer still taken once one is
\* accepted, a refund also of a verified job, a failed result handed in again.
RequireStatusLateOffer(j, method) ==
  \/ jobs[j].status \in ALLOWED[method]
  \/ method = "submit_offer" /\ jobs[j].status = "ACCEPTED"

RequireStatusLateRefund(j, method) ==
  \/ jobs[j].status \in ALLOWED[method]
  \/ method = "refund" /\ jobs[j].status = "VERIFIED"

RequireStatusRework(j, method) ==
  \/ jobs[j].status \in ALLOWED[method]
  \/ method = "submit_result" /\ jobs[j].status = "FAILED"

\* require_status.
RequireStatus(j, method) == jobs[j].status \in ALLOWED[method]

\* The ledger as a method finds it.
CurrentBook == [balance |-> balance, entries |-> entries, ok |-> TRUE]

PostBook(book) == balance' = book.balance /\ entries' = book.entries

OpenOffers(j) == {o \in OfferIds: offers[o].job = j /\ offers[o].status = "OPEN"}

DealsMade == {d \in DealIds: deals[d].job # None}

\* deal_counterparty_pairs.
CounterpartyPairs == {<<deals[d].buyer, deals[d].seller>> : d \in DealsMade}

\* Broken variant of StubRoute: the offers are not sorted by price.
StubRouteUnsorted(j, o) == offers[o].price <= jobs[j].budget

\* StubRouter: the lowest in-budget open offer of the job.  Offer ids are
\* random, so that any of several lowest offers may come first.
StubRoute(j, o) ==
  /\ offers[o].price <= jobs[j].budget
  /\ \A x \in OpenOffers(j): offers[o].price <= offers[x].price

\* LocalRouter: flop-router names a worker; its lowest open offer is taken.
LocalRoute(j, o) ==
  \A x \in OpenOffers(j):
    offers[x].seller = offers[o].seller => offers[o].price <= offers[x].price

RouterSelects(j, o) ==
  /\ o \in OpenOffers(j)
  /\ \/ "stub" \in Routers /\ StubRoute(j, o)
     \/ "local" \in Routers /\ LocalRoute(j, o)

\* load_exchange_key as settle calls it, with no passphrase: it reads the
\* plain test key and cannot decrypt the production key.
KeyLoads == identity = "test"

-----------------------------------------------------------------------------
(* The methods. *)

\* identity init, or identity init-production in the production directory.
InitIdentity ==
  /\ identity = "none"
  /\ identity' = IF ProductionState THEN "production" ELSE "test"
  /\ UNCHANGED <<jobs, offers, deals, receipts, profiles, balance, entries>>

\* credit_paper.
CreditPaper(account, amount) ==
  /\ amount - balance[ISSUANCE] <= MaxIssued
  /\ balance' = Move(balance, ISSUANCE, account, amount)
  /\ UNCHANGED <<jobs, offers, deals, receipts, profiles, entries, identity>>

\* post_job: the job is saved before the posting fee is asked for, and stays
\* when the buyer cannot pay it.
PostJob(j, buyer, budget) ==
  /\ jobs[j].status = "ABSENT"
  /\ jobs' = [jobs EXCEPT ![j] = [NoJob EXCEPT !.status = "POSTED",
                                    !.buyer = buyer, !.budget = budget]]
  /\ PostBook(Transfer(CurrentBook, buyer, EXCHANGE_FEES, JobPosting,
                       "job-posting-fee", j))
  /\ UNCHANGED <<offers, deals, receipts, profiles, identity>>

\* Broken variant of SubmitOffer: the job is not saved as OFFERED.
SubmitOfferOnly(o, j, seller, price) ==
  /\ RequireStatus(j, "submit_offer")
  /\ offers[o].status = "ABSENT"
  /\ price <= jobs[j].budget
  /\ offers' = [offers EXCEPT ![o] = [status |-> "OPEN", job |-> j,
                                      seller |-> seller, price |-> price]]
  /\ UNCHANGED <<jobs, deals, receipts, profiles, balance, entries, identity>>

\* submit_offer.
SubmitOffer(o, j, seller, price) ==
  /\ RequireStatus(j, "submit_offer")
  /\ offers[o].status = "ABSENT"
  /\ price <= jobs[j].budget
  /\ offers' = [offers EXCEPT ![o] = [status |-> "OPEN", job |-> j,
                                      seller |-> seller, price |-> price]]
  /\ jobs' = [jobs EXCEPT ![j].status = "OFFERED"]
  /\ UNCHANGED <<deals, receipts, profiles, balance, entries, identity>>

\* The deal accept_offer records.
DealFor(o, relationship) ==
  LET buyer == jobs[offers[o].job].buyer
      seller == offers[o].seller
      wash == DetectWashRisk(buyer, seller, CounterpartyPairs)
  IN [job |-> offers[o].job, offer |-> o, buyer |-> buyer, seller |-> seller,
      price |-> offers[o].price, relationship |-> relationship, wash |-> wash,
      repEligible |-> ReputationEligible(relationship, wash),
      feeEligible |-> FeeVolumeEligible(relationship, wash)]

\* Broken variant of AwardOffer: the losing offers stay open.
AwardOfferOnly(j, o) == [offers EXCEPT ![o].status = "ACCEPTED"]

\* The offers of job j once o is accepted: the open others are declined.
AwardOffer(j, o) ==
  [x \in OfferIds |->
     IF x = o THEN [offers[x] EXCEPT !.status = "ACCEPTED"]
     ELSE IF x \in OpenOffers(j) THEN [offers[x] EXCEPT !.status = "DECLINED"]
     ELSE offers[x]]

\* accept_offer; override is the caller's operator_relationship, or None.
AcceptOffer(o, d, override) ==
  LET j == offers[o].job
      classified == ClassifyOperatorRelationship(jobs[j].buyer, offers[o].seller)
      relationship == IF override = None THEN classified ELSE override
  IN
  /\ offers[o].status = "OPEN"
  /\ RequireStatus(j, "accept_offer")
  /\ deals[d].job = None
  /\ RouterSelects(j, o)
  /\ ~OverrideRefused(classified, override)
  /\ ~PolicyRefuses(jobs[j].buyer, offers[o].seller, relationship)
  /\ deals' = [deals EXCEPT ![d] = DealFor(o, relationship)]
  /\ offers' = AwardOffer(j, o)
  /\ jobs' = [jobs EXCEPT ![j].status = "ACCEPTED", ![j].offer = o, ![j].deal = d]
  /\ UNCHANGED <<receipts, profiles, balance, entries, identity>>

\* submit_result.
SubmitResult(j, result) ==
  /\ RequireStatus(j, "submit_result")
  /\ jobs' = [jobs EXCEPT ![j].status = "RESULT_SUBMITTED", ![j].result = result]
  /\ UNCHANGED <<offers, deals, receipts, profiles, balance, entries, identity>>

\* Broken variant of Verify: the verdict is stored as the status.
VerifyAsStatus(j, verdict) ==
  /\ RequireStatus(j, "verify")
  /\ jobs' = [jobs EXCEPT ![j].bench = verdict, ![j].status = verdict]
  /\ UNCHANGED <<offers, deals, receipts, profiles, balance, entries, identity>>

\* verify, with the verdict of the Bench adapter.
Verify(j, verdict) ==
  /\ RequireStatus(j, "verify")
  /\ jobs' = [jobs EXCEPT
                ![j].bench = verdict,
                ![j].status = IF verdict = "PASS" THEN "VERIFIED" ELSE "FAILED"]
  /\ UNCHANGED <<offers, deals, receipts, profiles, balance, entries, identity>>

\* What settle checks before it moves anything.
MaySettle(j) ==
  /\ RequireStatus(j, "settle")
  /\ jobs[j].deal # None
  /\ jobs[j].bench = "PASS"
  /\ jobs[j].result # None

\* The four transfers of settle, each one made before the next is checked.
SettleBook(j) ==
  LET buyer == jobs[j].buyer
      deal == deals[jobs[j].deal]
      worker == Transfer(CurrentBook, buyer, deal.seller, deal.price,
                         "worker-payout", j)
      orchestration == Transfer(worker, buyer, EXCHANGE_FEES, Orchestration,
                                "orchestration-fee", j)
      completion == Transfer(orchestration, buyer, EXCHANGE_FEES, Completion,
                             "completion-fee", j)
  IN Transfer(completion, buyer, BENCH_FEES, BenchValidation,
              "bench-validation-fee-stub", j)

\* Both parties' profiles take the completed deal, once each.
RecordDeal(deal) ==
  [p \in Dids |-> IF p \in {deal.buyer, deal.seller}
                  THEN RecordCompletion(profiles[p], deal, TRUE)
                  ELSE profiles[p]]

\* Broken variant of SettleCompletes: a failed transfer is not noticed.
SettleCompletesUnpaid(j) ==
  /\ MaySettle(j)
  /\ KeyLoads
  /\ PostBook(SettleBook(j))
  /\ receipts' = [receipts EXCEPT ![j] = [deal |-> jobs[j].deal,
                                          result |-> jobs[j].result]]
  /\ jobs' = [jobs EXCEPT ![j].status = "COMPLETED"]
  /\ profiles' = RecordDeal(deals[jobs[j].deal])
  /\ UNCHANGED <<offers, deals, identity>>

\* settle, when all four transfers are covered and the key can be loaded.
SettleCompletes(j) ==
  /\ MaySettle(j)
  /\ SettleBook(j).ok
  /\ KeyLoads
  /\ PostBook(SettleBook(j))
  /\ receipts' = [receipts EXCEPT ![j] = [deal |-> jobs[j].deal,
                                          result |-> jobs[j].result]]
  /\ jobs' = [jobs EXCEPT ![j].status = "COMPLETED"]
  /\ profiles' = RecordDeal(deals[jobs[j].deal])
  /\ UNCHANGED <<offers, deals, identity>>

\* settle, when a transfer or load_exchange_key raises: the transfers made
\* before stay in the ledger and the job stays VERIFIED.
SettleAborts(j) ==
  /\ MaySettle(j)
  /\ ~(SettleBook(j).ok /\ KeyLoads)
  /\ SettleBook(j).entries[j]["worker-payout"] <= MaxPayouts
  /\ PostBook(SettleBook(j))
  /\ UNCHANGED <<jobs, offers, deals, receipts, profiles, identity>>

\* The posting fee handed back, where the fee schedule says so.
RefundBook(j) ==
  IF RefundPostingFee
  THEN Transfer(CurrentBook, EXCHANGE_FEES, jobs[j].buyer, JobPosting,
                "posting-fee-refund", j)
  ELSE CurrentBook

\* Broken variant of Refund: the job is not saved as REFUNDED.
RefundFeeOnly(j) ==
  /\ RequireStatus(j, "refund")
  /\ RefundBook(j).ok
  /\ PostBook(RefundBook(j))
  /\ UNCHANGED <<jobs, offers, deals, receipts, profiles, identity>>

\* refund.
Refund(j) ==
  /\ RequireStatus(j, "refund")
  /\ RefundBook(j).ok
  /\ PostBook(RefundBook(j))
  /\ jobs' = [jobs EXCEPT ![j].status = "REFUNDED"]
  /\ UNCHANGED <<offers, deals, receipts, profiles, identity>>

Next ==
  \/ InitIdentity
  \/ \E account \in Accounts, amount \in Credits: CreditPaper(account, amount)
  \/ \E j \in JobIds:
       \/ \E buyer \in Dids, budget \in Budgets: PostJob(j, buyer, budget)
       \/ \E o \in OfferIds, seller \in Dids, price \in Prices:
            SubmitOffer(o, j, seller, price)
       \/ \E result \in Results: SubmitResult(j, result)
       \/ \E verdict \in BenchResults: Verify(j, verdict)
       \/ SettleCompletes(j)
       \/ SettleAborts(j)
       \/ Refund(j)
  \/ \E o \in OfferIds, d \in DealIds, override \in Overrides:
       AcceptOffer(o, d, override)

Spec == Init /\ [][Next]_vars

-----------------------------------------------------------------------------
(* Safety. *)

Accepted == {"ACCEPTED", "RESULT_SUBMITTED", "VERIFIED", "COMPLETED",
             "FAILED", "REFUNDED"}

AcceptedJobs == {j \in JobIds: jobs[j].status \in Accepted}

\* An offer is for a posted job and within its budget; it is open only while
\* the job is OFFERED, and accepted or declined only once the job is accepted.
OffersBelong ==
  \A o \in OfferIds: offers[o].status # "ABSENT" =>
    LET j == offers[o].job
    IN /\ jobs[j].status \notin {"ABSENT", "POSTED"}
       /\ offers[o].price <= jobs[j].budget
       /\ offers[o].status = "OPEN" <=> jobs[j].status = "OFFERED"
       /\ offers[o].status = "ACCEPTED" <=> jobs[j].offer = o

\* An accepted job names a deal, and the deal names the job, the accepted
\* offer and that offer's terms.
AcceptedHasDeal ==
  \A j \in AcceptedJobs:
    LET o == jobs[j].offer
        d == jobs[j].deal
    IN /\ o \in OfferIds /\ d \in DealIds
       /\ offers[o].status = "ACCEPTED" /\ offers[o].job = j
       /\ deals[d].job = j /\ deals[d].offer = o
       /\ deals[d].buyer = jobs[j].buyer
       /\ deals[d].seller = offers[o].seller
       /\ deals[d].price = offers[o].price

\* A deal is the one deal of an accepted job.
DealsBelong ==
  \A d \in DealsMade:
    deals[d].job \in AcceptedJobs /\ jobs[deals[d].job].deal = d

\* The job, offer and deal files tell one story of who agreed what with whom:
\* three files that accept_offer writes one after the other and settle reads.
DealAgreement ==
  /\ OffersBelong
  /\ AcceptedHasDeal
  /\ DealsBelong
  /\ \A j \in JobIds \ AcceptedJobs: jobs[j].deal = None /\ jobs[j].offer = None

\* However settlements, failed settlements, posting fees and refunds of
\* several jobs follow each other, only the issuance account goes negative.
NoOverdraft == \A a \in Accounts \ {ISSUANCE}: balance[a] >= 0

\* A worker has been paid only for a result that Bench passed, and the job is
\* then never refunded, failed or open again.
PaidOnlyAfterPass ==
  \A j \in JobIds: entries[j]["worker-payout"] > 0 =>
    jobs[j].bench = "PASS" /\ jobs[j].status \in {"VERIFIED", "COMPLETED"}

\* The settlement amounts and the reasons they are posted under.
SettlementFee ==
  [r \in {"orchestration-fee", "completion-fee", "bench-validation-fee-stub"} |->
     CASE r = "orchestration-fee" -> Orchestration
       [] r = "completion-fee"    -> Completion
       [] OTHER                   -> BenchValidation]

\* A job is COMPLETED exactly when its receipt exists; the receipt is for the
\* job's own deal and the result Bench passed, and by then the worker and
\* every fee that is not zero have been paid, over however many attempts.
ReceiptMeansPaid ==
  \A j \in JobIds:
    /\ jobs[j].status = "COMPLETED" <=> receipts[j] # NoReceipt
    /\ jobs[j].status = "COMPLETED" =>
         /\ receipts[j] = [deal |-> jobs[j].deal, result |-> jobs[j].result]
         /\ jobs[j].bench = "PASS" /\ jobs[j].result # None
         /\ entries[j]["worker-payout"] > 0
         /\ \A r \in DOMAIN SettlementFee: SettlementFee[r] = 0 \/ entries[j][r] > 0

\* A posting fee is handed back at most once, and only to a refunded job.
RefundAtMostOnce ==
  \A j \in JobIds:
    entries[j]["posting-fee-refund"] <= IF jobs[j].status = "REFUNDED" THEN 1 ELSE 0

\* The deals of completed jobs in which p is a party.
CompletedDealsOf(p) ==
  {d \in DealsMade: /\ receipts[deals[d].job].deal = d
                    /\ p \in {deals[d].buyer, deals[d].seller}}

SumPrices(ds) == SumFunction([d \in ds |-> deals[d].price])

\* The counters a DID shows the public are what its receipts add up to: every
\* completed deal is counted once for each party, also when both are one DID,
\* and the independent counters take eligible deals only.
ProfilesMatchReceipts ==
  \A p \in Dids:
    LET mine == CompletedDealsOf(p)
        independent == {d \in mine: deals[d].repEligible}
        volume == {d \in mine: deals[d].feeEligible}
    IN /\ profiles[p].completed = Cardinality(mine)
       /\ profiles[p].passes = Cardinality(mine)
       /\ profiles[p].wash = Cardinality({d \in mine: deals[d].wash})
       /\ profiles[p].jobs["independent"] = Cardinality(independent)
       /\ profiles[p].volume["independent"] = SumPrices(volume)
       /\ SumFunction(profiles[p].jobs) = Cardinality(mine)
       /\ SumFunction(profiles[p].volume) = SumPrices(mine)

Eligible(d) == deals[d].repEligible \/ deals[d].feeEligible

\* No independent reputation or fee volume for one operator trading with
\* itself, whatever relationship the caller stated, nor for both directions
\* of a reversed pair of deals, in whatever order they were accepted.
IndependenceIsEarned ==
  \A d \in DealsMade: Eligible(d) =>
    /\ deals[d].buyer # deals[d].seller
    /\ ~({deals[d].buyer, deals[d].seller} \subseteq Family)
    /\ \A e \in DealsMade:
         Eligible(e) => <<deals[e].buyer, deals[e].seller>>
                          # <<deals[d].seller, deals[d].buyer>>

\* With the stub router the accepted offer is the cheapest the job ever got.
CheapestOfferWins ==
  Routers = {"stub"} =>
    \A j \in AcceptedJobs: \A o \in OfferIds:
      offers[o].job = j => offers[jobs[j].offer].price <= offers[o].price

\* The step rewrites no deal, no receipt, no result that Bench has ruled on,
\* and nothing of a job that is COMPLETED or REFUNDED.
KeepsEvidence ==
  /\ \A d \in DealsMade: deals'[d] = deals[d]
  /\ \A j \in JobIds:
       /\ receipts[j] # NoReceipt => receipts'[j] = receipts[j]
       /\ jobs[j].bench # None =>
            jobs'[j].result = jobs[j].result /\ jobs'[j].bench = jobs[j].bench
       /\ jobs[j].status \in {"COMPLETED", "REFUNDED"} =>
            jobs'[j] = jobs[j] /\ entries'[j] = entries[j]

\* What the exchange has put on record stays, whatever is called afterwards:
\* a deal, a receipt, a judged result, and the whole of a job that has ended.
EvidenceIsPermanent == [][KeepsEvidence]_vars

\* WorkExchange implements the lifecycle the README draws.
Lifecycle == INSTANCE JobLifecycle WITH
  status <- [j \in JobIds |-> jobs[j].status],
  paid   <- [j \in JobIds |-> entries[j]["worker-payout"] > 0]

\* Every call moves each job along an edge of the lifecycle or leaves it, and
\* a worker is paid in no state but VERIFIED.
ImplementsLifecycle == Lifecycle!Spec

-----------------------------------------------------------------------------
(* What the documents say and the code does not do. *)

\* README: "Buyer paper balance must cover posting fee at post time".
PostedMeansFeePaid ==
  \A j \in JobIds: jobs[j].status # "ABSENT" /\ JobPosting > 0 =>
    entries[j]["job-posting-fee"] = 1

\* README: the buyer covers "payout + orchestration + completion + bench" at
\* settle time; so a completed job has cost its buyer that total, once.
CompletedPaidExactlyOnce ==
  \A j \in JobIds: jobs[j].status = "COMPLETED" =>
    /\ entries[j]["worker-payout"] = 1
    /\ \A r \in DOMAIN SettlementFee:
         entries[j][r] = IF SettlementFee[r] = 0 THEN 0 ELSE 1

\* README: "One family DID plus an outsider is `related`", and related deals
\* count neither as independent jobs nor as independent fee volume.
RelatedIsNotIndependent ==
  \A d \in DealsMade:
    {deals[d].buyer, deals[d].seller} \cap Family # {} => ~Eligible(d)

=============================================================================
