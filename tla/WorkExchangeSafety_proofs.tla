--------------------- MODULE WorkExchangeSafety_proofs ---------------------
(***************************************************************************)
(* What WorkExchange promises about money, refunds, receipts, independence *)
(* and the stub router's choice, and that it implements JobLifecycle, for  *)
(* every choice of its constants.  Most of it follows from one lemma,      *)
(* StepOfAJob, that says what a step can do to one job, its ledger entries *)
(* and its receipt.                                                        *)
(***************************************************************************)
EXTENDS WorkExchange_proofs

-----------------------------------------------------------------------------
(* What a transfer does. *)

\* No account but the issuance account is below zero.
Covered(b) == \A a \in Accounts \ {ISSUANCE}: b[a] >= 0

\* A move keeps every account at or above zero if its payer is the issuance
\* account or covers the amount.
LEMMA MoveCovered ==
  ASSUME NEW b \in [Accounts -> Int], Covered(b), NEW debit, NEW credit,
         NEW amount \in Nat, debit \in Accounts \ {ISSUANCE} => b[debit] >= amount
  PROVE  Covered(Move(b, debit, credit, amount))
<1> DEFINE paid == [b EXCEPT ![debit] = @ - amount]
<1>1. paid \in [Accounts -> Int]
  <2>1. debit \in Accounts => b[debit] - amount \in Int
    OBVIOUS
  <2> QED
    BY <2>1, AssignType
<1>2. \A a \in Accounts \ {ISSUANCE}: paid[a] >= 0
  BY DEF Covered
<1>3. \A a \in Accounts \ {ISSUANCE}: [paid EXCEPT ![credit] = @ + amount][a] >= 0
  BY <1>1, <1>2
<1> QED
  BY <1>3 DEF Move, Covered

\* A transfer overdraws no account, whoever pays and whether or not it goes
\* through.
LEMMA TransferCovered ==
  ASSUME NEW book \in Book, NEW debit, NEW credit, NEW amount \in Nat,
         NEW reason \in Reasons, NEW j \in JobIds, Covered(book.balance)
  PROVE  Covered(Transfer(book, debit, credit, amount, reason, j).balance)
<1>1. book.balance \in [Accounts -> Int]
  BY DEF Book
<1>2. CASE ~book.ok \/ amount = 0
  BY <1>2 DEF Transfer
<1>3. CASE book.ok /\ amount # 0 /\ book.balance[debit] < amount
  BY <1>3 DEF Transfer, Book
<1>4. CASE book.ok /\ amount # 0 /\ ~(book.balance[debit] < amount)
  <2>1. debit \in Accounts => book.balance[debit] \in Int
    BY <1>1
  <2>2. debit \in Accounts \ {ISSUANCE} => book.balance[debit] >= amount
    BY <1>4, <2>1
  <2>3. Covered(Move(book.balance, debit, credit, amount))
    BY <1>1, <2>2, MoveCovered
  <2> QED
    BY <1>4, <2>3 DEF Transfer
<1> QED
  BY <1>2, <1>3, <1>4 DEF Book

\* after differs from book by at most one entry, for job j and this reason,
\* and by one entry if it went through and moved something.
PostsOne(after, book, amount, reason, j) ==
  /\ after.entries[j][reason]
       \in {book.entries[j][reason], book.entries[j][reason] + 1}
  /\ \A r \in Reasons \ {reason}: after.entries[j][r] = book.entries[j][r]
  /\ \A i \in JobIds \ {j}: after.entries[i] = book.entries[i]
  /\ after.ok =>
       /\ book.ok
       /\ amount = 0 \/ after.entries[j][reason] = book.entries[j][reason] + 1

\* A transfer posts at most one entry, for its job and its reason; when it
\* goes through, it does post one, unless it moves nothing.
LEMMA TransferEntries ==
  ASSUME NEW book \in Book, NEW debit, NEW credit, NEW amount \in Nat,
         NEW reason \in Reasons, NEW j \in JobIds
  PROVE  PostsOne(Transfer(book, debit, credit, amount, reason, j),
                  book, amount, reason, j)
<1>1. book.entries \in [JobIds -> [Reasons -> Nat]]
  BY DEF Book
<1>2. CASE ~book.ok \/ amount = 0
  BY <1>2 DEF Transfer, PostsOne
<1>3. CASE book.ok /\ amount # 0 /\ book.balance[debit] < amount
  BY <1>3 DEF Transfer, Book, PostsOne
<1>4. CASE book.ok /\ amount # 0 /\ ~(book.balance[debit] < amount)
  <2>1. Transfer(book, debit, credit, amount, reason, j).entries
          = [book.entries EXCEPT ![j][reason] = @ + 1]
    BY <1>4 DEF Transfer
  <2> QED
    BY <1>1, <1>4, <2>1 DEF PostsOne
<1> QED
  BY <1>2, <1>3, <1>4 DEF Book

\* The four transfers of a settlement overdraw nobody, add entries to this
\* job only, and under no other reasons; when they all go through, the
\* payout and every fee that is not zero has an entry.
LEMMA SettleBookFacts ==
  ASSUME TypeOK, NEW j \in JobIds, deals[jobs[j].deal] \in Terms
  PROVE  /\ NoOverdraft => Covered(SettleBook(j).balance)
         /\ \A i \in JobIds \ {j}: SettleBook(j).entries[i] = entries[i]
         /\ \A r \in {"job-posting-fee", "posting-fee-refund"}:
              SettleBook(j).entries[j][r] = entries[j][r]
         /\ SettleBook(j).entries[j]["worker-payout"] >= entries[j]["worker-payout"]
         /\ SettleBook(j).ok =>
              /\ SettleBook(j).entries[j]["worker-payout"] > 0
              /\ \A r \in DOMAIN SettlementFee:
                   SettlementFee[r] = 0 \/ SettleBook(j).entries[j][r] > 0
<1> DEFINE buyer == jobs[j].buyer
           deal == deals[jobs[j].deal]
<1>1. PICK b1, b2, b3, b4:
        /\ b1 = Transfer(CurrentBook, buyer, deal.seller, deal.price, "worker-payout", j)
        /\ b2 = Transfer(b1, buyer, EXCHANGE_FEES, Orchestration, "orchestration-fee", j)
        /\ b3 = Transfer(b2, buyer, EXCHANGE_FEES, Completion, "completion-fee", j)
        /\ b4 = Transfer(b3, buyer, BENCH_FEES, BenchValidation,
                         "bench-validation-fee-stub", j)
  OBVIOUS
<1>2. SettleBook(j) = b4
  BY <1>1 DEF SettleBook
<1>3. /\ deal.price \in Nat \ {0}
      /\ Orchestration \in Nat /\ Completion \in Nat /\ BenchValidation \in Nat
  BY ExchangeAssumption DEF Terms
<1>4. {"worker-payout", "orchestration-fee", "completion-fee", "job-posting-fee",
       "bench-validation-fee-stub", "posting-fee-refund"} \subseteq Reasons
  BY DEF Reasons
<1>5. CurrentBook \in Book /\ CurrentBook.balance = balance
      /\ CurrentBook.entries = entries
  BY CurrentBookType DEF CurrentBook
<1>6. b1 \in Book
  BY <1>1, <1>3, <1>4, <1>5, TransferType, Zenon
<1>7. b2 \in Book
  BY <1>1, <1>3, <1>4, <1>6, TransferType, Zenon
<1>8. b3 \in Book
  BY <1>1, <1>3, <1>4, <1>7, TransferType, Zenon
<1>9. b4 \in Book
  BY <1>1, <1>3, <1>4, <1>8, TransferType, Zenon
<1>10. NoOverdraft => Covered(b4.balance)
  <2> SUFFICES ASSUME NoOverdraft PROVE Covered(b4.balance)
    OBVIOUS
  <2>1. Covered(CurrentBook.balance)
    BY <1>5 DEF Covered, NoOverdraft
  <2>2. Covered(b1.balance)
    BY <1>1, <1>3, <1>4, <1>5, <2>1, TransferCovered
  <2>3. Covered(b2.balance)
    BY <1>1, <1>3, <1>4, <1>6, <2>2, TransferCovered
  <2>4. Covered(b3.balance)
    BY <1>1, <1>3, <1>4, <1>7, <2>3, TransferCovered
  <2> QED
    BY <1>1, <1>3, <1>4, <1>8, <2>4, TransferCovered
<1>11. PostsOne(b1, CurrentBook, deal.price, "worker-payout", j)
  BY <1>1, <1>3, <1>4, <1>5, TransferEntries
<1>12. PostsOne(b2, b1, Orchestration, "orchestration-fee", j)
  BY <1>1, <1>3, <1>4, <1>6, TransferEntries
<1>13. PostsOne(b3, b2, Completion, "completion-fee", j)
  BY <1>1, <1>3, <1>4, <1>7, TransferEntries
<1>14. PostsOne(b4, b3, BenchValidation, "bench-validation-fee-stub", j)
  BY <1>1, <1>3, <1>4, <1>8, TransferEntries
<1>15. \A r \in {"job-posting-fee", "posting-fee-refund"}: b4.entries[j][r] = entries[j][r]
  BY <1>4, <1>5, <1>11, <1>12, <1>13, <1>14 DEF PostsOne
<1>16. ASSUME b4.ok
       PROVE  /\ b4.entries[j]["worker-payout"] > 0
              /\ Orchestration = 0 \/ b4.entries[j]["orchestration-fee"] > 0
              /\ Completion = 0 \/ b4.entries[j]["completion-fee"] > 0
              /\ BenchValidation = 0 \/ b4.entries[j]["bench-validation-fee-stub"] > 0
  <2>1. /\ entries[j]["worker-payout"] \in Nat
        /\ b1.entries[j]["orchestration-fee"] \in Nat
        /\ b2.entries[j]["completion-fee"] \in Nat
        /\ b3.entries[j]["bench-validation-fee-stub"] \in Nat
    BY <1>4, <1>6, <1>7, <1>8 DEF TypeOK, Book
  <2>2. b4.entries[j]["worker-payout"] = entries[j]["worker-payout"] + 1
    BY <1>3, <1>4, <1>5, <1>11, <1>12, <1>13, <1>14, <1>16 DEF PostsOne
  <2>3. Orchestration = 0
        \/ b4.entries[j]["orchestration-fee"] = b1.entries[j]["orchestration-fee"] + 1
    BY <1>4, <1>12, <1>13, <1>14, <1>16 DEF PostsOne
  <2>4. Completion = 0
        \/ b4.entries[j]["completion-fee"] = b2.entries[j]["completion-fee"] + 1
    BY <1>4, <1>13, <1>14, <1>16 DEF PostsOne
  <2> QED
    BY <1>14, <1>16, <2>1, <2>2, <2>3, <2>4 DEF PostsOne
<1>17. b4.ok => \A r \in DOMAIN SettlementFee:
                  SettlementFee[r] = 0 \/ b4.entries[j][r] > 0
  BY <1>16 DEF SettlementFee
<1>18. \A i \in JobIds \ {j}: b4.entries[i] = entries[i]
  BY <1>5, <1>11, <1>12, <1>13, <1>14 DEF PostsOne
<1>19. b4.entries[j]["worker-payout"] >= entries[j]["worker-payout"]
  <2>1. entries[j]["worker-payout"] \in Nat
    BY <1>4 DEF TypeOK
  <2> QED
    BY <1>4, <1>5, <1>11, <1>12, <1>13, <1>14, <2>1 DEF PostsOne
<1> QED
  BY <1>2, <1>10, <1>15, <1>16, <1>17, <1>18, <1>19

\* A refund overdraws nobody and adds at most one entry, the refund's own.
LEMMA RefundBookFacts ==
  ASSUME TypeOK, NEW j \in JobIds
  PROVE  /\ NoOverdraft => Covered(RefundBook(j).balance)
         /\ \A i \in JobIds \ {j}: RefundBook(j).entries[i] = entries[i]
         /\ \A r \in Reasons \ {"posting-fee-refund"}:
              RefundBook(j).entries[j][r] = entries[j][r]
         /\ RefundBook(j).entries[j]["posting-fee-refund"]
              \in {entries[j]["posting-fee-refund"], entries[j]["posting-fee-refund"] + 1}
<1>1. CurrentBook \in Book /\ CurrentBook.balance = balance
      /\ CurrentBook.entries = entries
  BY CurrentBookType DEF CurrentBook
<1>2. "posting-fee-refund" \in Reasons /\ JobPosting \in Nat
  BY ExchangeAssumption DEF Reasons
<1>3. NoOverdraft => Covered(CurrentBook.balance)
  BY <1>1 DEF Covered, NoOverdraft
<1>4. CASE RefundPostingFee
  <2>1. NoOverdraft => Covered(RefundBook(j).balance)
    BY <1>1, <1>2, <1>3, <1>4, TransferCovered DEF RefundBook
  <2>2. PostsOne(RefundBook(j), CurrentBook, JobPosting, "posting-fee-refund", j)
    BY <1>1, <1>2, <1>4, TransferEntries DEF RefundBook
  <2> QED
    BY <1>1, <2>1, <2>2 DEF PostsOne
<1>5. CASE ~RefundPostingFee
  BY <1>1, <1>3, <1>5 DEF RefundBook
<1> QED
  BY <1>4, <1>5

-----------------------------------------------------------------------------
(* No overdrafts. *)

\* No step overdraws an account.
LEMMA NextCovered == TypeOK /\ DealAgreement /\ NoOverdraft /\ [Next]_vars => NoOverdraft'
<1> SUFFICES ASSUME TypeOK, DealAgreement, NoOverdraft, [Next]_vars
             PROVE  Covered(balance')
  BY DEF Covered, NoOverdraft
<1>1. Covered(balance)
  BY DEF Covered, NoOverdraft
<1>2. ASSUME UNCHANGED balance
      PROVE  Covered(balance')
  BY <1>1, <1>2
<1>3. ASSUME NEW account \in Accounts, NEW amount \in Credits, CreditPaper(account, amount)
      PROVE  Covered(balance')
  <2>1. balance \in [Accounts -> Int] /\ amount \in Nat
    BY ExchangeAssumption DEF TypeOK
  <2>2. Covered(Move(balance, ISSUANCE, account, amount))
    BY <1>1, <2>1, MoveCovered
  <2> QED
    BY <1>3, <2>2 DEF CreditPaper
<1>4. ASSUME NEW j \in JobIds, NEW buyer \in Dids, NEW budget \in Budgets,
             PostJob(j, buyer, budget)
      PROVE  Covered(balance')
  <2>1. CurrentBook \in Book /\ Covered(CurrentBook.balance)
    BY <1>1, CurrentBookType DEF CurrentBook
  <2>2. "job-posting-fee" \in Reasons /\ JobPosting \in Nat
    BY ExchangeAssumption DEF Reasons
  <2>3. Covered(Transfer(CurrentBook, buyer, EXCHANGE_FEES, JobPosting,
                         "job-posting-fee", j).balance)
    BY <2>1, <2>2, TransferCovered
  <2> QED
    BY <1>4, <2>3 DEF PostJob, PostBook
<1>5. ASSUME NEW j \in JobIds, SettleCompletes(j)
      PROVE  Covered(balance')
  <2>1. deals[jobs[j].deal] \in Terms
    BY <1>5, SettledDealIsThere DEF SettleCompletes
  <2> QED
    BY <1>5, <2>1, SettleBookFacts DEF SettleCompletes, PostBook
<1>6. ASSUME NEW j \in JobIds, SettleAborts(j)
      PROVE  Covered(balance')
  <2>1. deals[jobs[j].deal] \in Terms
    BY <1>6, SettledDealIsThere DEF SettleAborts
  <2> QED
    BY <1>6, <2>1, SettleBookFacts DEF SettleAborts, PostBook
<1>7. ASSUME NEW j \in JobIds, Refund(j)
      PROVE  Covered(balance')
  BY <1>7, RefundBookFacts DEF Refund, PostBook
<1> QED
  BY <1>2, <1>3, <1>4, <1>5, <1>6, <1>7 DEF Next, vars, InitIdentity, SubmitOffer,
     AcceptOffer, SubmitResult, Verify

\* Only the issuance account is ever below zero, whatever the fees, however
\* many jobs share a buyer, and however settlements fail and are run again.
THEOREM NobodyOverdrawn == Spec => []NoOverdraft
<1>1. Init => NoOverdraft
  BY DEF Init, NoOverdraft
<1>2. Spec => [](TypeOK /\ DealAgreement)
  BY TypeAndAgreement
<1> QED
  BY <1>1, <1>2, NextCovered, PTL DEF Spec

-----------------------------------------------------------------------------
(* What one step can do to one job. *)

\* Nothing.
LeavesAlone(i) ==
  jobs'[i] = jobs[i] /\ entries'[i] = entries[i] /\ receipts'[i] = receipts[i]

\* The job appears, and perhaps the entry of its posting fee.
Posts(i) ==
  /\ jobs[i].status = "ABSENT" /\ jobs'[i].status = "POSTED"
  /\ jobs'[i].bench = None
  /\ \A r \in Reasons \ {"job-posting-fee"}: entries'[i][r] = entries[i][r]
  /\ receipts'[i] = receipts[i]

\* An offer comes in or is accepted, or the worker hands its result in.
Proceeds(i) ==
  /\ <<jobs[i].status, jobs'[i].status>>
       \in {<<"POSTED", "OFFERED">>, <<"OFFERED", "OFFERED">>,
            <<"OFFERED", "ACCEPTED">>, <<"ACCEPTED", "RESULT_SUBMITTED">>}
  /\ jobs'[i].bench = jobs[i].bench
  /\ entries'[i] = entries[i] /\ receipts'[i] = receipts[i]

\* Bench rules on the result.
Judges(i) ==
  /\ jobs[i].status = "RESULT_SUBMITTED" /\ jobs'[i].result = jobs[i].result
  /\ jobs'[i].status = (IF jobs'[i].bench = "PASS" THEN "VERIFIED" ELSE "FAILED")
  /\ entries'[i] = entries[i] /\ receipts'[i] = receipts[i]

\* Entries of a settlement, for a result that Bench passed.
SettlesEntries(i) ==
  /\ jobs[i].status = "VERIFIED" /\ jobs[i].bench = "PASS" /\ jobs[i].result # None
  /\ \A r \in {"job-posting-fee", "posting-fee-refund"}: entries'[i][r] = entries[i][r]
  /\ entries'[i]["worker-payout"] >= entries[i]["worker-payout"]

\* A settlement that stops half way.
PaysInPart(i) ==
  SettlesEntries(i) /\ jobs'[i] = jobs[i] /\ receipts'[i] = receipts[i]

\* A settlement that goes through.
Completes(i) ==
  /\ SettlesEntries(i)
  /\ jobs'[i] = [jobs[i] EXCEPT !.status = "COMPLETED"]
  /\ jobs[i].deal \in DealIds
  /\ receipts'[i] = [deal |-> jobs[i].deal, result |-> jobs[i].result]
  /\ entries'[i]["worker-payout"] > 0
  /\ \A r \in DOMAIN SettlementFee: SettlementFee[r] = 0 \/ entries'[i][r] > 0

\* A refund.
Refunds(i) ==
  /\ jobs[i].status \in {"ACCEPTED", "RESULT_SUBMITTED", "FAILED"}
  /\ jobs'[i] = [jobs[i] EXCEPT !.status = "REFUNDED"]
  /\ \A r \in Reasons \ {"posting-fee-refund"}: entries'[i][r] = entries[i][r]
  /\ entries'[i]["posting-fee-refund"] <= entries[i]["posting-fee-refund"] + 1
  /\ receipts'[i] = receipts[i]

JobStep(i) ==
  \/ LeavesAlone(i) \/ Posts(i) \/ Proceeds(i) \/ Judges(i)
  \/ PaysInPart(i) \/ Completes(i) \/ Refunds(i)

\* Job j takes a step, and no other job is touched.
OnlyMoves(j) == JobStep(j) /\ \A i \in JobIds \ {j}: LeavesAlone(i)

\* A step of the exchange touches no job's file, entries and receipt, or it is
\* one of these steps for one job.
LEMMA StepOfOneJob ==
  ASSUME TypeOK, DealAgreement, [Next]_vars
  PROVE  \/ UNCHANGED <<jobs, entries, receipts>>
         \/ \E j \in JobIds: OnlyMoves(j)
<1>1. ASSUME NEW j \in JobIds, NEW buyer \in Dids, NEW budget \in Budgets,
             PostJob(j, buyer, budget)
      PROVE  OnlyMoves(j)
  <2>1. PostsOne([balance |-> balance', entries |-> entries',
                  ok |-> Transfer(CurrentBook, buyer, EXCHANGE_FEES, JobPosting,
                                  "job-posting-fee", j).ok],
                 CurrentBook, JobPosting, "job-posting-fee", j)
    <3>1. CurrentBook \in Book /\ "job-posting-fee" \in Reasons /\ JobPosting \in Nat
      BY CurrentBookType, ExchangeAssumption DEF Reasons
    <3>2. PostsOne(Transfer(CurrentBook, buyer, EXCHANGE_FEES, JobPosting,
                            "job-posting-fee", j),
                   CurrentBook, JobPosting, "job-posting-fee", j)
      BY <3>1, TransferEntries
    <3> QED
      BY <1>1, <3>2 DEF PostJob, PostBook, PostsOne
  <2>2. /\ \A r \in Reasons \ {"job-posting-fee"}: entries'[j][r] = entries[j][r]
        /\ \A k \in JobIds \ {j}: entries'[k] = entries[k]
    BY <2>1 DEF PostsOne, CurrentBook
  <2>3. /\ jobs[j].status = "ABSENT" /\ receipts' = receipts
        /\ jobs' = [jobs EXCEPT ![j] = [NoJob EXCEPT !.status = "POSTED",
                                          !.buyer = buyer, !.budget = budget]]
    BY <1>1 DEF PostJob
  <2>4. JobStep(j)
    <3>1. jobs'[j].status = "POSTED" /\ jobs'[j].bench = None
      BY <2>3 DEF TypeOK, NoJob
    <3> QED
      BY <2>2, <2>3, <3>1 DEF JobStep, Posts
  <2>5. \A i \in JobIds \ {j}: LeavesAlone(i)
    BY <2>2, <2>3 DEF LeavesAlone, TypeOK
  <2> QED
    BY <2>4, <2>5 DEF OnlyMoves
<1>2. ASSUME NEW o \in OfferIds, NEW j \in JobIds, NEW seller \in Dids,
             NEW price \in Prices, SubmitOffer(o, j, seller, price)
      PROVE  OnlyMoves(j)
  <2>1. jobs[j] \in Job \ {NoJob} /\ jobs[j].status \in {"POSTED", "OFFERED"}
    BY <1>2, JobIsThere DEF SubmitOffer, RequireStatus, ALLOWED
  <2>2. /\ jobs' = [jobs EXCEPT ![j] = [jobs[j] EXCEPT !.status = "OFFERED"]]
        /\ entries' = entries /\ receipts' = receipts
    BY <1>2 DEF SubmitOffer
  <2>3. JobStep(j)
    <3>1. jobs'[j].status = "OFFERED" /\ jobs'[j].bench = jobs[j].bench
      BY <2>1, <2>2 DEF TypeOK, Job
    <3> QED
      BY <2>1, <2>2, <3>1 DEF JobStep, Proceeds
  <2>4. \A i \in JobIds \ {j}: LeavesAlone(i)
    BY <2>2 DEF LeavesAlone, TypeOK
  <2> QED
    BY <2>3, <2>4 DEF OnlyMoves
<1>3. ASSUME NEW o \in OfferIds, NEW d \in DealIds, NEW override \in Overrides,
             AcceptOffer(o, d, override)
      PROVE  offers[o].job \in JobIds /\ OnlyMoves(offers[o].job)
  <2> DEFINE j == offers[o].job
  <2>1. offers[o].status = "OPEN" /\ j \in JobIds
    BY <1>3, AcceptedOfferIsThere DEF AcceptOffer
  <2>2. jobs[j].status = "OFFERED" /\ jobs[j] \in Job \ {NoJob}
    BY <1>3, <2>1, JobIsThere DEF AcceptOffer, ALLOWED, DealAgreement, OffersBelong
  <2>3. /\ jobs' = [jobs EXCEPT ![j] = [jobs[j] EXCEPT !.status = "ACCEPTED",
                                                      !.offer = o, !.deal = d]]
        /\ entries' = entries /\ receipts' = receipts
    BY <1>3, <2>1 DEF AcceptOffer, TypeOK
  <2>4. JobStep(j)
    <3>1. jobs'[j].status = "ACCEPTED" /\ jobs'[j].bench = jobs[j].bench
      BY <2>1, <2>2, <2>3 DEF TypeOK, Job
    <3> QED
      BY <2>2, <2>3, <3>1 DEF JobStep, Proceeds
  <2>5. \A i \in JobIds \ {j}: LeavesAlone(i)
    BY <2>3 DEF LeavesAlone, TypeOK
  <2> QED
    BY <2>1, <2>4, <2>5 DEF OnlyMoves
<1>4. ASSUME NEW j \in JobIds, NEW result \in Results, SubmitResult(j, result)
      PROVE  OnlyMoves(j)
  <2>1. jobs[j] \in Job \ {NoJob} /\ jobs[j].status = "ACCEPTED"
    BY <1>4, JobIsThere DEF SubmitResult, RequireStatus, ALLOWED
  <2>2. /\ jobs' = [jobs EXCEPT ![j] = [jobs[j] EXCEPT !.status = "RESULT_SUBMITTED",
                                                      !.result = result]]
        /\ entries' = entries /\ receipts' = receipts
    BY <1>4 DEF SubmitResult
  <2>3. JobStep(j)
    <3>1. jobs'[j].status = "RESULT_SUBMITTED" /\ jobs'[j].bench = jobs[j].bench
      BY <2>1, <2>2 DEF TypeOK, Job
    <3> QED
      BY <2>1, <2>2, <3>1 DEF JobStep, Proceeds
  <2>4. \A i \in JobIds \ {j}: LeavesAlone(i)
    BY <2>2 DEF LeavesAlone, TypeOK
  <2> QED
    BY <2>3, <2>4 DEF OnlyMoves
<1>5. ASSUME NEW j \in JobIds, NEW verdict \in BenchResults, Verify(j, verdict)
      PROVE  OnlyMoves(j)
  <2>1. jobs[j] \in Job \ {NoJob} /\ jobs[j].status = "RESULT_SUBMITTED"
    BY <1>5, JobIsThere DEF Verify, RequireStatus, ALLOWED
  <2>2. PICK s: /\ s = (IF verdict = "PASS" THEN "VERIFIED" ELSE "FAILED")
                /\ jobs' = [jobs EXCEPT ![j] = [jobs[j] EXCEPT !.bench = verdict,
                                                              !.status = s]]
                /\ entries' = entries /\ receipts' = receipts
    BY <1>5 DEF Verify
  <2>3. JobStep(j)
    <3>1. /\ jobs'[j].status = s /\ jobs'[j].bench = verdict
          /\ jobs'[j].result = jobs[j].result
      BY <2>1, <2>2 DEF TypeOK, Job
    <3> QED
      BY <2>1, <2>2, <3>1 DEF JobStep, Judges
  <2>4. \A i \in JobIds \ {j}: LeavesAlone(i)
    BY <2>2 DEF LeavesAlone, TypeOK
  <2> QED
    BY <2>3, <2>4 DEF OnlyMoves
<1>6. ASSUME NEW j \in JobIds, MaySettle(j), entries' = SettleBook(j).entries
      PROVE  /\ SettlesEntries(j)
             /\ \A k \in JobIds \ {j}: entries'[k] = entries[k]
             /\ SettleBook(j).ok =>
                  /\ entries'[j]["worker-payout"] > 0
                  /\ \A r \in DOMAIN SettlementFee:
                       SettlementFee[r] = 0 \/ entries'[j][r] > 0
  <2>1. deals[jobs[j].deal] \in Terms
    BY <1>6, SettledDealIsThere
  <2> QED
    BY <1>6, <2>1, SettleBookFacts DEF SettlesEntries, MaySettle, RequireStatus, ALLOWED
<1>7. ASSUME NEW j \in JobIds, SettleCompletes(j)
      PROVE  OnlyMoves(j)
  <2>1. MaySettle(j) /\ entries' = SettleBook(j).entries /\ SettleBook(j).ok
    BY <1>7 DEF SettleCompletes, PostBook
  <2>2. jobs[j].deal \in DealIds
    BY <1>7, SettledDealIsThere DEF SettleCompletes
  <2>3. /\ jobs' = [jobs EXCEPT ![j] = [jobs[j] EXCEPT !.status = "COMPLETED"]]
        /\ receipts' = [receipts EXCEPT ![j] = [deal |-> jobs[j].deal,
                                                result |-> jobs[j].result]]
    BY <1>7 DEF SettleCompletes
  <2>4. JobStep(j)
    BY <1>6, <2>1, <2>2, <2>3 DEF JobStep, Completes, TypeOK
  <2>5. \A i \in JobIds \ {j}: LeavesAlone(i)
    BY <1>6, <2>1, <2>3 DEF LeavesAlone, TypeOK
  <2> QED
    BY <2>4, <2>5 DEF OnlyMoves
<1>8. ASSUME NEW j \in JobIds, SettleAborts(j)
      PROVE  OnlyMoves(j)
  BY <1>6, <1>8 DEF SettleAborts, PostBook, JobStep, PaysInPart, LeavesAlone, OnlyMoves
<1>9. ASSUME NEW j \in JobIds, Refund(j)
       PROVE  OnlyMoves(j)
  <2>1. /\ jobs[j].status \in {"ACCEPTED", "RESULT_SUBMITTED", "FAILED"}
        /\ jobs' = [jobs EXCEPT ![j] = [jobs[j] EXCEPT !.status = "REFUNDED"]]
        /\ entries' = RefundBook(j).entries /\ receipts' = receipts
    BY <1>9 DEF Refund, RequireStatus, ALLOWED, PostBook
  <2>2. entries[j]["posting-fee-refund"] \in Nat
    BY DEF TypeOK, Reasons
  <2>3. JobStep(j)
    <3>1. /\ \A r \in Reasons \ {"posting-fee-refund"}: entries'[j][r] = entries[j][r]
          /\ entries'[j]["posting-fee-refund"]
               \in {entries[j]["posting-fee-refund"], entries[j]["posting-fee-refund"] + 1}
      BY <2>1, RefundBookFacts
    <3>2. jobs'[j] = [jobs[j] EXCEPT !.status = "REFUNDED"]
      BY <2>1 DEF TypeOK
    <3> QED
      BY <2>1, <2>2, <3>1, <3>2 DEF JobStep, Refunds
  <2>4. \A i \in JobIds \ {j}: LeavesAlone(i)
    BY <2>1, RefundBookFacts DEF LeavesAlone, TypeOK
  <2> QED
    BY <2>3, <2>4 DEF OnlyMoves
<1> QED
  BY <1>1, <1>2, <1>3, <1>4, <1>5, <1>7, <1>8, <1>9
     DEF Next, vars, InitIdentity, CreditPaper

\* So it is one of these steps for every job.
LEMMA StepOfAJob ==
  ASSUME TypeOK, DealAgreement, [Next]_vars, NEW i \in JobIds
  PROVE  JobStep(i)
BY StepOfOneJob DEF OnlyMoves, JobStep, LeavesAlone

-----------------------------------------------------------------------------
(* Payments, receipts and refunds. *)

\* A job whose status alone is set keeps the rest of its file.
LEMMA StatusSet ==
  ASSUME TypeOK, NEW i \in JobIds, NEW s
  PROVE  LET new == [jobs[i] EXCEPT !.status = s]
         IN /\ new.status = s /\ new.bench = jobs[i].bench
            /\ new.result = jobs[i].result /\ new.deal = jobs[i].deal
BY DEF TypeOK, Job, NoJob

\* PaidOnlyAfterPass for one job.
PaidAfterPass(i) ==
  entries[i]["worker-payout"] > 0 =>
    jobs[i].bench = "PASS" /\ jobs[i].status \in {"VERIFIED", "COMPLETED"}

\* A paid job was VERIFIED when it was paid, and can only be completed.
LEMMA NextPaid ==
  TypeOK /\ DealAgreement /\ PaidOnlyAfterPass /\ [Next]_vars => PaidOnlyAfterPass'
<1> SUFFICES ASSUME TypeOK, DealAgreement, PaidOnlyAfterPass, [Next]_vars,
                    NEW i \in JobIds
             PROVE  PaidAfterPass(i)'
  BY DEF PaidOnlyAfterPass, PaidAfterPass
<1>1. JobStep(i)
  BY StepOfAJob
<1>2. PaidAfterPass(i)
  BY DEF PaidOnlyAfterPass, PaidAfterPass
<1>3. "worker-payout" \in Reasons \ {"job-posting-fee", "posting-fee-refund"}
  BY DEF Reasons
<1>4. CASE LeavesAlone(i) \/ PaysInPart(i)
  BY <1>2, <1>4 DEF LeavesAlone, PaysInPart, SettlesEntries, PaidAfterPass
<1>5. CASE Posts(i) \/ Proceeds(i) \/ Judges(i)
  BY <1>2, <1>3, <1>5 DEF Posts, Proceeds, Judges, PaidAfterPass
<1>6. CASE Completes(i)
  BY <1>6, StatusSet DEF Completes, SettlesEntries, PaidAfterPass
<1>7. CASE Refunds(i)
  BY <1>2, <1>3, <1>7 DEF Refunds, PaidAfterPass
<1> QED
  BY <1>1, <1>4, <1>5, <1>6, <1>7 DEF JobStep

\* A worker is paid only for a result that Bench passed, and a paid job is
\* never refunded, failed or open again.
THEOREM PaidForPassedWork == Spec => []PaidOnlyAfterPass
<1>1. Init => PaidOnlyAfterPass
  BY DEF Init, PaidOnlyAfterPass, Reasons
<1>2. Spec => [](TypeOK /\ DealAgreement)
  BY TypeAndAgreement
<1> QED
  BY <1>1, <1>2, NextPaid, PTL DEF Spec

\* RefundAtMostOnce for one job.
RefundedOnce(i) ==
  entries[i]["posting-fee-refund"] <= IF jobs[i].status = "REFUNDED" THEN 1 ELSE 0

\* The step that refunds is the last one of its job.
LEMMA NextRefund ==
  TypeOK /\ DealAgreement /\ RefundAtMostOnce /\ [Next]_vars => RefundAtMostOnce'
<1> SUFFICES ASSUME TypeOK, DealAgreement, RefundAtMostOnce, [Next]_vars,
                    NEW i \in JobIds
             PROVE  RefundedOnce(i)'
  BY DEF RefundAtMostOnce, RefundedOnce
<1>1. JobStep(i)
  BY StepOfAJob
<1>2. RefundedOnce(i) /\ entries[i]["posting-fee-refund"] \in Nat
  BY DEF RefundAtMostOnce, RefundedOnce, TypeOK, Reasons
<1>3. "posting-fee-refund" \in Reasons \ {"job-posting-fee"}
  BY DEF Reasons
<1>4. CASE LeavesAlone(i)
  BY <1>2, <1>4 DEF LeavesAlone, RefundedOnce
<1>5. CASE Posts(i) \/ Proceeds(i) \/ Judges(i)
  BY <1>2, <1>3, <1>5 DEF Posts, Proceeds, Judges, RefundedOnce
<1>6. CASE PaysInPart(i) \/ Completes(i)
  BY <1>2, <1>6, StatusSet DEF PaysInPart, Completes, SettlesEntries, RefundedOnce
<1>7. CASE Refunds(i)
  <2>1. jobs'[i].status = "REFUNDED"
    BY <1>7, StatusSet DEF Refunds
  <2>2. entries[i]["posting-fee-refund"] <= 0
    BY <1>2, <1>7 DEF Refunds, RefundedOnce
  <2>3. entries'[i]["posting-fee-refund"] \in Int
    <3>1. TypeOK'
      BY NextType
    <3> QED
      BY <3>1 DEF TypeOK, Reasons
  <2> QED
    BY <1>2, <1>7, <2>1, <2>2, <2>3 DEF Refunds, RefundedOnce
<1> QED
  BY <1>1, <1>4, <1>5, <1>6, <1>7 DEF JobStep

\* A posting fee is handed back at most once, and only for a refunded job.
THEOREM RefundedAtMostOnce == Spec => []RefundAtMostOnce
<1>1. Init => RefundAtMostOnce
  BY DEF Init, RefundAtMostOnce, Reasons
<1>2. Spec => [](TypeOK /\ DealAgreement)
  BY TypeAndAgreement
<1> QED
  BY <1>1, <1>2, NextRefund, PTL DEF Spec

\* ReceiptMeansPaid for one job.
ReceiptPaid(i) ==
  /\ jobs[i].status = "COMPLETED" <=> receipts[i] # NoReceipt
  /\ jobs[i].status = "COMPLETED" =>
       /\ receipts[i] = [deal |-> jobs[i].deal, result |-> jobs[i].result]
       /\ jobs[i].bench = "PASS" /\ jobs[i].result # None
       /\ entries[i]["worker-payout"] > 0
       /\ \A r \in DOMAIN SettlementFee: SettlementFee[r] = 0 \/ entries[i][r] > 0

\* A receipt and the last entry it stands for come in one step, and nothing
\* happens to a job after it.
LEMMA NextReceipt ==
  TypeOK /\ DealAgreement /\ ReceiptMeansPaid /\ [Next]_vars => ReceiptMeansPaid'
<1> SUFFICES ASSUME TypeOK, DealAgreement, ReceiptMeansPaid, [Next]_vars,
                    NEW i \in JobIds
             PROVE  ReceiptPaid(i)'
  BY DEF ReceiptMeansPaid, ReceiptPaid, SettlementFee
<1>1. JobStep(i)
  BY StepOfAJob
<1>2. ReceiptPaid(i)
  BY DEF ReceiptMeansPaid, ReceiptPaid
<1>3. CASE LeavesAlone(i)
  BY <1>2, <1>3 DEF LeavesAlone, ReceiptPaid, SettlementFee
<1>4. CASE Posts(i) \/ Proceeds(i) \/ Judges(i) \/ PaysInPart(i)
  BY <1>2, <1>4 DEF Posts, Proceeds, Judges, PaysInPart, SettlesEntries, ReceiptPaid
<1>5. CASE Refunds(i)
  BY <1>2, <1>5, StatusSet DEF Refunds, ReceiptPaid
<1>6. CASE Completes(i)
  <2>1. receipts'[i] # NoReceipt
    BY <1>6, ExchangeAssumption DEF Completes, NoReceipt
  <2>2. /\ jobs'[i].status = "COMPLETED" /\ jobs'[i].deal = jobs[i].deal
        /\ jobs'[i].result = jobs[i].result /\ jobs'[i].bench = jobs[i].bench
    BY <1>6, StatusSet DEF Completes
  <2> QED
    BY <1>6, <2>1, <2>2 DEF Completes, SettlesEntries, ReceiptPaid, SettlementFee
<1> QED
  BY <1>1, <1>3, <1>4, <1>5, <1>6 DEF JobStep

\* A job is COMPLETED exactly when it has a receipt, which is for its own deal
\* and result, and the worker and every fee that is not zero are then paid.
THEOREM ReceiptsArePaid == Spec => []ReceiptMeansPaid
<1>1. Init => ReceiptMeansPaid
  BY DEF Init, ReceiptMeansPaid, NoJob
<1>2. Spec => [](TypeOK /\ DealAgreement)
  BY TypeAndAgreement
<1> QED
  BY <1>1, <1>2, NextReceipt, PTL DEF Spec

-----------------------------------------------------------------------------
(* Independence and evidence. *)

\* A deal that counts is declared independent between two parties that are
\* not one operator, and is the reverse of no deal made before it.
LEMMA EligibleDeal ==
  ASSUME TypeOK, NEW o \in OfferIds, NEW d \in DealIds, NEW override \in Overrides,
         AcceptOffer(o, d, override), Eligible(d)'
  PROVE  /\ deals'[d].buyer # deals'[d].seller
         /\ ~({deals'[d].buyer, deals'[d].seller} \subseteq Family)
         /\ <<deals'[d].seller, deals'[d].buyer>> \notin CounterpartyPairs
<1> DEFINE j == offers[o].job
           classified == ClassifyOperatorRelationship(jobs[j].buyer, offers[o].seller)
           relationship == IF override = None THEN classified ELSE override
<1>1. deals'[d] = DealFor(o, relationship)
  BY DEF AcceptOffer, TypeOK
<1>2. /\ deals'[d].buyer = jobs[j].buyer /\ deals'[d].seller = offers[o].seller
      /\ relationship = "independent"
      /\ ~DetectWashRisk(jobs[j].buyer, offers[o].seller, CounterpartyPairs)
  <2>1. PICK stated, wash:
          /\ stated = relationship
          /\ wash = DetectWashRisk(jobs[j].buyer, offers[o].seller, CounterpartyPairs)
    OBVIOUS
  <2>2. /\ deals'[d].buyer = jobs[j].buyer /\ deals'[d].seller = offers[o].seller
        /\ deals'[d].repEligible = ReputationEligible(stated, wash)
        /\ deals'[d].feeEligible = FeeVolumeEligible(stated, wash)
    BY <1>1, <2>1 DEF DealFor
  <2>3. stated = "independent" /\ ~wash
    BY <2>2 DEF Eligible, ReputationEligible, FeeVolumeEligible
  <2> QED
    BY <2>1, <2>2, <2>3
<1>3. classified # "same_operator"
  BY <1>2 DEF AcceptOffer, OverrideRefused
<1> QED
  BY <1>2, <1>3 DEF DetectWashRisk, ClassifyOperatorRelationship

\* No step makes a deal that counts out of one operator's own, or out of the
\* reverse of another deal that counts.
LEMMA NextIndependence ==
  TypeOK /\ IndependenceIsEarned /\ [Next]_vars => IndependenceIsEarned'
<1> SUFFICES ASSUME TypeOK, IndependenceIsEarned, [Next]_vars
             PROVE  IndependenceIsEarned'
  OBVIOUS
<1>1. ASSUME UNCHANGED deals
      PROVE  IndependenceIsEarned'
  BY <1>1 DEF IndependenceIsEarned, DealsMade, Eligible
<1>2. ASSUME NEW o \in OfferIds, NEW d \in DealIds, NEW override \in Overrides,
             AcceptOffer(o, d, override)
      PROVE  IndependenceIsEarned'
  <2>1. /\ d \notin DealsMade /\ DealsMade' \subseteq DealsMade \cup {d}
        /\ \A e \in DealsMade: deals'[e] = deals[e]
    BY <1>2 DEF AcceptOffer, DealsMade, TypeOK
  <2>2. \A e \in DealsMade: <<deals[e].buyer, deals[e].seller>> \in CounterpartyPairs
    BY DEF CounterpartyPairs
  <2>3. \A e \in DealsMade: Eligible(e)' <=> Eligible(e)
    BY <2>1 DEF Eligible
  <2>4. Eligible(d)' =>
          /\ deals'[d].buyer # deals'[d].seller
          /\ ~({deals'[d].buyer, deals'[d].seller} \subseteq Family)
          /\ <<deals'[d].seller, deals'[d].buyer>> \notin CounterpartyPairs
    BY <1>2, EligibleDeal
  <2>5. ASSUME NEW x \in DealsMade', Eligible(x)'
        PROVE  /\ deals'[x].buyer # deals'[x].seller
               /\ ~({deals'[x].buyer, deals'[x].seller} \subseteq Family)
    BY <2>1, <2>3, <2>4, <2>5 DEF IndependenceIsEarned
  <2>6. ASSUME NEW x \in DealsMade', NEW y \in DealsMade', Eligible(x)', Eligible(y)'
        PROVE  <<deals'[y].buyer, deals'[y].seller>>
                 # <<deals'[x].seller, deals'[x].buyer>>
    <3>1. CASE x = d /\ y = d
      BY <2>4, <2>6, <3>1
    <3>2. CASE x = d /\ y # d
      BY <2>1, <2>2, <2>4, <2>6, <3>2
    <3>3. CASE x # d /\ y = d
      <4>1. <<deals'[y].seller, deals'[y].buyer>>
              # <<deals'[x].buyer, deals'[x].seller>>
        BY <2>1, <2>2, <2>4, <2>6, <3>3
      <4> QED
        BY <4>1
    <3>4. CASE x # d /\ y # d
      BY <2>1, <2>3, <2>6, <3>4 DEF IndependenceIsEarned
    <3> QED
      BY <3>1, <3>2, <3>3, <3>4
  <2> QED
    BY <2>5, <2>6 DEF IndependenceIsEarned
<1> QED
  BY <1>1, <1>2 DEF Next, vars, InitIdentity, CreditPaper, PostJob, SubmitOffer,
     SubmitResult, Verify, SettleCompletes, SettleAborts, Refund

\* Independent reputation and fee volume never come from one operator trading
\* with itself, nor from both directions of a reversed pair of deals.
THEOREM IndependentMeansEarned == Spec => []IndependenceIsEarned
<1>1. Init => IndependenceIsEarned
  BY DEF Init, IndependenceIsEarned, DealsMade, NoDeal
<1>2. Spec => [](TypeOK /\ DealAgreement)
  BY TypeAndAgreement
<1> QED
  BY <1>1, <1>2, NextIndependence, PTL DEF Spec

\* A verdict is on file only from verification on.
JudgedLate ==
  \A i \in JobIds: jobs[i].bench # None =>
    jobs[i].status \in {"VERIFIED", "FAILED", "COMPLETED", "REFUNDED"}

\* No step before verification writes a verdict, and none leads back there.
LEMMA NextJudged == TypeOK /\ DealAgreement /\ JudgedLate /\ [Next]_vars => JudgedLate'
<1> SUFFICES ASSUME TypeOK, DealAgreement, JudgedLate, [Next]_vars, NEW i \in JobIds
             PROVE  jobs'[i].bench # None =>
                      jobs'[i].status \in {"VERIFIED", "FAILED", "COMPLETED", "REFUNDED"}
  BY DEF JudgedLate
<1>1. JobStep(i)
  BY StepOfAJob
<1>2. CASE LeavesAlone(i) \/ PaysInPart(i) \/ Posts(i) \/ Proceeds(i)
  BY <1>2 DEF LeavesAlone, PaysInPart, Posts, Proceeds, JudgedLate
<1>3. CASE Judges(i)
  BY <1>3 DEF Judges
<1>4. CASE Completes(i)
  <2>1. jobs'[i].status = "COMPLETED"
    BY <1>4, StatusSet DEF Completes
  <2> QED
    BY <2>1
<1>5. CASE Refunds(i)
  <2>1. jobs'[i].status = "REFUNDED"
    BY <1>5, StatusSet DEF Refunds
  <2> QED
    BY <2>1
<1> QED
  BY <1>1, <1>2, <1>3, <1>4, <1>5 DEF JobStep

\* KeepsEvidence holds of every step from a state with the invariants.
LEMMA NextKeepsEvidence ==
  TypeOK /\ DealAgreement /\ ReceiptMeansPaid /\ JudgedLate /\ [Next]_vars
    => KeepsEvidence
<1> SUFFICES ASSUME TypeOK, DealAgreement, ReceiptMeansPaid, JudgedLate, [Next]_vars
             PROVE  KeepsEvidence
  OBVIOUS
<1>1. ASSUME NEW d \in DealsMade
      PROVE  deals'[d] = deals[d]
  <2>1. CASE UNCHANGED deals
    BY <2>1
  <2>2. ASSUME NEW o \in OfferIds, NEW e \in DealIds, NEW override \in Overrides,
               AcceptOffer(o, e, override)
        PROVE  deals'[d] = deals[d]
    <3>1. d \in DealIds /\ d # e
      BY <1>1, <2>2 DEF DealsMade, AcceptOffer
    <3> QED
      BY <2>2, <3>1 DEF AcceptOffer, TypeOK
  <2>3. CASE \E o \in OfferIds, e \in DealIds, override \in Overrides:
               AcceptOffer(o, e, override)
    BY <2>2, <2>3
  <2>4. CASE UNCHANGED vars
    BY <2>4 DEF vars
  <2> QED
    BY <2>1, <2>3, <2>4 DEF Next, InitIdentity, CreditPaper, PostJob, SubmitOffer,
       SubmitResult, Verify, SettleCompletes, SettleAborts, Refund
<1>2. ASSUME NEW i \in JobIds
      PROVE  /\ receipts[i] # NoReceipt => receipts'[i] = receipts[i]
             /\ jobs[i].bench # None =>
                  jobs'[i].result = jobs[i].result /\ jobs'[i].bench = jobs[i].bench
             /\ jobs[i].status \in {"COMPLETED", "REFUNDED"} =>
                  jobs'[i] = jobs[i] /\ entries'[i] = entries[i]
  <2>1. JobStep(i)
    BY StepOfAJob
  <2>2. /\ jobs[i].status = "COMPLETED" <=> receipts[i] # NoReceipt
        /\ jobs[i].bench # None =>
             jobs[i].status \in {"VERIFIED", "FAILED", "COMPLETED", "REFUNDED"}
    BY DEF ReceiptMeansPaid, JudgedLate
  <2>3. CASE LeavesAlone(i)
    BY <2>3 DEF LeavesAlone
  <2>4. CASE Posts(i) \/ Proceeds(i) \/ Judges(i)
    BY <2>2, <2>4 DEF Posts, Proceeds, Judges
  <2>5. CASE PaysInPart(i)
    BY <2>2, <2>5 DEF PaysInPart, SettlesEntries
  <2>6. CASE Completes(i)
    <3>1. jobs'[i].result = jobs[i].result /\ jobs'[i].bench = jobs[i].bench
      BY <2>6, StatusSet DEF Completes
    <3> QED
      BY <2>2, <2>6, <3>1 DEF Completes, SettlesEntries
  <2>7. CASE Refunds(i)
    <3>1. jobs'[i].result = jobs[i].result /\ jobs'[i].bench = jobs[i].bench
      BY <2>7, StatusSet DEF Refunds
    <3> QED
      BY <2>2, <2>7, <3>1 DEF Refunds
  <2> QED
    BY <2>1, <2>3, <2>4, <2>5, <2>6, <2>7 DEF JobStep
<1> QED
  BY <1>1, <1>2 DEF KeepsEvidence

\* Deals, receipts, judged results and ended jobs are never rewritten.
THEOREM EvidenceStays == Spec => EvidenceIsPermanent
<1>1. Init => JudgedLate
  BY DEF Init, JudgedLate, NoJob
<1>2. Spec => [](TypeOK /\ DealAgreement)
  BY TypeAndAgreement
<1>3. Spec => []ReceiptMeansPaid
  BY ReceiptsArePaid
<1> QED
  BY <1>1, <1>2, <1>3, NextJudged, NextKeepsEvidence, PTL DEF Spec, EvidenceIsPermanent

-----------------------------------------------------------------------------
(* The stub router. *)

\* CheapestOfferWins for one job.
Cheapest(i) ==
  \A o \in OfferIds: offers[o].job = i => offers[jobs[i].offer].price <= offers[o].price

\* An accepted job keeps its offer, and the offers for it their prices: none
\* comes to an accepted job.
KeepsOffers(i) ==
  /\ i \in AcceptedJobs /\ jobs'[i].offer = jobs[i].offer
  /\ \A o \in OfferIds:
       (offers[o].job = i \/ offers'[o].job = i) =>
         offers'[o].job = offers[o].job /\ offers'[o].price = offers[o].price

LEMMA CheapestKept ==
  ASSUME DealAgreement, NEW i \in JobIds, KeepsOffers(i), Cheapest(i)
  PROVE  Cheapest(i)'
<1>1. jobs[i].offer \in OfferIds /\ offers[jobs[i].offer].job = i
  BY DEF KeepsOffers, DealAgreement, AcceptedHasDeal
<1> QED
  BY <1>1 DEF KeepsOffers, Cheapest

\* The offers a job has when it is accepted are all open, and the stub router
\* has chosen the cheapest of these.
LEMMA AwardedIsCheapest ==
  ASSUME TypeOK, DealAgreement, Routers = {"stub"},
         NEW o \in OfferIds, NEW d \in DealIds, NEW override \in Overrides,
         AcceptOffer(o, d, override),
         NEW j, j = offers[o].job
  PROVE  /\ Cheapest(j)'
         /\ \A i \in AcceptedJobs' \ {j}: KeepsOffers(i)
<1>1. /\ offers[o].status = "OPEN" /\ j \in JobIds /\ offers' = AwardOffer(j, o)
      /\ jobs[j].status = "OFFERED" /\ jobs[j] \in Job \ {NoJob}
      /\ StubRoute(j, o)
  <2>1. offers[o].status = "OPEN" /\ j \in JobIds
    BY AcceptedOfferIsThere DEF AcceptOffer
  <2> QED
    BY <2>1, JobIsThere DEF AcceptOffer, ALLOWED, DealAgreement, OffersBelong, RouterSelects
<1>2. /\ jobs'[j].status = "ACCEPTED" /\ jobs'[j].offer = o
      /\ \A i \in JobIds \ {j}: jobs'[i] = jobs[i]
  <2>1. jobs' = [jobs EXCEPT ![j] = [jobs[j] EXCEPT !.status = "ACCEPTED",
                                                    !.offer = o, !.deal = d]]
    BY <1>1 DEF AcceptOffer, TypeOK
  <2> QED
    BY <1>1, <2>1 DEF TypeOK, Job
<1>3. ASSUME NEW x \in OfferIds
      PROVE  offers'[x].job = offers[x].job /\ offers'[x].price = offers[x].price
  <2>1. offers[x] \in Offer
    BY DEF TypeOK
  <2> QED
    BY <1>1, <2>1 DEF AwardOffer, Offer, NoOffer
<1>4. ASSUME NEW x \in OfferIds, offers[x].job = j
      PROVE  offers[o].price <= offers[x].price
  <2>1. offers[x].status # "ABSENT"
    BY <1>1, <1>4, ExchangeAssumption DEF TypeOK, Offer, NoOffer
  <2>2. x \in OpenOffers(j)
    BY <1>1, <1>4, <2>1 DEF DealAgreement, OffersBelong, OpenOffers
  <2> QED
    BY <1>1, <2>2 DEF StubRoute
<1>5. Cheapest(j)'
  BY <1>2, <1>3, <1>4 DEF Cheapest
<1>6. ASSUME NEW i \in AcceptedJobs' \ {j}
      PROVE  KeepsOffers(i)
  BY <1>2, <1>3, <1>6 DEF KeepsOffers, AcceptedJobs
<1> QED
  BY <1>1, <1>5, <1>6

\* No other step adds to the offers of an accepted job, or accepts a job.
LEMMA OthersKeepOffers ==
  ASSUME TypeOK, DealAgreement, [Next]_vars,
         ~\E o \in OfferIds, d \in DealIds, override \in Overrides: AcceptOffer(o, d, override),
         NEW i \in AcceptedJobs'
  PROVE  KeepsOffers(i)
<1>1. i \in JobIds /\ jobs'[i].status \in Accepted
  BY DEF AcceptedJobs
<1>2. CASE UNCHANGED <<jobs, offers>>
  BY <1>1, <1>2 DEF KeepsOffers, AcceptedJobs
<1>3. ASSUME UNCHANGED offers, NEW j \in JobIds, jobs[j].status \in Accepted,
             NEW new, jobs' = [jobs EXCEPT ![j] = new], new.offer = jobs[j].offer
      PROVE  KeepsOffers(i)
  BY <1>1, <1>3 DEF KeepsOffers, AcceptedJobs, TypeOK
<1>4. ASSUME NEW j \in JobIds, NEW buyer \in Dids, NEW budget \in Budgets,
             PostJob(j, buyer, budget)
      PROVE  KeepsOffers(i)
  <2>1. i # j
    BY <1>1, <1>4 DEF PostJob, TypeOK, Accepted, NoJob
  <2> QED
    BY <1>1, <1>4, <2>1 DEF PostJob, TypeOK, KeepsOffers, AcceptedJobs
<1>5. ASSUME NEW o \in OfferIds, NEW j \in JobIds, NEW seller \in Dids, NEW price \in Prices,
             SubmitOffer(o, j, seller, price)
      PROVE  KeepsOffers(i)
  <2>1. jobs[j] \in Job \ {NoJob}
    BY <1>5, JobIsThere DEF SubmitOffer, ALLOWED
  <2>2. jobs'[j].status = "OFFERED" /\ \A h \in JobIds \ {j}: jobs'[h] = jobs[h]
    BY <1>5, <2>1 DEF SubmitOffer, TypeOK, Job
  <2>3. i # j
    BY <1>1, <2>2 DEF Accepted
  <2>4. offers[o].job = None /\ offers'[o].job = j
    BY <1>5 DEF SubmitOffer, TypeOK, Offer, NoOffer
  <2>5. \A x \in OfferIds \ {o}: offers'[x] = offers[x]
    BY <1>5 DEF SubmitOffer, TypeOK
  <2> QED
    BY <1>1, <2>2, <2>3, <2>4, <2>5, ExchangeAssumption DEF KeepsOffers, AcceptedJobs
<1>6. ASSUME NEW j \in JobIds, NEW result \in Results, SubmitResult(j, result)
      PROVE  KeepsOffers(i)
  <2>1. jobs[j] \in Job \ {NoJob} /\ jobs[j].status \in Accepted
    BY <1>6, JobIsThere DEF SubmitResult, RequireStatus, ALLOWED, Accepted
  <2>2. [jobs[j] EXCEPT !.status = "RESULT_SUBMITTED", !.result = result].offer = jobs[j].offer
    BY <2>1 DEF Job
  <2> QED
    BY <1>3, <1>6, <2>1, <2>2 DEF SubmitResult
<1>7. ASSUME NEW j \in JobIds, NEW verdict \in BenchResults, Verify(j, verdict)
      PROVE  KeepsOffers(i)
  <2>1. jobs[j] \in Job \ {NoJob} /\ jobs[j].status \in Accepted
    BY <1>7, JobIsThere DEF Verify, RequireStatus, ALLOWED, Accepted
  <2>2. PICK s: jobs' = [jobs EXCEPT ![j] = [jobs[j] EXCEPT !.bench = verdict, !.status = s]]
    BY <1>7 DEF Verify
  <2>3. [jobs[j] EXCEPT !.bench = verdict, !.status = s].offer = jobs[j].offer
    BY <2>1 DEF Job
  <2> QED
    BY <1>3, <1>7, <2>1, <2>2, <2>3 DEF Verify
<1>8. ASSUME NEW j \in JobIds, SettleCompletes(j) \/ Refund(j)
      PROVE  KeepsOffers(i)
  <2>1. jobs[j] \in Job \ {NoJob} /\ jobs[j].status \in Accepted
    BY <1>8, JobIsThere
    DEF SettleCompletes, MaySettle, Refund, RequireStatus, ALLOWED, Accepted
  <2>2. PICK s: jobs' = [jobs EXCEPT ![j] = [jobs[j] EXCEPT !.status = s]]
    BY <1>8 DEF SettleCompletes, Refund
  <2>3. [jobs[j] EXCEPT !.status = s].offer = jobs[j].offer
    BY <2>1 DEF Job
  <2> QED
    BY <1>3, <1>8, <2>1, <2>2, <2>3 DEF SettleCompletes, Refund
<1> QED
  BY <1>2, <1>4, <1>5, <1>6, <1>7, <1>8
  DEF Next, vars, InitIdentity, CreditPaper, SettleAborts

LEMMA NextCheapest ==
  TypeOK /\ DealAgreement /\ CheapestOfferWins /\ [Next]_vars => CheapestOfferWins'
<1> SUFFICES ASSUME TypeOK, DealAgreement, CheapestOfferWins, [Next]_vars,
                    Routers = {"stub"}, NEW i \in AcceptedJobs'
             PROVE  Cheapest(i)'
  BY DEF CheapestOfferWins, Cheapest
<1>1. \A j \in AcceptedJobs: j \in JobIds /\ Cheapest(j)
  BY DEF CheapestOfferWins, Cheapest, AcceptedJobs
<1>2. KeepsOffers(i) => Cheapest(i)'
  <2> SUFFICES ASSUME KeepsOffers(i) PROVE Cheapest(i)'
    OBVIOUS
  <2>1. i \in AcceptedJobs
    BY DEF KeepsOffers
  <2> QED
    BY <1>1, <2>1, CheapestKept
<1>3. CASE \E o \in OfferIds, d \in DealIds, override \in Overrides: AcceptOffer(o, d, override)
  <2>1. PICK o \in OfferIds, d \in DealIds, override \in Overrides: AcceptOffer(o, d, override)
    BY <1>3
  <2>2. PICK j: j = offers[o].job
    OBVIOUS
  <2>3. Cheapest(j)' /\ \A h \in AcceptedJobs' \ {j}: KeepsOffers(h)
    BY <2>1, <2>2, AwardedIsCheapest
  <2> QED
    BY <1>2, <2>3
<1>4. CASE ~\E o \in OfferIds, d \in DealIds, override \in Overrides: AcceptOffer(o, d, override)
  BY <1>2, <1>4, OthersKeepOffers
<1> QED
  BY <1>3, <1>4

\* With the stub router, whatever offers come and whenever one is accepted,
\* no job is given to a dearer offer than one it got.
THEOREM StubRouterIsCheapest == Spec => []CheapestOfferWins
<1>1. Init => CheapestOfferWins
  BY DEF Init, CheapestOfferWins, AcceptedJobs, Accepted, NoJob
<1>2. Spec => [](TypeOK /\ DealAgreement)
  BY TypeAndAgreement
<1> QED
  BY <1>1, <1>2, NextCheapest, PTL DEF Spec

-----------------------------------------------------------------------------
(* The lifecycle: a job's status and whether its worker has been paid change *)
(* along JobLifecycle, whatever the offers, deals and accounts are.          *)

\* The two functions WorkExchange shows as JobLifecycle's variables.
StatusOf == [j \in JobIds |-> jobs[j].status]
PaidFor == [j \in JobIds |-> entries[j]["worker-payout"] > 0]

\* A step that touches no job's file or entries is a stutter.
LEMMA StutterMaps ==
  ASSUME UNCHANGED <<jobs, entries>>
  PROVE  UNCHANGED <<StatusOf, PaidFor>>
BY DEF StatusOf, PaidFor

\* A step of one job changes both functions at that job only.
LEMMA OnlyMovesMaps ==
  ASSUME NEW j \in JobIds, OnlyMoves(j)
  PROVE  /\ StatusOf' = [StatusOf EXCEPT ![j] = jobs'[j].status]
         /\ PaidFor' = [PaidFor EXCEPT ![j] = entries'[j]["worker-payout"] > 0]
BY DEF OnlyMoves, LeavesAlone, StatusOf, PaidFor

\* What JobLifecycle allows at each status.
LEMMA EdgesOf ==
  /\ Lifecycle!Edges["ABSENT"] = {"POSTED"}
  /\ Lifecycle!Edges["POSTED"] = {"OFFERED"}
  /\ Lifecycle!Edges["OFFERED"] = {"ACCEPTED"}
  /\ Lifecycle!Edges["ACCEPTED"] = {"RESULT_SUBMITTED", "REFUNDED"}
  /\ Lifecycle!Edges["RESULT_SUBMITTED"] = {"VERIFIED", "FAILED", "REFUNDED"}
  /\ Lifecycle!Edges["FAILED"] = {"REFUNDED"}
BY DEF Lifecycle!Edges, Lifecycle!Status

\* A job that moves along an edge, its worker's pay untouched, advances.
LEMMA Advances ==
  ASSUME NEW j \in JobIds, OnlyMoves(j),
         jobs'[j].status \in Lifecycle!Edges[jobs[j].status],
         entries'[j]["worker-payout"] = entries[j]["worker-payout"]
  PROVE  Lifecycle!Advance(j)
<1>1. StatusOf[j] = jobs[j].status
  BY DEF StatusOf
<1>2. PaidFor' = PaidFor
  BY OnlyMovesMaps DEF PaidFor
<1>3. \E s \in Lifecycle!Edges[StatusOf[j]]: StatusOf' = [StatusOf EXCEPT ![j] = s]
  BY <1>1, OnlyMovesMaps
<1> QED
  BY <1>2, <1>3 DEF Lifecycle!Advance, StatusOf, PaidFor

\* A job that keeps its status, its worker's pay untouched, stutters.
LEMMA Stutters ==
  ASSUME NEW j \in JobIds, OnlyMoves(j), jobs'[j].status = jobs[j].status,
         entries'[j]["worker-payout"] = entries[j]["worker-payout"]
  PROVE  UNCHANGED <<StatusOf, PaidFor>>
BY OnlyMovesMaps DEF StatusOf, PaidFor

\* The initial states of the exchange are initial states of the lifecycle.
LEMMA InitMaps == Init => Lifecycle!Init
<1> SUFFICES ASSUME Init PROVE Lifecycle!Init
  OBVIOUS
<1>1. \A j \in JobIds: jobs[j].status = "ABSENT"
  BY DEF Init, NoJob
<1>2. \A j \in JobIds: (entries[j]["worker-payout"] > 0) = FALSE
  BY DEF Init, Reasons
<1> QED
  BY <1>1, <1>2, Zenon DEF Lifecycle!Init

\* Every step of the exchange is a step of the lifecycle, or a stutter.
LEMMA NextMaps ==
  TypeOK /\ DealAgreement /\ [Next]_vars => [Lifecycle!Next]_(Lifecycle!lifecycleVars)
<1> SUFFICES ASSUME TypeOK, DealAgreement, [Next]_vars
             PROVE  Lifecycle!Next \/ UNCHANGED <<StatusOf, PaidFor>>
  BY DEF Lifecycle!lifecycleVars, StatusOf, PaidFor
<1>1. CASE UNCHANGED <<jobs, entries, receipts>>
  BY <1>1, StutterMaps
<1>2. ASSUME NEW j \in JobIds, OnlyMoves(j)
      PROVE  Lifecycle!Next \/ UNCHANGED <<StatusOf, PaidFor>>
  <2>1. "worker-payout" \in Reasons \ {"job-posting-fee", "posting-fee-refund"}
    BY DEF Reasons
  <2>2. ASSUME Lifecycle!Advance(j) \/ Lifecycle!PayWorker(j) \/ Lifecycle!Complete(j)
        PROVE  Lifecycle!Next
    BY <2>2 DEF Lifecycle!Next
  <2>3. CASE LeavesAlone(j)
    BY <1>2, <2>3, Stutters DEF LeavesAlone
  <2>4. CASE Posts(j)
    BY <1>2, <2>1, <2>2, <2>4, Advances, EdgesOf DEF Posts
  <2>5. CASE Proceeds(j)
    BY <1>2, <2>2, <2>5, Advances, Stutters, EdgesOf DEF Proceeds
  <2>6. CASE Judges(j)
    BY <1>2, <2>2, <2>6, Advances, EdgesOf DEF Judges
  <2>7. CASE Refunds(j)
    <3>1. jobs'[j].status = "REFUNDED"
      BY <2>7, StatusSet DEF Refunds
    <3> QED
      BY <1>2, <2>1, <2>2, <2>7, <3>1, Advances, EdgesOf DEF Refunds
  <2>8. CASE PaysInPart(j)
    <3>1. /\ StatusOf[j] = "VERIFIED" /\ StatusOf' = StatusOf
      BY <1>2, <2>8, OnlyMovesMaps DEF PaysInPart, SettlesEntries, StatusOf
    <3>2. CASE entries'[j]["worker-payout"] > 0
      <4>1. PaidFor' = [PaidFor EXCEPT ![j] = TRUE]
        BY <1>2, <3>2, OnlyMovesMaps
      <4>2. Lifecycle!PayWorker(j)
        BY <3>1, <4>1 DEF Lifecycle!PayWorker, StatusOf, PaidFor
      <4> QED
        BY <2>2, <4>2
    <3>3. CASE ~(entries'[j]["worker-payout"] > 0)
      <4>1. entries[j]["worker-payout"] \in Nat /\ entries'[j]["worker-payout"] \in Nat
        <5>1. TypeOK'
          BY NextType
        <5> QED
          BY <2>1, <5>1 DEF TypeOK
      <4>2. entries'[j]["worker-payout"] = entries[j]["worker-payout"]
        BY <2>8, <3>3, <4>1 DEF PaysInPart, SettlesEntries
      <4> QED
        BY <1>2, <2>8, <4>2, Stutters DEF PaysInPart
    <3> QED
      BY <3>2, <3>3
  <2>9. CASE Completes(j)
    <3>1. jobs'[j].status = "COMPLETED"
      BY <2>9, StatusSet DEF Completes
    <3>2. /\ StatusOf[j] = "VERIFIED" /\ StatusOf' = [StatusOf EXCEPT ![j] = "COMPLETED"]
      BY <1>2, <2>9, <3>1, OnlyMovesMaps DEF Completes, SettlesEntries, StatusOf
    <3>3. PaidFor' = [PaidFor EXCEPT ![j] = TRUE]
      BY <1>2, <2>9, OnlyMovesMaps DEF Completes
    <3>4. Lifecycle!Complete(j)
      BY <3>2, <3>3 DEF Lifecycle!Complete, StatusOf, PaidFor
    <3> QED
      BY <2>2, <3>4
  <2> QED
    BY <1>2, <2>3, <2>4, <2>5, <2>6, <2>7, <2>8, <2>9 DEF OnlyMoves, JobStep
<1> QED
  BY <1>1, <1>2, StepOfOneJob

\* The exchange implements the lifecycle.
THEOREM ExchangeImplementsLifecycle == Spec => ImplementsLifecycle
<1>1. Spec => [](TypeOK /\ DealAgreement)
  BY TypeAndAgreement
<1> QED
  BY <1>1, InitMaps, NextMaps, PTL DEF Spec, ImplementsLifecycle, Lifecycle!Spec

=============================================================================
