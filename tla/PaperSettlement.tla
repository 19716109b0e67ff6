--------------------------- MODULE PaperSettlement --------------------------
(***************************************************************************)
(* adapters/settlement.py and the accounting of store.py: the paper ledger *)
(* seen through the two questions the exchange asks of it, the balance of  *)
(* an account (paper_balance) and the entries posted for a job.  A book is *)
(*   balance : what paper_balance returns for each account,                *)
(*   entries : how many ledger entries name a job and a reason,            *)
(*   ok      : FALSE once a transfer has raised InsufficientFundsError, so *)
(*             that the calls after it in the same handler do nothing.     *)
(* PaperLedger models the same ledger entry by entry.                      *)
(***************************************************************************)
EXTENDS Integers

CONSTANTS Dids, JobIds

ISSUANCE == "paper-issuance"
EXCHANGE_FEES == "exchange-fees"
BENCH_FEES == "bench-validation-fees"

Accounts == Dids \cup {ISSUANCE, EXCHANGE_FEES, BENCH_FEES}

\* A DID is a did:key string: it names none of the exchange's own accounts.
ASSUME AccountsAssumption ==
  Dids \cap {ISSUANCE, EXCHANGE_FEES, BENCH_FEES} = {}

Reasons == {"job-posting-fee", "worker-payout", "orchestration-fee",
            "completion-fee", "bench-validation-fee-stub",
            "posting-fee-refund"}

Book == [balance : [Accounts -> Int],
         entries : [JobIds -> [Reasons -> Nat]],
         ok : BOOLEAN]

\* One entry appended to the ledger: debit and credit may be one account.
Move(balance, debit, credit, amount) ==
  LET debited == [balance EXCEPT ![debit] = @ - amount]
  IN  [debited EXCEPT ![credit] = @ + amount]

\* Broken variant of Transfer: the balance is not looked at.
TransferUnchecked(book, debit, credit, amount, reason, j) ==
  IF ~book.ok \/ amount = 0 THEN book
  ELSE [balance |-> Move(book.balance, debit, credit, amount),
        entries |-> [book.entries EXCEPT ![j][reason] = @ + 1],
        ok |-> TRUE]

\* PaperSettlement.transfer: nothing for a zero amount, InsufficientFunds
\* for an uncovered one, one more ledger entry otherwise.
Transfer(book, debit, credit, amount, reason, j) ==
  IF ~book.ok \/ amount = 0 THEN book
  ELSE IF book.balance[debit] < amount THEN [book EXCEPT !.ok = FALSE]
  ELSE [balance |-> Move(book.balance, debit, credit, amount),
        entries |-> [book.entries EXCEPT ![j][reason] = @ + 1],
        ok |-> TRUE]

=============================================================================
