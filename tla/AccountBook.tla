---------------------------- MODULE AccountBook -----------------------------
(***************************************************************************)
(* What a paper ledger promises: amounts are issued, or move from one      *)
(* account that covers them to another, each in one step.  PaperLedger, in *)
(* which a transfer is three file accesses, implements this module as long *)
(* as one process at a time is inside the ledger.                          *)
(***************************************************************************)
EXTENDS Integers

CONSTANTS
  Holders,   \* the accounts that can run out of funds
  Issuance,  \* the account that funds are issued from, none of the holders
  Amounts    \* amounts that may move

VARIABLE balance

Init == balance = [a \in Holders \cup {Issuance} |-> 0]

Move(debit, credit, amount) ==
  LET debited == [balance EXCEPT ![debit] = @ - amount]
  IN  balance' = [debited EXCEPT ![credit] = @ + amount]

Issue(account, amount) == Move(Issuance, account, amount)

Transfer(debit, credit, amount) ==
  /\ balance[debit] >= amount
  /\ Move(debit, credit, amount)

Next ==
  \E credit \in Holders, amount \in Amounts \ {0}:
    \/ Issue(credit, amount)
    \/ \E debit \in Holders: Transfer(debit, credit, amount)

Spec == Init /\ [][Next]_balance

=============================================================================
