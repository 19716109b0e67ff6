---------------------------- MODULE PaperLedger -----------------------------
(***************************************************************************)
(* The ledger file of store.py as the processes of several commands see    *)
(* it.  A command creates the file if it finds none.  A transfer then      *)
(* reads it to learn a balance, reads it again for the hash of the last    *)
(* entry, and appends a line; nothing locks the file in between, and a     *)
(* process killed while it appends leaves half a line, which no reader can *)
(* parse.  A record hash covers a random entry id and the previous hash,   *)
(* so that two entries never share one: a hash is the number of the entry  *)
(* it belongs to, and 0 is the all-zero hash.                              *)
(***************************************************************************)
EXTENDS Integers, Sequences, SequencesExt

CONSTANTS
  Procs,       \* processes that run a command
  Holders,     \* accounts other than paper-issuance
  Issuance,    \* paper-issuance
  Amounts,     \* amounts asked for, zero among them
  MaxEntries,  \* bound on the length of the ledger
  Initialized, \* TRUE: an earlier command has created the file
  Serial       \* TRUE: an operator starts a command when no other runs

ASSUME LedgerAssumption ==
  /\ Issuance \notin Holders
  /\ Amounts \subseteq Nat
  /\ MaxEntries \in Nat
  /\ {Initialized, Serial} \subseteq BOOLEAN

VARIABLES
  ledger,  \* the whole lines of paper_ledger.jsonl
  file,    \* the file: "absent", "whole", or "torn" where half a line follows
  pc,      \* pc[p]: what process p does next in its call
  call,    \* call[p]: the debit, credit and amount of its call
  latest   \* latest[p]: the hash it read for its entry to link to

vars == <<ledger, file, pc, call, latest>>

Call == [debit : Holders \cup {Issuance}, credit : Holders, amount : Amounts]

Entry == [debit : Holders \cup {Issuance}, credit : Holders,
          amount : Amounts \ {0}, previous : Nat, hash : Nat \ {0}]

\* The call of a process that has made none.
NoCall == [debit |-> Issuance, credit |-> Issuance, amount |-> 0]

\* The file holds entries only, and every process is at a step of a call.
TypeOK ==
  /\ ledger \in Seq(Entry) /\ Len(ledger) <= MaxEntries
  /\ file \in {"absent", "whole", "torn"}
  /\ pc \in [Procs -> {"idle", "open", "create", "check", "link", "append"}]
  /\ call \in [Procs -> Call \cup {NoCall}]
  /\ \A p \in Procs: pc[p] # "idle" => call[p] \in Call
  /\ latest \in [Procs -> 0 .. MaxEntries]

Init ==
  /\ ledger = <<>>
  /\ file = IF Initialized THEN "whole" ELSE "absent"
  /\ pc = [p \in Procs |-> "idle"]
  /\ call = [p \in Procs |-> NoCall]
  /\ latest = [p \in Procs |-> 0]

\* What an entry adds to the balance of an account.
Posting(e, account) ==
  (IF e.credit = account THEN e.amount ELSE 0)
    - (IF e.debit = account THEN e.amount ELSE 0)

\* The running balance over the entries, in the order of the file.
BalanceOf(entries, account) ==
  LET sum[i \in 0 .. Len(entries)] ==
        IF i = 0 THEN 0 ELSE sum[i - 1] + Posting(entries[i], account)
  IN  sum[Len(entries)]

\* paper_balance.
PaperBalance(account) == BalanceOf(ledger, account)

\* Broken variant of LatestLedgerHash: the first line is read, not the last.
FirstLedgerHash == IF ledger = <<>> THEN 0 ELSE ledger[1].hash

\* latest_ledger_hash.
LatestLedgerHash == IF ledger = <<>> THEN 0 ELSE Last(ledger).hash

\* Broken variant of MovesFunds: a zero amount is posted like any other.
MovesFundsAlways(amount) == TRUE

\* credit and transfer return at once when they are asked for nothing.
MovesFunds(amount) == amount # 0

\* credit or transfer is called by the process of a command.
Begin(p, debit, credit, amount) ==
  /\ pc[p] = "idle" /\ MovesFunds(amount) /\ Len(ledger) < MaxEntries
  /\ Serial => \A q \in Procs: pc[q] = "idle"
  /\ call' = [call EXCEPT ![p] = [debit |-> debit, credit |-> credit,
                                  amount |-> amount]]
  /\ pc' = [pc EXCEPT ![p] = "open"]
  /\ UNCHANGED <<ledger, file, latest>>

\* credit asks for no balance, transfer does.
FirstStep(p) == IF call[p].debit = Issuance THEN "link" ELSE "check"

\* Broken variant of OpenLedger: the file is created whether or not it exists.
OpenLedgerAlwaysCreates(p) ==
  /\ pc[p] = "open"
  /\ pc' = [pc EXCEPT ![p] = "create"]
  /\ UNCHANGED <<ledger, file, call, latest>>

\* initialize looks whether there is a file.
OpenLedger(p) ==
  /\ pc[p] = "open"
  /\ pc' = [pc EXCEPT ![p] = IF file = "absent" THEN "create" ELSE FirstStep(p)]
  /\ UNCHANGED <<ledger, file, call, latest>>

\* initialize writes an empty file, over whatever is there by now.
CreateLedger(p) ==
  /\ pc[p] = "create"
  /\ ledger' = <<>> /\ file' = "whole"
  /\ pc' = [pc EXCEPT ![p] = FirstStep(p)]
  /\ UNCHANGED <<call, latest>>

\* ledger_entries raises on a line it cannot parse.
Unreadable(p) ==
  /\ pc[p] \in {"check", "link"} /\ file = "torn"
  /\ pc' = [pc EXCEPT ![p] = "idle"]
  /\ UNCHANGED <<ledger, file, call, latest>>

\* Broken variant of CheckBalance: it looks at the account to be credited.
CheckCreditedBalance(p) ==
  /\ pc[p] = "check" /\ file # "torn"
  /\ pc' = [pc EXCEPT ![p] = IF PaperBalance(call[p].credit) < call[p].amount
                             THEN "idle" ELSE "link"]
  /\ UNCHANGED <<ledger, file, call, latest>>

\* transfer compares the balance with the amount, and raises if it is short.
CheckBalance(p) ==
  /\ pc[p] = "check" /\ file # "torn"
  /\ pc' = [pc EXCEPT ![p] = IF PaperBalance(call[p].debit) < call[p].amount
                             THEN "idle" ELSE "link"]
  /\ UNCHANGED <<ledger, file, call, latest>>

\* append_ledger reads the hash of the last line.
ReadLatestHash(p) ==
  /\ pc[p] = "link" /\ file # "torn"
  /\ latest' = [latest EXCEPT ![p] = LatestLedgerHash]
  /\ pc' = [pc EXCEPT ![p] = "append"]
  /\ UNCHANGED <<ledger, file, call>>

\* Broken variant of NewEntry: it links to itself instead of the line before.
NewEntryUnlinked(p) ==
  [debit |-> call[p].debit, credit |-> call[p].credit, amount |-> call[p].amount,
   previous |-> Len(ledger) + 1, hash |-> Len(ledger) + 1]

\* The line append_ledger writes.
NewEntry(p) ==
  [debit |-> call[p].debit, credit |-> call[p].credit, amount |-> call[p].amount,
   previous |-> latest[p], hash |-> Len(ledger) + 1]

\* Broken variant of AppendLine: the file is opened for writing, not appending.
AppendLineTruncating(p) ==
  /\ pc[p] = "append"
  /\ ledger' = <<NewEntry(p)>> /\ file' = "whole"
  /\ pc' = [pc EXCEPT ![p] = "idle"]
  /\ UNCHANGED <<call, latest>>

\* append_ledger writes its line at the end of the file; behind half a line it
\* only makes the half line longer.
AppendLine(p) ==
  /\ pc[p] = "append"
  /\ Len(ledger) < MaxEntries
  /\ ledger' = IF file = "torn" THEN ledger ELSE Append(ledger, NewEntry(p))
  /\ pc' = [pc EXCEPT ![p] = "idle"]
  /\ UNCHANGED <<file, call, latest>>

\* The process is killed with half of its line written.
TearLine(p) ==
  /\ pc[p] = "append"
  /\ file' = "torn"
  /\ pc' = [pc EXCEPT ![p] = "idle"]
  /\ UNCHANGED <<ledger, call, latest>>

\* The process is killed before it has written.
Crash(p) ==
  /\ pc[p] # "idle"
  /\ pc' = [pc EXCEPT ![p] = "idle"]
  /\ UNCHANGED <<ledger, file, call, latest>>

Next ==
  \E p \in Procs:
    \/ \E debit \in Holders \cup {Issuance}, credit \in Holders, amount \in Amounts:
         Begin(p, debit, credit, amount)
    \/ OpenLedger(p)
    \/ CreateLedger(p)
    \/ Unreadable(p)
    \/ CheckBalance(p)
    \/ ReadLatestHash(p)
    \/ AppendLine(p)
    \/ TearLine(p)
    \/ Crash(p)

Spec == Init /\ [][Next]_vars

-----------------------------------------------------------------------------
(* With or without a lock, once there is a ledger file. *)

\* Whatever processes interleave and die, an entry links to a line further up
\* in the file, or to the start: following the links from any entry ends.
LinksPointBack == \A i \in DOMAIN ledger: ledger[i].previous < i

\* No command loses or rewrites a line of another.  (A command that found no
\* file truncates it when it creates it, so that commands side by side keep
\* this only when Initialized.)
AppendOnly == [][IsPrefix(ledger, ledger')]_vars

(* What one command at a time gives, and commands side by side do not. *)

\* README: "a local hash-chained JSONL ledger": each entry links to the line
\* before it.
HashChained ==
  \A i \in DOMAIN ledger:
    ledger[i].previous = IF i = 1 THEN 0 ELSE ledger[i - 1].hash

\* The balance looked at is still there when the line is written, so that the
\* ledger is a book of atomic, covered transfers.
Book == INSTANCE AccountBook WITH
  balance <- [a \in Holders \cup {Issuance} |-> PaperBalance(a)]

ImplementsAccountBook == Book!Spec

=============================================================================
