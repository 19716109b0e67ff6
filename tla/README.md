# Work Exchange in TLA+

`flop-work-exchange` is a local, paper-money exchange for agent work: buyers post
jobs, sellers offer, the exchange accepts one offer through a router, takes the
result, has it verified by Bench, moves paper funds, signs a receipt and keeps a
public evidence profile of each party. It is a command-line program: every
command opens the state directory, calls one method of class `WorkExchange`
(`src/flop_work_exchange/exchange.py`) and exits. There is no server, no lock and
no transaction; what persists is a directory of JSON files and one JSONL ledger.
What is hard here is therefore what happens *between* calls and *between writes*:
settlements that fail half way and are run again, calls in an order nobody wrote a
test for, two commands on one state directory, a kill between two file accesses. The
one long command, `live-demo`, also talks to four sibling programs, which may be
missing, fail, hang or answer anything.

Paths below are relative to `src/` of the repository unless they name a `.tla` file.

## 1. Inventory

| Component | State | Operations | Interacts with | What makes it correct |
|---|---|---|---|---|
| Work Exchange core (`exchange.py`) | none of its own; jobs, offers, deals, receipts, profiles through the store | `post_job`, `submit_offer`, `accept_offer`, `submit_result`, `verify`, `settle`, `refund`, `credit_paper`; read-only `list_jobs`, `route_job`, `show_receipt`, `balances`, `find_candidates` | calls store, policy, settlement and every adapter, in sequence | job, offer and deal files agree; pay only for passed work; a receipt means paid; ended jobs stay as they are |
| Job lifecycle (`exchange.py` `ALLOWED`, `constants.py`) | `Job.status` | the status each method requires and sets | guards every method of the core | a job follows the drawn edges and no others |
| Operator policy (`policy.py`) | none | `classify_operator_relationship`, `assert_no_faucet_claims`, `detect_wash_risk`, eligibility | `accept_offer` | one operator never passes for two independent parties |
| Evidence profiles (`models.py` `EvidenceProfile`) | counters per DID | `record_completion` | `settle` | the counters are what the receipts add up to |
| Paper settlement (`adapters/settlement.py`) | none; the ledger through the store | `credit`, `transfer` | `post_job`, `settle`, `refund`, `paper-credit` | no account but the issuance account is overdrawn |
| Exchange store (`store.py`, `canonical.py`) | the files of the state directory, `paper_ledger.jsonl` | load and save of each kind, `append_ledger`, `paper_balance`, `latest_ledger_hash` | everything that persists | one hash chain; no line lost |
| Router adapters (`adapters/router.py`) | none (an SQLite file is read) | `plan` of the stub (cheapest in budget) and of the local router (a subprocess names a worker) | `accept_offer`, `route_job` | the selected offer is an open one of this job |
| Bench adapters (`adapters/bench.py`) | none | `verify_delivery` | `verify` | only a clear PASS is PASS |
| Sentinel adapters (`adapters/sentinel.py`) | `seen_templates` of a process | `screen` | job, offer and result methods | anything not understood is REJECT |
| Scout adapters (`adapters/scout.py`) | none (JSONL, CLI or SQLite feeds) | `find_candidates`, ranking, cap, fallback between sources | `find_candidates` | a capped list holds the best candidates; a query past its time is stopped |
| TCLK adapter (`adapters/tclk.py`) | none | `record_paper_deal` | `accept_offer` | returns a constant simulation record |
| Adapter factory, process runner (`adapters/factory.py`, `process.py`) | none | adapter by mode; a subprocess with a timeout | all local adapters | a failure is an `AdapterError`, never an answer |
| Identity (`identity.py`) | key file and metadata file | create test or production identity, load | `settle` (the signing key) | key and metadata belong together |
| Receipts and signing (`receipts.py`, `canonical.py`) | none | id, sign, verify | `settle`, `receipt verify` | what is signed is what is verified |
| Configuration (`config.py`, `data/fees.json`) | none after start | fees, policy, adapter modes, environment overlay | everything | overlay order |
| Amounts (`amounts.py`) | none | decimal text to micro units and back | CLI, config | round trip without floats |
| Command line, demo, live operations (`cli.py`, `demo.py`, `ops.py`) | none | one method per command; the demo runs a whole deal; the live demo falls back to stubs | the core | a fallback is not reported as live success |

`PROJECT.json` has the same list with the status of each component, and under
`hazards` the places where this code can go wrong in a way a unit test would
hardly reach.

**Interactions.** All calls are synchronous. The core is the only writer of job,
offer, deal, receipt and profile files; `PaperSettlement` is the only writer of the
ledger. Inside a method the order of writes matters, because nothing undoes the
earlier ones: `post_job` saves the job and then takes the fee; `accept_offer` saves
deal, offers, job; `settle` makes four transfers, loads the key, then saves receipt,
job, profiles; `refund` moves the fee, then saves the job.

**Hard behaviours.** Partial failure inside `settle` and `post_job`, and the retry
that follows; sequences of calls over several jobs sharing accounts and profiles;
commands of several processes interleaving in the job files and in the ledger; a kill
between two writes, or in the middle of one; a self deal, in which buyer and seller are
one DID; adapters that are found by a probe and gone when they are used; a query that
is interrupted by two threads while it ends by itself; a library that never answers.

## 2. Modules

| Module | Models | Role |
|---|---|---|
| `JobLifecycle` | README lifecycle and the `ALLOWED` table | abstract specification of a job: status, and whether its worker was ever paid |
| `OperatorPolicy` | `policy.py` | pure operators, used by `EvidenceProfile` and `WorkExchange` |
| `EvidenceProfile` | `EvidenceProfile.record_completion` | pure operators |
| `PaperSettlement` | `adapters/settlement.py`, `paper_balance` | a book of balances and entry counts; `Transfer` with its two early exits |
| `WorkExchange` | `exchange.py`, composing the four above | one action per method, properties |
| `AccountBook` | what the ledger promises | abstract specification: atomic, covered transfers |
| `PaperLedger` | `store.py` ledger part, access by access | several processes, creation of the file, kills, half lines |
| `IdentityFiles` | `identity.py`, the two files of the test identity | state and operations, used by `ExchangeProcesses` |
| `ExchangeProcesses` | the methods of `exchange.py`, access by access | several processes, kills between any two accesses |
| `AdapterCall` | `adapters/process.py`, and what a call of an adapter is | the call under way and the sibling's process |
| `SentinelScreen` | `adapters/sentinel.py` | one screen, up to six attempts at the library's `decide` |
| `SqliteQuery` | `run_sqlite_readonly` and the query of `_records_from_sqlite` | the statements, the progress handler, the timer thread |
| `ScoutSearch` | `LocalScoutAdapter` | four sources in turn; uses `AdapterCall` and `SqliteQuery` |
| `RouterPlan`, `BenchVerdict` | `adapters/router.py`, `adapters/bench.py` | a process each, and what its output comes to |
| `AdapterSetup` | `config.py` (modes), `adapters/factory.py` | which adapters are local, what their probes answer; composes the four adapters |
| `LiveDemo` | `ops.py`, `cli.py` `live-demo` and `doctor` | the whole command, on top of `AdapterSetup` |
| `ScoutRanking` | `candidates_from_records`, `cap_worker_candidates` | pure operators, driven by a feed of records |
| `Amounts` | `amounts.py` | pure operators and two theorems about them |
| `MCWorkExchange`, `MCPaperLedger`, `MCExchangeProcesses` | - | symmetry for TLC |
| `WorkExchange_proofs` | - | type correctness, agreement of files |
| `WorkExchangeSafety_proofs` | - | money, receipts, independence, permanence of evidence, the stub router's choice; `WorkExchange` implements `JobLifecycle` |
| `WorkExchangeProfiles_proofs` | - | sums over finite sets; profiles add up to receipts |
| `PaperLedger_proofs` | - | links, lines and the chain; `PaperLedger` implements `AccountBook` |
| `ExchangeProcesses_proofs` | - | what holds of the files in any interleaving |
| `ExchangeAlone_proofs` | - | what holds of them when commands run one at a time |
| `LiveDemo_proofs` | - | exit code, notes, verdicts, screens, queries; `LiveDemo` implements `JobLifecycle` |

### State and actions of `WorkExchange`

| Variable | Code |
|---|---|
| `jobs[j]` | `jobs/<id>.json`: status, buyer, budget, accepted offer, deal, result hash, bench verdict; `NoJob` where there is no file |
| `offers[o]`, `deals[d]` | `offers/<id>.json`, `deals/<id>.json` |
| `receipts[j]` | the receipt of job `j`: the deal and result it is for |
| `profiles[p]` | the evidence profile of DID `p` |
| `balance[a]` | what `paper_balance(a)` returns |
| `entries[j][r]` | how many ledger entries name job `j` and reason `r` |
| `identity` | which identity files exist |

| Action | Method |
|---|---|
| `InitIdentity` | `identity init`, or `init-production` in the production directory |
| `CreditPaper` | `credit_paper`, to any account it accepts, the exchange's own included |
| `PostJob` | `post_job`; also when the fee transfer raises: the job has been saved by then |
| `SubmitOffer` | `submit_offer` |
| `AcceptOffer` | `accept_offer`, with the router's plan, the caller's stated relationship, the policy's refusals, the wash flag and the declining of other offers |
| `SubmitResult`, `Verify` | `submit_result`, `verify` |
| `SettleCompletes` | `settle` to its end |
| `SettleAborts` | `settle` when one of its transfers, or `load_exchange_key`, raises: the transfers before it stay |
| `Refund` | `refund`, with the posting fee handed back where the fee schedule says so |

Decisions worth knowing when reading it against the code:

- *Calls are whole.* In `WorkExchange` a method runs to its end or to its exception
  with no other call in between; `PaperLedger` takes the ledger apart, and
  `ExchangeProcesses` the other files.
- *A refused call is no action.* A call that raises before its first write leaves
  everything as it was, so its checks are the guards of the action. A Sentinel
  REJECT, a faucet claim, an invalid DID or an adapter that fails are refusals of
  this kind: leaving them out removes steps that change nothing. Sentinel ALLOW is
  thus always possible.
- *Ids* come from `new_id`, a random draw; here they are drawn from a finite pool of
  model values and a fresh one is taken for each object. When two offers tie, the
  stub router takes the smaller random id, which is to say any of them.
- *The Bench verdict* is any of PASS, FAIL, PARTIAL.
- *The router* is `"stub"` (cheapest open offer within budget) or `"local"`
  (the subprocess names any worker, whose cheapest open offer is taken; its choice
  is nondeterministic).
- *The signing key* loads in `settle` only for a test identity: `settle` passes no
  passphrase, and the production key is encrypted.
- *A transfer chain* is a function of the book: once a transfer raises, `ok` is
  FALSE and the later calls of the same method do nothing.
- *Left out*: titles, texts, timestamps, signatures, `last_*` profile fields (nothing
  reads them), the TCLK record, and `TestnetSettlement`, which raises on every call.

### `PaperLedger`

A command looks whether there is a ledger (`OpenLedger`) and writes an empty one if not
(`CreateLedger`), over whatever is there by then. A call of `credit` or `transfer` is
then up to three file accesses, each an action: `CheckBalance` (only `transfer` looks at
a balance), `ReadLatestHash`, `AppendLine`. `Crash` ends a process before any of them,
`TearLine` in the middle of the append: half a line stays at the end of the file, every
later reader raises on it (`Unreadable`), and a writer that has read before only
makes it longer. `Initialized = FALSE` starts from a directory without a ledger.
`Serial = TRUE` says an operator starts a command only when none is running, a habit the
documentation assumes and the code does not enforce; `Serial = FALSE` drops it. A record
hash covers a random entry id, so hashes are distinct; they are modelled by entry
numbers, 0 for the all-zero hash.

### `ExchangeProcesses`

| Variable | Code |
|---|---|
| `jobs`, `offers`, `deals`, `receipts` | the JSON files, with the fields that name other files, and a receipt's key and DID |
| `profiles[a]` | `completed_jobs` of the profile of DID `a` |
| `paid[j]` | how often a worker was paid for `j` |
| `pem`, `meta` (`IdentityFiles`) | the key file and the metadata file beside it, each the name of a key pair |
| `pc[p]`, `mem[p]` | the next access of process `p`, and the local variables of its call |
| `alone` | whether in this behaviour the operator lets a command end before the next; chosen at the start |

| Actions | Method |
|---|---|
| `PostJob` | `post_job`, one write |
| `OfferReadsJob`, `OfferIsSaved`, `OfferedIsSaved` | `submit_offer`: the job is read, the offer saved, the job saved as it was read |
| `AcceptReadsOffer`, `AcceptReadsJob`, `AcceptRoutes`, `DealIsSaved`, `AcceptedOfferIsSaved`, `AcceptListsOthers`, `DeclinedIsSaved`, `AcceptedIsSaved` | `accept_offer` |
| `ResultReadsJob` / `ResultIsSaved`, `VerifyReadsJob` / `VerdictIsSaved`, `RefundReadsJob` / `RefundedIsSaved` | `submit_result`, `verify`, `refund` |
| `SettleReadsJob`, `SettlePays`, `SettleReadsKey`, `SettleReadsDid`, `ReceiptIsSaved`, `CompletedIsSaved`, `ProfileIsLoaded`, `ProfileIsSaved` | `settle` |
| `InitIdentity`, `KeyIsWritten`, `MetadataIsWritten` | `create_test_identity` |
| `Killed` | the process dies, or a call raises, between two accesses |

- A write replaces a whole file (`atomic_write_text` renames), so that no reader meets
  half a file; the ledger is the one file for which that is not so.
- What `WorkExchange` has in detail is coarse here: a payment goes through or the call
  ends (`Killed`), the offer given may or may not be the router's choice, Bench answers
  either way, and the fee a refund may hand back is not carried. What `PaperLedger` has
  in detail, the four transfers, is one step.
- Listing the offers of a job is one step: the code reads the offer files one by one.
- A deal file is written once and never changed, and reading it is no step.

### `LiveDemo` and the adapters

`run_live_demo` is one thread. `stage` is what it is about to do; for each of its seven
questions to an adapter it makes a call (`AskSentinel`, `AskScout`, `AskRouter`,
`AskBench`), the adapter's own steps take it to `call.step = "returned"`, and the action
of the stage does what the code does with that answer. Beside it run the sibling's
process, the sqlite statement, its timer thread, and the library.

| Actions | Code |
|---|---|
| `Configure` | `load_adapter_config`, `overlay_adapter_env`, `resolve_adapters` |
| `Doctor`, `NoDoctor` | a `doctor` command on the same setup before, or none |
| `PreferLocal`, `ProbeRaises` | `_prefer_local` for the four adapters; a probe that raises what is no `AdapterError` |
| `OpenExchange` | `WorkExchange(...)`, `ensure_test_identity`, the ephemeral parties, the credit |
| `PostJob`, `SubmitOffer`, `SubmitResult` | the method, behind its screen; nothing is caught |
| `FindCandidates`, `RouteJob`, `Verify` | the question, and the fallback to the stub on an `AdapterError` |
| `AcceptOffer` | `accept_offer`, which asks the router once more; nothing is caught |
| `Settle`, `Report` | `settle`; `verify_receipt`, `ok` and the exit code |
| `ScoutStep`, `CloseDatabase`, `StartRouter`, `TakePlan`, `StartBench`, `TakeVerdict` | the adapters' own code in the main thread |
| `LibraryScreen` | `flop_sentinel`, and the adapter's code between its calls of it |
| `FeedExits`, `RouterExits`, `BenchExits`, `ChildTimesOut` | the process ends, or is ended by its timeout |
| `RankingEnds`, `EvidenceEnds`, `DeadlinePasses`, `TimerFires`, `HandlerAborts` | the statement ends, the timer's deadline, its interrupt, the progress handler |

- The demo's buyer and seller are new, its buyer has the funds, and its job has one
  offer. So its stub router selects that offer, its stub screens allow, its transfers go
  through; what varies is the setup (`dir`, `requested`, `present`), and every answer.
- *Probe and use are two looks.* What a path leads to is chosen anew when an adapter is
  used, so that a source may be gone, or have grown, since its probe.
- `flop_sentinel` is not in this repository. It may answer, raise a `TypeError` (which
  the adapter takes for another signature) or raise anything, at each step.
  `Signatures = {"required"}` is the contract that the adapter's comments document: its
  `decide` has a keyword `detector_error` without a default. With `"absent"` there would
  be nothing to tell it with.
- `MaxRows` stands for `scout_candidate_limit`, as the number of parties a ranking
  may return.
- Disk errors are left out.

### `ScoutRanking`

`CandidatesFromRecords` and `CapWorkerCandidates` are the two functions; the state is the
feed, which grows a record at a time, the caller's limit, and the list shown. Parties are
numbers, in the order of their DIDs.

## 3. Runs

| Run | Question | Result |
|---|---|---|
| `exchange_money` | One job, two offers at competing prices, all fees 1, funds that may or may not suffice, the identity missing at first, settlements run again, refunds that return the fee: do files agree, is anyone overdrawn, is a worker paid for anything but passed work, does a receipt mean payment, does what is on record stay, is the lifecycle implemented? | holds |
| `exchange_reputation` | Two jobs, three offers, two family DIDs and an outsider, self deals and reversed deals, relationships stated by the caller: who counts as independent, and do profiles add up to receipts? | holds |
| `exchange_posting_fee` | Is a posted job one whose posting fee was paid, as the README says? | violated |
| `exchange_retry` | Has a completed job cost its buyer the documented total, once? | violated |
| `exchange_related` | Are `related` deals never independent, as the README says? | violated |
| `ledger_serial` | One command at a time, from a directory without a ledger on, killed anywhere, in the middle of a line too: are the whole lines a hash chain, is none lost, and do they implement `AccountBook`? | holds |
| `ledger_shared` | Commands side by side: what is left? Lines are never lost, links always point back | holds |
| `ledger_fork` | Commands side by side: is the file still a hash chain? | violated |
| `processes` | The methods split at their file accesses, two processes, kills: which files agree however commands interleave, and which besides when one ends before the next begins? | holds |
| `processes_stale` | Commands side by side: does an accepted job ever take offers again? | violated |
| `demo_live` | Any setup, any failure of any adapter, any answer: what may the exit code, the notes and the receipt be trusted for, do screens fail closed, is a query cut off ever an answer, and does the demo end? | holds |
| `scout_cap` | Are the candidates shown those with the most evidence? | violated |

What `processes` and `demo_live` check, in words:

| Property | Says |
|---|---|
| `ReferencesOnFile` | no file names another that is not there, or is about another job, in any interleaving |
| `CompletedHasReceipt` | a COMPLETED job has its receipt on file |
| `MetadataHasKey` | a DID on file has a key on file |
| `AwardClosesOffers` | one command at a time: where a job names a deal, its offer is ACCEPTED and no other is open |
| `ReceiptIsTheJobs` | one at a time: the receipt on file is the one the job names, and verifies under its DID, also after settlements that were killed and given again |
| `CountedOnce` | one at a time: no completion is counted twice in a profile |
| `StepsFollowLifecycle` | one at a time: every write of a job file is a step of `JobLifecycle`, with one edge more (below) |
| `SuccessIsHonest` | exit code 0 means a receipt that verifies, and that no local adapter failed on the way |
| `FallbackIsNoted` | a stub never stands in for a local adapter without a note |
| `FailStands` | no verdict but PASS precedes a receipt, also when the stub Bench takes over |
| `FailsClosed` | the library allows only by a clear word, knowing of a failed detector |
| `CutOffIsNoAnswer` | a query cut off by its deadline is never taken for a complete one |
| `DoctorWarns` | a setup doctor found ok starts with every adapter asked for |
| `ImplementsLifecycle` | the job of the demo, with its status once set by hand, keeps to the lifecycle |
| `DemoEnds` | the demo ends, or the library never answers |

Every property of a passing run has a mutant in `PROJECT.json`: a broken variant of
one operator (an offer taken after acceptance, losers left open, a balance not
looked at, a failed transfer not noticed ...) under which that run finds it violated.
The variants stand next to the operators they break and are used by nothing else.

### What the violated runs show

1. **`post_job` keeps a job whose fee was not paid** (`exchange.py:130`). The job is
   saved before the transfer that raises; it can be offered on, accepted and settled.
   `README.md:322` has the balance cover the fee at post time.
2. **A settlement run again pays again** (`exchange.py:312`). The payout is the first
   of four transfers and the signing key is loaded after all of them; what raises
   later leaves the payout in the ledger and the job VERIFIED, so that `settle` may be
   called again. `README.md:322-323` and `tests/test_fees.py:52` give the total once.
3. **A related pair can be declared independent** (`exchange.py:214`). Only
   `same_operator` refuses the claim. `README.md:330` calls the pair `related`, and
   `models.py:206` excludes related deals from the independent counters.
4. **The chain forks** (`store.py:120`). Two commands read the same last hash.
   `README.md:302` calls the ledger hash-chained.
5. **An offer undoes an award** (`exchange.py:190`). `submit_offer` saves the job it read
   before it screened and saved the offer; an `accept_offer` that ran in between is
   overwritten, its deal and its offer stay ACCEPTED. In the lifecycle of `README.md:62`
   nothing leads from ACCEPTED back to OFFERED.
6. **The best candidate is left out** (`adapters/scout.py:82`). When the caller's limit is
   below the adapter's, the ranked list is sorted anew by evidence lists that were cut
   short, so that parties above the cut tie and the smaller DID wins. `scout.py:40` and
   `scout.py:78` promise the top by evidence count.

Met while modelling, and allowed for rather than reported, since no document speaks of it:

- A kill inside `submit_offer` leaves an open offer of a job that is still POSTED, and
  `accept_offer` takes it: POSTED leads to ACCEPTED. `StepsFollowLifecycle` names this
  edge (`OfferedIsSkipped`).
- A kill after the job is COMPLETED loses the completion in the profiles, and so may two
  settlements side by side; `CountedOnce` is an upper bound.
- Of two first commands side by side the later one may empty the ledger the other has
  begun; `AppendOnly` is checked side by side from the time there is a file.
- A kill between key and metadata leaves an identity that is neither loaded nor created
  anew, until a person removes the key.

### Bounds, and why they suffice

- `JobIds`, `OfferIds`, `DealIds`, `Results`: id pools. One job and two offers are the
  least in which an offer loses; two deal ids let a second acceptance happen if it
  could. The reputation run has two jobs, the least for a reversed pair of deals, and
  three offers, so that one of the jobs has a competing one. The money run has a single
  job; that several jobs drawing on the same accounts overdraw none of them is covered
  by the proofs, which are for any number of jobs.
- `Credits = {1, 3}`, `MaxIssued = 7`: the full cost of a job (price 2 and four fees)
  is 6, so that every prefix of a settlement can be the last one that is covered, and at
  price 1 a whole settlement after an aborted one can still be paid.
- `MaxPayouts = 3`: how often the payout of a job is repeated by settlements that
  fail; the guard of `SettleAborts` only, so a settlement may always complete.
- `Prices = {1, 2, 3}`, `Budgets = {2}`: two prices within the budget and one above it.
- `Amounts` of the ledger include 0 (no entry) and, in the serial run, 1 and 2, so that
  a balance can be short; `MaxEntries` 3 or 4 lets an account be filled, emptied and
  asked again, and two processes fork twice.
- `processes`: two processes are the least that interleave; one job, two offers and two
  deals let an offer come in, or a second acceptance begin, while the first is under
  way; two DIDs give self deals and proper ones; two keys let one process create an
  identity over another's. `MaxPayouts = 2` allows a settlement killed after its payout
  and one more. Both habits of the operator are in one run: `alone` is part of the state.
- `demo_live`: `MaxRows = 2` is the least at which a query is cut off between two
  evidence statements. Everything else of the demo is finite as it is.
- `scout_cap`: lists cut at two ids, a party with three: the least difference the cut
  hides; five records.
- *Symmetry*: ids, DIDs of one family and outsiders, processes and holders are
  interchangeable in the code and in the cfgs. No property checked under it is a
  liveness property; `ImplementsLifecycle`, `ImplementsAccountBook`, `AppendOnly` and
  `EvidenceIsPermanent` and `StepsFollowLifecycle` have the form `[Init and] [][A]_v`
  and are symmetric. `demo_live`, which has a liveness property, uses no symmetry.
- *Deadlock* is not checked: jobs end, ids run out, issuance and ledger are bounded, a
  command ends.
- *Fairness*: none is assumed of the exchange, the ledger and the processes: they act
  when a person runs a command, and nothing obliges anybody to. Inside one `live-demo`
  there is something that must happen, and `LiveDemo!Fairness` assumes four weak
  fairness conditions. `MainThread` and `TimerRuns`: the command's own two threads are
  scheduled. `ProcessTimesOut`: `subprocess.run` is called with a timeout
  (`process.py:44`) and kills what does not end. `StatementAborts`: sqlite calls the
  progress handler while a statement runs (`scout.py:541`), and it aborts one that is
  late. No process, statement or library is assumed to end by itself. The library is called without a
  timeout, so that `DemoEnds` makes an exception for a call of it that never returns.

## 4. What is proved

Every invariant, action property and refinement that a passing run checks is a theorem
of its specification, for every value of the constants; `DemoEnds`, the one liveness
property, is not. Id sets, processes, parties and keys may be of any number, also
infinite or none.

**Assumptions.** `PolicyAssumption`, `AccountsAssumption`, `ExchangeAssumption`,
`LedgerAssumption`, `ProcessAssumption`, `KeyAssumption`, `MaxRowsAssumption`: bounds and amounts are
naturals, settings Booleans, DIDs differ from the exchange's own account names, `None`
and `NoKey` are no value. TLC evaluates them on every run. Four theorems have a
hypothesis on constants, which says under which habit or contract they hold:
`Serial` (one ledger command at a time), `Serial \/ Initialized` (or any number of them,
on a ledger file that is there), and `Signatures = {"required"}` (the keyword of the
Sentinel library's `decide` that the adapter's comments document). The runs
`ledger_serial`, `ledger_shared` and `demo_live` have these values; `ledger_fork` shows
the chain break without `Serial`. No theorem uses fairness.

**`WorkExchange`: whole calls.**

| Theorem | Says | Argument |
|---|---|---|
| `TypeCorrect`, `DealsAgree` | `TypeOK`, `DealAgreement` | neither alone is inductive: `settle` credits the seller and price of the job's deal, so its type correctness needs `DealAgreement` (the deal exists), which needs `TypeOK`. The invariant is the conjunction; one step per action |
| `NobodyOverdrawn` | `NoOverdraft` | a transfer keeps non-issuance balances at or above zero (`TransferCovered`); the four transfers of `settle` are chained book to book, so that it does not matter at which one `settle` stops (`SettleBookFacts`) |
| `PaidForPassedWork`, `RefundedAtMostOnce`, `ReceiptsArePaid` | `PaidOnlyAfterPass`, `RefundAtMostOnce`, `ReceiptMeansPaid` | every step is, for each job, one of a few kinds of steps (`StepOfOneJob`, `StepOfAJob`): it leaves the job alone, sets its status, posts settlement entries, ...; each invariant is then proved per job and per kind |
| `IndependentMeansEarned` | `IndependenceIsEarned` | a new eligible deal has parties that are not one operator and reverses no prior deal (`EligibleDeal`); deals are never rewritten |
| `EvidenceStays` | `EvidenceIsPermanent` | strengthened with `JudgedLate` (a verdict is on file only from verification on) and `ReceiptMeansPaid` |
| `StubRouterIsCheapest` | `CheapestOfferWins` | the award takes the least price of the open offers (`AwardedIsCheapest`), and until then all offers of a job are open, since only the award closes any; after it none comes in (`OthersKeepOffers`) |
| `ProfilesAddUp` | `ProfilesMatchReceipts` | a settlement adds one deal to the sums over the receipts of each of its parties (`OneDealMore`), and the profile adds the same (`CompletionAdds`), a self deal twice over. Inductive with `Countable` (the deals with a receipt are finitely many, and an eligible one was declared independent) |
| `ExchangeImplementsLifecycle` | `ImplementsLifecycle` | refinement mapping: a job's status, and whether it has a payout entry; each action maps to `Advance`, `PayWorker`, `Complete` or a stutter |

**`PaperLedger`: the ledger, access by access.**

| Theorem | Says | Argument |
|---|---|---|
| `LedgerTypeCorrect` | `TypeOK` | with `CallsMoveFunds`: a call whose amount is 0 ends before it writes, so that every line has an amount |
| `LinksNeverCycle` | `LinksPointBack` | a process about to append has read a hash that is still in the file (`LatestIsBehind`); this needs that nobody empties the file meanwhile (`CreatedOnce`) |
| `LedgerOnlyGrows` | `AppendOnly` | the only step that shortens the file is its creation, which finds nothing there |
| `LedgerIsAChain` | `HashChained` | one command at a time: the hash in hand is that of the last line, until half a line follows and nobody can append (`TearLine`) |
| `LedgerImplementsAccountBook` | `ImplementsAccountBook` | the balance of an account after `n` lines is what the first `n` lines post, line by line (`BalanceOf`), so that a line more moves its amount and nothing else; a payer found to cover the amount still covers it at the append, since nobody else runs |

**`ExchangeProcesses`: the other files, access by access.**

| Theorem | Says | Argument |
|---|---|---|
| `ProcessesTypeCorrect`, `FilesRefer`, `CompletedIsReceipted`, `MetadataIsKeyed` | `TypeOK`, `ReferencesOnFile`, `CompletedHasReceipt`, `MetadataHasKey`, in any interleaving, with kills | none is inductive, since a file is written from what a call read some accesses earlier. `Sound` says, per process and step, what in the call's memory is backed by a file (`Backs`), and no step takes away what backs it (`Kept`): a process cannot spoil the memory of another |
| `AwardsCloseOffers`, `ReceiptsAreTheJobs` | `AwardClosesOffers`, `ReceiptIsTheJobs` | while one command runs, its copy of the job is the file, and it finds every file as it left it (`Fits`); what a kill leaves is no less orderly than what the call would have gone on from (`Orderly`) |
| `CallsFollowLifecycle` | `StepsFollowLifecycle` | from `Fits`: the status a call overwrites is the one it checked |
| `JobsAreCountedOnce` | `CountedOnce` | `settle` saves the job before either profile, so that a party's counter is below its COMPLETED jobs by what the call under way still owes it (`Counts`, `Owed`); a killed settle never pays that debt and, given again, finds no VERIFIED job |

**`LiveDemo`: one demo and four adapters.** The theorems share the invariant `Asking`
(what call is under way, how far the query and the screen have got) `/\ Story` (what has
happened by each stage: the status of the job, the verdicts given, the failures noted,
the identity files, the exit code). It was checked by TLC before it was proved.

| Theorem | Says | Argument |
|---|---|---|
| `DemoTypeCorrect` | `TypeOK` | the stage determines the status, and the step of a call the adapter it is of |
| `CutOffNeverAnswers` | `CutOffIsNoAnswer` | a statement that executes has not been cut off, whichever of the timer and the handler came first (`Querying`) |
| `ScreenFailsClosed` | `FailsClosed` | with the documented signature the library is told of a failed detector by the attempt that answers (`Screening`) |
| `ExitIsHonest`, `FallbacksAreNoted`, `VerdictsStand` | `SuccessIsHonest`, `FallbackIsNoted`, `FailStands` | every way an adapter leaves its local mode adds to the failures and the notes; a failure is never forgotten before the exit code is made (`Ending`, `Noting`) |
| `DoctorIsRight` | `DoctorWarns` | what doctor looked at is what the demo's probes look at (`Noting`) |
| `DemoImplementsLifecycle` | `ImplementsLifecycle` | refinement mapping: the job's status and payment; every action of an adapter is a stutter, an action of the demo a step or a stutter |

**`Amounts`.** `AmountsAreReadBack`, `TextsAreKept`: an amount that is printed is read
back as the same amount; a text that is read is printed without its closing zeros and
otherwise as it was. Digit by digit: six places of a remainder (`SixDigitsOfInt`,
`IntOfSixDigits`), and `ljust` undoes `rstrip` (`LJustOfRStrip`).

**Induction over data.** The library's induction theorems take an operator as a
parameter, which the installed provers cannot instantiate. Two proofs argue instead from
a least counterexample, which is a set and no operator: the balance after a number of
lines (`PaperLedger_proofs`), from the least number at which two sums differ or none
exists (`LeastNat`), and the sums of volumes over deals (`WorkExchangeProfiles_proofs`),
from a smallest finite set at which they do (`SmallestSet`, by the well-foundedness of
strict inclusion). Balances are therefore a recursive function (`BalanceOf`, which sums
each line's `Posting`), and sums of prices the `SumFunction` of the community modules.

**Model-checked only.** `DemoEnds`: liveness under fairness is out of reach of the proof
system, and so is ENABLED. The six violated runs are counterexamples and have nothing to
prove. `ScoutRanking` is checked in its violated run alone, and the sorting in it, a
definition by recursion over lists, is not proved about.

## 5. What is not modelled, and why

- *TCLK* (`adapters/tclk.py`): one function that returns a simulation record, no state.
- *Signatures, canonical JSON, DIDs*: a property of them would be one of the
  cryptographic library. A key pair is a name; a signature verifies under the DID of its
  own key and no other. The files of the production identity, which `identity.py`
  encrypts, differ from the test identity's in that `settle` cannot load them: that is
  in `WorkExchange`, their creation is not in `IdentityFiles`.
- *Configuration*: of `config.py` the adapter modes and their overlay are in
  `AdapterSetup`; fees, policy and family are constants of `WorkExchange`. Parsing of
  paths, numbers and the fee file is checking of single values, without state.
- *Command lines and files given to siblings* (`flop-router`, `flop-bench`, the feed
  command), the SQL text, the stub Sentinel's patterns, and reasons in words: what
  comes of them is modelled as a choice among all results.
- *The other commands* of `cli.py` call one method of the core each; `demo.py` calls the
  methods in order with stubs only, a behaviour of `WorkExchange`.
- *Disk errors*: a write that fails raises like a kill, which is modelled, at the same places.
- *`parse_micro` and whole-number arguments* of `amounts.py`: an integer taken as it is.

## 6. Running

    tlc -workers 2 -config exchange_money.cfg MCWorkExchange
    tlc -workers 2 -config ledger_serial.cfg MCPaperLedger
    tlc -workers 2 -config processes.cfg MCExchangeProcesses
    tlc -workers 2 -config demo_live.cfg LiveDemo
    tlc -workers 2 -config scout_cap.cfg ScoutRanking
    for m in Amounts WorkExchange_proofs WorkExchangeSafety_proofs \
             WorkExchangeProfiles_proofs PaperLedger_proofs \
             ExchangeProcesses_proofs ExchangeAlone_proofs LiveDemo_proofs
    do tlapm $m.tla; done

The longest runs are `exchange_reputation` (411 thousand states), `exchange_money` (451
thousand), `ledger_shared` (440 thousand) and `processes` (793 thousand), each well
under two minutes.

## 7. Plan

In order of importance.

| Step | Modules | Runs and theorems |
|---|---|---|
| 1, done | `WorkExchange` and the modules it composes | the five exchange runs |
| 2, done | `PaperLedger`, `AccountBook`, with creation and half lines | the three ledger runs |
| 3, done | `ExchangeProcesses`, `IdentityFiles` | `processes`, `processes_stale` |
| 4, done | `LiveDemo`, `AdapterSetup`, the four adapters, `SqliteQuery` | `demo_live`, with liveness |
| 5, done | `ScoutRanking` | `scout_cap` |
| 6, done | `Amounts` | its two theorems |
| 7, done | proofs about `WorkExchange` | the theorems of section 4, `StubRouterIsCheapest` and `ProfilesAddUp` last |
| 8, done | proofs about `PaperLedger` | type correctness, links, lines, the chain, `AccountBook` |
| 9, done | proofs about `ExchangeProcesses` | in any interleaving, and one command at a time |
| 10, done | proofs about `LiveDemo` and its adapters | all but `DemoEnds` |
| 11 | lemmas about pure operators | what `OperatorPolicy` refuses and allows, for all parties; `CandidatesFromRecords` and `CapWorkerCandidates` when the lists are not cut |
