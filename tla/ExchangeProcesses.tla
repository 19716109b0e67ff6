------------------------- MODULE ExchangeProcesses --------------------------
(***************************************************************************)
(* The methods of exchange.py as the processes of several commands run     *)
(* them: each reads and writes the files of the store one at a time, works *)
(* on the copies it has read, and may be killed, or end with an exception, *)
(* between any two accesses.  No file is locked.  A write replaces a whole *)
(* file (canonical.atomic_write_text).                                     *)
(*                                                                         *)
(* Whether the operator waits for a command to end before giving the next  *)
(* one is a fact about a behaviour: the variable "alone" is chosen in the  *)
(* initial state.  What the paper ledger and the router's ranking do is in *)
(* PaperLedger and WorkExchange: here a payment goes through or the call   *)
(* ends, and any open offer that is listed may be the one selected.        *)
(***************************************************************************)
EXTENDS Integers, FiniteSets, IdentityFiles

CONSTANTS
  Procs,       \* processes, one command after the other in each
  JobIds, OfferIds, DealIds,  \* ids new_id may draw: a fresh one each time
  Dids,        \* buyers and sellers
  MaxPayouts,  \* bound: how often a worker is paid for a job
  None         \* an absent field

ASSUME ProcessAssumption ==
  /\ MaxPayouts \in Nat
  /\ None \notin JobIds \cup OfferIds \cup DealIds \cup Dids

VARIABLES
  jobs, offers, deals, receipts, profiles,  \* the files of the store
  paid,    \* paid[j]: how often a worker was paid for job j
  pc,      \* pc[p]: the next file access of process p
  mem,     \* mem[p]: what the call in p has read and chosen so far
  alone    \* TRUE: no command is given while another runs

store == <<jobs, offers, deals, receipts, profiles, paid>>
vars == <<jobs, offers, deals, receipts, profiles, paid, pem, meta, pc, mem, alone>>

\* The methods' steps, by the access that comes next.
Steps == {"idle", "offer_save", "offer_job", "accept_job", "accept_route",
          "accept_deal", "accept_offer", "accept_list", "accept_decline",
          "result_save", "verify_save", "settle_pay", "settle_key", "settle_meta", "settle_receipt",
          "settle_job", "settle_load", "settle_record", "refund_save",
          "identity_pem", "identity_meta"}

NoJob == [status |-> "ABSENT", buyer |-> None, offer |-> None, deal |-> None,
          receipt |-> 0]
NoOffer == [status |-> "ABSENT", job |-> None, seller |-> None]
NoDeal == [job |-> None, offer |-> None]
NoReceipt == [deal |-> None, payout |-> 0, key |-> NoKey, did |-> NoKey]

\* The local variables of a call.
NoMem == [job |-> None, copy |-> NoJob, offer |-> None, seen |-> "ABSENT",
          deal |-> None, todo |-> {}, payout |-> 0, key |-> NoKey,
          did |-> NoKey, party |-> None, count |-> 0]

JobStatus == {"ABSENT", "POSTED", "OFFERED", "ACCEPTED", "RESULT_SUBMITTED",
              "VERIFIED", "COMPLETED", "FAILED", "REFUNDED"}

\* Broken variant of ALLOWED: a verified job may be refunded.
ALLOWEDRefundVerified ==
  [submit_offer  |-> {"POSTED", "OFFERED"},
   accept_offer  |-> {"POSTED", "OFFERED"},
   submit_result |-> {"ACCEPTED"},
   verify        |-> {"RESULT_SUBMITTED"},
   settle        |-> {"VERIFIED"},
   refund        |-> {"ACCEPTED", "RESULT_SUBMITTED", "FAILED", "VERIFIED"}]

\* ALLOWED: the statuses from which each method may start.
ALLOWED == [submit_offer  |-> {"POSTED", "OFFERED"},
            accept_offer  |-> {"POSTED", "OFFERED"},
            submit_result |-> {"ACCEPTED"},
            verify        |-> {"RESULT_SUBMITTED"},
            settle        |-> {"VERIFIED"},
            refund        |-> {"ACCEPTED", "RESULT_SUBMITTED", "FAILED"}]

Job == [status : JobStatus, buyer : Dids \cup {None},
        offer : OfferIds \cup {None}, deal : DealIds \cup {None},
        receipt : 0 .. MaxPayouts]
Offer == [status : {"OPEN", "ACCEPTED", "DECLINED"}, job : JobIds, seller : Dids]
Deal == [job : JobIds, offer : OfferIds]
Receipt == [deal : DealIds, payout : 1 .. MaxPayouts, key : Keys, did : Keys]
Mem == [job : JobIds \cup {None}, copy : Job, offer : OfferIds \cup {None},
        seen : {"ABSENT", "OPEN", "ACCEPTED", "DECLINED"},
        deal : DealIds \cup {None}, todo : SUBSET (OfferIds \cup Dids \cup {None}),
        payout : 0 .. MaxPayouts, key : Keys \cup {NoKey}, did : Keys \cup {NoKey},
        party : Dids \cup {None}, count : Nat]

\* Every file holds what some method writes there, every process is at a step.
TypeOK ==
  /\ jobs \in [JobIds -> Job]
  /\ offers \in [OfferIds -> {NoOffer} \cup Offer]
  /\ deals \in [DealIds -> {NoDeal} \cup Deal]
  /\ receipts \in [JobIds -> {NoReceipt} \cup Receipt]
  /\ profiles \in [Dids -> Nat] /\ paid \in [JobIds -> 0 .. MaxPayouts]
  /\ pc \in [Procs -> Steps] /\ mem \in [Procs -> Mem]
  /\ alone \in BOOLEAN
  /\ IdentityTypeOK

Init ==
  /\ jobs = [j \in JobIds |-> NoJob]
  /\ offers = [o \in OfferIds |-> NoOffer]
  /\ deals = [d \in DealIds |-> NoDeal]
  /\ receipts = [j \in JobIds |-> NoReceipt]
  /\ profiles = [a \in Dids |-> 0]
  /\ paid = [j \in JobIds |-> 0]
  /\ pc = [p \in Procs |-> "idle"]
  /\ mem = [p \in Procs |-> NoMem]
  /\ alone \in BOOLEAN
  /\ IdentityInit

-----------------------------------------------------------------------------
(* The life of a call. *)

At(p, step) == pc[p] = step

Go(p, step, m) ==
  pc' = [pc EXCEPT ![p] = step] /\ mem' = [mem EXCEPT ![p] = m] /\ UNCHANGED alone

End(p) == Go(p, "idle", NoMem)

MayBegin(p) == At(p, "idle") /\ (alone => \A q \in Procs: At(q, "idle"))

\* load_job and require_status: the call goes on with the copy it has read.
BeginOnJob(p, j, method, step) ==
  /\ MayBegin(p) /\ jobs[j].status \in ALLOWED[method]
  /\ Go(p, step, [NoMem EXCEPT !.job = j, !.copy = jobs[j]])
  /\ UNCHANGED <<store, identityFiles>>

\* save_job: the copy, with the fields the method has assigned.
SaveJob(p, job) ==
  /\ jobs' = [jobs EXCEPT ![mem[p].job] = job]
  /\ UNCHANGED <<offers, deals, receipts, profiles, paid, identityFiles>>

\* The process is killed, or a call between two accesses raises.
Killed(p) == ~At(p, "idle") /\ End(p) /\ UNCHANGED <<store, identityFiles>>

-----------------------------------------------------------------------------
(* The methods. *)

\* post_job writes one file, and then asks for the posting fee.
PostJob(p, j, buyer) ==
  /\ MayBegin(p) /\ jobs[j] = NoJob
  /\ jobs' = [jobs EXCEPT ![j] = [NoJob EXCEPT !.status = "POSTED", !.buyer = buyer]]
  /\ UNCHANGED <<offers, deals, receipts, profiles, paid, identityFiles, pc, mem, alone>>

(* submit_offer *)

OfferReadsJob(p, j) == BeginOnJob(p, j, "submit_offer", "offer_save")

\* A new offer is written, under an id nothing has had.
OfferIsSaved(p, o, seller) ==
  /\ At(p, "offer_save") /\ offers[o] = NoOffer
  /\ offers' = [offers EXCEPT ![o] =
                  [status |-> "OPEN", job |-> mem[p].job, seller |-> seller]]
  /\ Go(p, "offer_job", mem[p])
  /\ UNCHANGED <<jobs, deals, receipts, profiles, paid, identityFiles>>

\* The job goes back to its file as it was read, OFFERED.
OfferedIsSaved(p) ==
  /\ At(p, "offer_job")
  /\ SaveJob(p, [mem[p].copy EXCEPT !.status = "OFFERED"])
  /\ End(p)

(* accept_offer *)

AcceptReadsOffer(p, o) ==
  /\ MayBegin(p) /\ offers[o] # NoOffer
  /\ Go(p, "accept_job", [NoMem EXCEPT !.job = offers[o].job, !.offer = o,
                                       !.seen = offers[o].status])
  /\ UNCHANGED <<store, identityFiles>>

AcceptReadsJob(p) ==
  /\ At(p, "accept_job")
  /\ LET job == jobs[mem[p].job]
     IN  IF job.status \in ALLOWED.accept_offer /\ mem[p].seen = "OPEN"
         THEN Go(p, "accept_route", [mem[p] EXCEPT !.copy = job])
         ELSE End(p)
  /\ UNCHANGED <<store, identityFiles>>

ListOffers(j, status) ==
  {o \in OfferIds: offers[o].job = j /\ offers[o].status = status}

\* The router plans over the offers listed; another offer may be its choice.
AcceptRoutes(p) ==
  /\ At(p, "accept_route")
  /\ \/ /\ mem[p].offer \in ListOffers(mem[p].job, "OPEN")
        /\ Go(p, "accept_deal", mem[p])
     \/ End(p)
  /\ UNCHANGED <<store, identityFiles>>

\* Broken variant of DealIsSaved: the deal is left to be written last.
DealIsPutOff(p, d) ==
  /\ At(p, "accept_deal") /\ deals[d] = NoDeal
  /\ Go(p, "accept_offer", [mem[p] EXCEPT !.deal = d])
  /\ UNCHANGED <<store, identityFiles>>

DealIsSaved(p, d) ==
  /\ At(p, "accept_deal") /\ deals[d] = NoDeal
  /\ deals' = [deals EXCEPT ![d] = [job |-> mem[p].job, offer |-> mem[p].offer]]
  /\ Go(p, "accept_offer", [mem[p] EXCEPT !.deal = d])
  /\ UNCHANGED <<jobs, offers, receipts, profiles, paid, identityFiles>>

AcceptedOfferIsSaved(p) ==
  /\ At(p, "accept_offer")
  /\ offers' = [offers EXCEPT ![mem[p].offer].status = "ACCEPTED"]
  /\ Go(p, "accept_list", mem[p])
  /\ UNCHANGED <<jobs, deals, receipts, profiles, paid, identityFiles>>

\* Broken variant of AcceptListsOthers: no other offer is looked for.
AcceptListsNone(p) ==
  /\ At(p, "accept_list")
  /\ Go(p, "accept_decline", [mem[p] EXCEPT !.todo = {}])
  /\ UNCHANGED <<store, identityFiles>>

AcceptListsOthers(p) ==
  /\ At(p, "accept_list")
  /\ Go(p, "accept_decline",
        [mem[p] EXCEPT !.todo = ListOffers(mem[p].job, "OPEN") \ {mem[p].offer}])
  /\ UNCHANGED <<store, identityFiles>>

DeclinedIsSaved(p, o) ==
  /\ At(p, "accept_decline") /\ o \in mem[p].todo
  /\ offers' = [offers EXCEPT ![o].status = "DECLINED"]
  /\ Go(p, "accept_decline", [mem[p] EXCEPT !.todo = @ \ {o}])
  /\ UNCHANGED <<jobs, deals, receipts, profiles, paid, identityFiles>>

AcceptedIsSaved(p) ==
  /\ At(p, "accept_decline") /\ mem[p].todo = {}
  /\ SaveJob(p, [mem[p].copy EXCEPT !.status = "ACCEPTED", !.offer = mem[p].offer,
                                    !.deal = mem[p].deal])
  /\ End(p)

(* submit_result, verify and refund *)

ResultReadsJob(p, j) == BeginOnJob(p, j, "submit_result", "result_save")
VerifyReadsJob(p, j) == BeginOnJob(p, j, "verify", "verify_save")
RefundReadsJob(p, j) == BeginOnJob(p, j, "refund", "refund_save")

ResultIsSaved(p) ==
  /\ At(p, "result_save")
  /\ SaveJob(p, [mem[p].copy EXCEPT !.status = "RESULT_SUBMITTED"]) /\ End(p)

\* Broken variant of VerdictIsSaved: Bench's word becomes the status.
VerdictBecomesStatus(p, status) ==
  /\ At(p, "verify_save") /\ status \in {"VERIFIED", "FAILED"}
  /\ SaveJob(p, [mem[p].copy EXCEPT !.status = "PASS"]) /\ End(p)

\* Bench may take any time to answer, and answer either way.
VerdictIsSaved(p, status) ==
  /\ At(p, "verify_save") /\ status \in {"VERIFIED", "FAILED"}
  /\ SaveJob(p, [mem[p].copy EXCEPT !.status = status]) /\ End(p)

RefundedIsSaved(p) ==
  /\ At(p, "refund_save")
  /\ SaveJob(p, [mem[p].copy EXCEPT !.status = "REFUNDED"]) /\ End(p)

(* settle *)

\* A deal's file never changes, so that reading it is no step of its own.
SettleReadsJob(p, j) ==
  /\ jobs[j].deal # None
  /\ BeginOnJob(p, j, "settle", "settle_pay")

\* The transfers go through.
SettlePays(p) ==
  /\ At(p, "settle_pay") /\ paid[mem[p].job] < MaxPayouts
  /\ paid' = [paid EXCEPT ![mem[p].job] = @ + 1]
  /\ Go(p, "settle_key", [mem[p] EXCEPT !.payout = paid[mem[p].job] + 1])
  /\ UNCHANGED <<jobs, offers, deals, receipts, profiles, identityFiles>>

\* load_exchange_key: the key, and then the DID beside it.
SettleReadsKey(p) ==
  /\ At(p, "settle_key")
  /\ IF KeyOnFile THEN Go(p, "settle_meta", [mem[p] EXCEPT !.key = pem]) ELSE End(p)
  /\ UNCHANGED <<store, identityFiles>>

SettleReadsDid(p) ==
  /\ At(p, "settle_meta")
  /\ IF MetadataOnFile THEN Go(p, "settle_receipt", [mem[p] EXCEPT !.did = meta])
                       ELSE End(p)
  /\ UNCHANGED <<store, identityFiles>>

\* Broken variants of ReceiptIsSaved: the receipt is left to be written last,
\* and a receipt already there is kept.
ReceiptIsPutOff(p) ==
  /\ At(p, "settle_receipt")
  /\ Go(p, "settle_job", mem[p])
  /\ UNCHANGED <<store, identityFiles>>

ReceiptIsKept(p) ==
  /\ At(p, "settle_receipt")
  /\ receipts' = [receipts EXCEPT ![mem[p].job] =
                    IF @ # NoReceipt THEN @ ELSE
                    [deal |-> mem[p].copy.deal, payout |-> mem[p].payout,
                     key |-> mem[p].key, did |-> mem[p].did]]
  /\ Go(p, "settle_job", mem[p])
  /\ UNCHANGED <<jobs, offers, deals, profiles, paid, identityFiles>>

\* The receipt is signed with the key and names the DID; its id is new, as the
\* number of the payout it records is.
ReceiptIsSaved(p) ==
  /\ At(p, "settle_receipt")
  /\ receipts' = [receipts EXCEPT ![mem[p].job] =
                    [deal |-> mem[p].copy.deal, payout |-> mem[p].payout,
                     key |-> mem[p].key, did |-> mem[p].did]]
  /\ Go(p, "settle_job", mem[p])
  /\ UNCHANGED <<jobs, offers, deals, profiles, paid, identityFiles>>

Parties(job) == {job.buyer, offers[job.offer].seller}

\* Broken variant of CompletedIsSaved: the job is saved after the profiles.
CompletedIsPutOff(p) ==
  /\ At(p, "settle_job")
  /\ Go(p, "settle_load", [mem[p] EXCEPT !.todo = Parties(mem[p].copy)])
  /\ UNCHANGED <<store, identityFiles>>

CompletedIsSaved(p) ==
  /\ At(p, "settle_job")
  /\ SaveJob(p, [mem[p].copy EXCEPT !.status = "COMPLETED", !.receipt = mem[p].payout])
  /\ Go(p, "settle_load", [mem[p] EXCEPT !.todo = Parties(mem[p].copy)])

\* The parties form a set, so that either may come first.
ProfileIsLoaded(p, a) ==
  /\ At(p, "settle_load") /\ a \in mem[p].todo
  /\ Go(p, "settle_record", [mem[p] EXCEPT !.party = a, !.count = profiles[a],
                                           !.todo = @ \ {a}])
  /\ UNCHANGED <<store, identityFiles>>

\* record_completion, and save_profile.
ProfileIsSaved(p) ==
  /\ At(p, "settle_record")
  /\ profiles' = [profiles EXCEPT ![mem[p].party] = mem[p].count + 1]
  /\ IF mem[p].todo = {} THEN End(p) ELSE Go(p, "settle_load", mem[p])
  /\ UNCHANGED <<jobs, offers, deals, receipts, paid, identityFiles>>

(* identity init, and the first call of ensure_test_identity *)

InitIdentity(p) ==
  /\ MayBegin(p) /\ NoIdentity
  /\ Go(p, "identity_pem", NoMem)
  /\ UNCHANGED <<store, identityFiles>>

\* generate_key draws a pair that nothing else holds.
FreshKey(k) ==
  /\ k \notin {pem, meta} /\ \A q \in Procs: k # mem[q].key
  /\ \A j \in JobIds: k \notin {receipts[j].key, receipts[j].did}

\* Broken variant of KeyIsWritten: the metadata is written first.
MetadataIsWrittenFirst(p, k) ==
  /\ At(p, "identity_pem") /\ FreshKey(k)
  /\ WriteMetadata(k) /\ Go(p, "identity_meta", [mem[p] EXCEPT !.key = k])
  /\ UNCHANGED store

KeyIsWritten(p, k) ==
  /\ At(p, "identity_pem") /\ FreshKey(k)
  /\ WriteKey(k) /\ Go(p, "identity_meta", [mem[p] EXCEPT !.key = k])
  /\ UNCHANGED store

MetadataIsWritten(p) ==
  /\ At(p, "identity_meta")
  /\ WriteMetadata(mem[p].key) /\ End(p)
  /\ UNCHANGED store

-----------------------------------------------------------------------------
Submitting(p) ==
  \/ \E j \in JobIds, a \in Dids: PostJob(p, j, a)
  \/ \E j \in JobIds: OfferReadsJob(p, j) \/ ResultReadsJob(p, j)
  \/ \E o \in OfferIds, a \in Dids: OfferIsSaved(p, o, a)
  \/ OfferedIsSaved(p)
  \/ ResultIsSaved(p)

Accepting(p) ==
  \/ \E o \in OfferIds: AcceptReadsOffer(p, o) \/ DeclinedIsSaved(p, o)
  \/ AcceptReadsJob(p)
  \/ AcceptRoutes(p)
  \/ \E d \in DealIds: DealIsSaved(p, d)
  \/ AcceptedOfferIsSaved(p)
  \/ AcceptListsOthers(p)
  \/ AcceptedIsSaved(p)

Concluding(p) ==
  \/ \E j \in JobIds: VerifyReadsJob(p, j) \/ RefundReadsJob(p, j) \/ SettleReadsJob(p, j)
  \/ \E status \in JobStatus: VerdictIsSaved(p, status)
  \/ RefundedIsSaved(p)
  \/ SettlePays(p) \/ SettleReadsKey(p) \/ SettleReadsDid(p)
  \/ ReceiptIsSaved(p) \/ CompletedIsSaved(p)
  \/ \E a \in Dids: ProfileIsLoaded(p, a)
  \/ ProfileIsSaved(p)

CreatingIdentity(p) ==
  \/ InitIdentity(p)
  \/ \E k \in Keys: KeyIsWritten(p, k)
  \/ MetadataIsWritten(p)

Next ==
  \E p \in Procs:
    Submitting(p) \/ Accepting(p) \/ Concluding(p) \/ CreatingIdentity(p) \/ Killed(p)

Spec == Init /\ [][Next]_vars

-----------------------------------------------------------------------------
(* However commands interleave, and wherever they are killed. *)

\* Files are written in an order that leaves no dangling reference: the deal
\* and the offer a job names, and the deal a receipt names, are on file and
\* are about that job.
ReferencesOnFile ==
  \A j \in JobIds:
    /\ jobs[j].deal # None =>
         /\ deals[jobs[j].deal] = [job |-> j, offer |-> jobs[j].offer]
         /\ offers[jobs[j].offer].job = j
    /\ receipts[j] # NoReceipt => deals[receipts[j].deal].job = j

\* settle writes the receipt before it says the job is COMPLETED.
CompletedHasReceipt ==
  \A j \in JobIds: jobs[j].status = "COMPLETED" => receipts[j] # NoReceipt

\* identity.py writes the key first: where there is a DID there is a key.
MetadataHasKey == MetadataOnFile => KeyOnFile

(* When one command ends before the next is given; any of them may be killed. *)

\* accept_offer leaves the offer it took ACCEPTED and the job's others closed.
AwardClosesOffers ==
  alone => \A j \in JobIds:
    jobs[j].deal # None =>
      offers[jobs[j].offer].status = "ACCEPTED" /\ ListOffers(j, "OPEN") = {}

\* The receipt on file is the one the job names, for the deal it names, and its
\* signature verifies under the DID it names.
ReceiptIsTheJobs ==
  alone => \A j \in JobIds:
    /\ receipts[j].key = receipts[j].did
    /\ jobs[j].status = "COMPLETED" =>
         /\ receipts[j].payout = jobs[j].receipt
         /\ receipts[j].deal = jobs[j].deal

\* settle counts a job in the profiles after it is COMPLETED, so that a settle
\* that is killed and given again counts it no second time.
CountedOnce ==
  alone => \A a \in Dids:
    profiles[a] <= Cardinality({j \in JobIds:
                     jobs[j].status = "COMPLETED" /\ a \in Parties(jobs[j])})

Lifecycle == INSTANCE JobLifecycle WITH
  status <- [j \in JobIds |-> jobs[j].status],
  paid <- [j \in JobIds |-> paid[j] > 0]

\* A submit_offer killed before it saves the job leaves an open offer of a job
\* still POSTED, and accept_offer takes it.
OfferedIsSkipped ==
  \E j \in JobIds: jobs[j].status = "POSTED" /\ jobs'[j].status = "ACCEPTED"

\* Every step moves a job along the lifecycle of JobLifecycle, save for that one
\* edge: a job never goes back, and it is paid for only while it is VERIFIED.
StepsFollowLifecycle ==
  [][alone => Lifecycle!Next \/ OfferedIsSkipped]_<<Lifecycle!lifecycleVars>>

(* What commands side by side do not keep. *)

\* README, Job lifecycle: once an offer is accepted a job takes no offers.
AcceptedNeverReopens ==
  [][\A j \in JobIds: jobs[j].status = "ACCEPTED" => jobs'[j].status # "OFFERED"]_vars

=============================================================================
