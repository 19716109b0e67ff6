------------------------------ MODULE LiveDemo ------------------------------
(***************************************************************************)
(* The live-demo command (ops.py run_live_demo, cli.py): one paper job from *)
(* posting to receipt, by local adapters where they were asked for and     *)
(* probe ok, and by stubs where one is missing or fails on the way.  The   *)
(* main thread asks an adapter and does what comes of the answer; the      *)
(* adapters' processes, the sqlite query with its timer, and the           *)
(* flop_sentinel library run at their own pace.  A doctor command may have *)
(* been run before.                                                        *)
(*                                                                         *)
(* The demo's buyer and seller are new and its buyer has the funds, so     *)
(* that its screens differ by the library alone, its stub router selects   *)
(* its only offer, and its transfers go through.                           *)
(***************************************************************************)
EXTENDS AdapterSetup

VARIABLES
  stage,      \* what the main thread is about to do
  dir,        \* the state directory and the identity in it
  requested,  \* the adapters whose mode is local
  present,    \* the requested adapters whose backend probes ok
  doctor,     \* what doctor said of this setup
  local,      \* the adapters in use that are local
  noted,      \* adapter_notes: those of which a fallback is noted
  errors,     \* adapter_errors: those that failed as local adapters
  status,     \* the status of the job file
  paid,       \* has the worker been paid
  exit,       \* the command's exit code, once it has ended
  failed,     \* history: the local adapters that raised an AdapterError
  verdicts    \* history: the results Bench gave

answer == <<call, child, query, screening>>
setup == <<dir, requested, present, doctor>>
notes == <<local, noted, errors, failed>>
job == <<status, paid, verdicts>>
vars == <<answer, setup, notes, job, stage, exit>>

\* Where the exchange's state directory lies, and what identity is in it.
Dirs == {"sibling", "production", "fresh", "pair", "key only", "metadata only", "mismatched"}

None == "none"

Init ==
  /\ call = NoCall /\ child = NoChild /\ query = NoQuery /\ screening = NoScreening
  /\ stage = "configure"
  /\ dir \in Dirs
  /\ requested = {} /\ present = {} /\ doctor = None
  /\ local = {} /\ noted = {} /\ errors = {} /\ failed = {}
  /\ status = "ABSENT" /\ paid = FALSE /\ verdicts = {}
  /\ exit = 0

Proceed(next) == stage' = next /\ UNCHANGED exit
End(code) == stage' = "ended" /\ exit' = code

-----------------------------------------------------------------------------
(* Before the job. *)

\* load_adapter_config, resolve_adapters.
Configure ==
  /\ stage = "configure"
  /\ \/ /\ \E asked \in SUBSET Adapters:
             /\ MayRequest(asked)
             /\ requested' = asked
             /\ present' \in {p \in SUBSET asked : MayBePresent(p, asked)}
        /\ Proceed("doctor")
     \/ /\ MayBeRefused
        /\ End(1)
        /\ UNCHANGED <<requested, present>>
  /\ UNCHANGED <<answer, notes, job, dir, doctor>>

\* doctor, with the state directory: its identity check only reports.
Doctor ==
  /\ stage = "doctor"
  /\ doctor' = IF /\ \A a \in Adapters: AdapterCheck(a, requested, present)
                  /\ dir # "sibling"
               THEN "ok" ELSE "not ok"
  /\ Proceed("prefer")
  /\ UNCHANGED <<answer, notes, job, dir, requested, present>>

\* There was no doctor before, or one of its probes raised.
NoDoctor ==
  /\ stage = "doctor"
  /\ Proceed("prefer")
  /\ UNCHANGED <<answer, notes, job, setup>>

\* Broken variant of PreferLocal: the stub takes over without a word.
PreferLocalSilently ==
  /\ stage = "prefer"
  /\ local' = present
  /\ Proceed("open")
  /\ UNCHANGED <<answer, job, setup, noted, errors, failed>>

\* _prefer_local, of the four adapters.
PreferLocal ==
  /\ stage = "prefer"
  /\ local' = present
  /\ noted' = requested \ present
  /\ Proceed("open")
  /\ UNCHANGED <<answer, job, setup, errors, failed>>

\* The import of a sibling's package, or a look at its files, may raise what is
\* no AdapterError; no probe catches it.
ProbeRaises ==
  /\ stage = "prefer" /\ requested # {}
  /\ End(1)
  /\ UNCHANGED <<answer, notes, job, setup>>

\* WorkExchange, ensure_test_identity, create_ephemeral_party, credit_paper: a
\* directory of a sibling agent, the production directory and one with a key
\* and no metadata are refused; where there is no identity one is made.
OpenExchange ==
  /\ stage = "open"
  /\ IF dir \in {"sibling", "production", "key only"}
     THEN End(1) /\ UNCHANGED dir
     ELSE Proceed("post") /\ dir' = IF dir = "fresh" THEN "pair" ELSE dir
  /\ present' = {} /\ doctor' = None
  /\ UNCHANGED <<answer, notes, job, requested>>

-----------------------------------------------------------------------------
(* Asking an adapter. *)

\* A local adapter takes its first step, a stub answers at once.
Ask(a, first, stub) ==
  /\ At("none")
  /\ IF a \in local THEN Goto(first) ELSE Return(stub)
  /\ UNCHANGED <<child, query, screening, setup, notes, job, stage, exit>>

Screens == {"post", "offer", "result"}

AskSentinel == stage \in Screens /\ Ask("sentinel", "prepare", StubScreen({}))
AskScout == stage = "find" /\ Ask("scout", "jsonl", "records")
AskRouter == stage \in {"route", "accept"} /\ Ask("router", "router", "selects")
AskBench == stage = "verify" /\ Ask("bench", "bench", StubVerdict(TRUE))

\* The answer is taken, and the call is over.
Answered(values) ==
  /\ At("returned") /\ call.value \in values
  /\ call' = NoCall /\ screening' = NoScreening
  /\ UNCHANGED <<child, query, setup>>

\* The local adapter whose AdapterError is taken.
Failing(a) == IF call.value = "AdapterError" THEN local \cap {a} ELSE {}

\* An exception the demo does not catch ends the command.
Escapes(a) ==
  /\ failed' = failed \cup Failing(a)
  /\ End(1)
  /\ UNCHANGED <<local, noted, errors, job>>

\* Broken variant of Fallback: the stub is put in place before its kind is
\* asked for.
FallbackFirst(a) ==
  /\ failed' = failed \cup Failing(a)
  /\ noted' = noted \cup {a}
  /\ local' = local \ {a}
  /\ errors' = errors \cup (local' \cap Failing(a))
  /\ UNCHANGED <<stage, exit>>

\* except AdapterError: the failure of a local adapter is kept, a note is made,
\* and the stub is asked in its place.
Fallback(a) ==
  /\ failed' = failed \cup Failing(a)
  /\ errors' = errors \cup Failing(a)
  /\ noted' = noted \cup {a}
  /\ local' = local \ {a}
  /\ UNCHANGED <<stage, exit>>

-----------------------------------------------------------------------------
(* The job. *)

Passed == {"ALLOW", "REVIEW"}

\* post_job, submit_offer, submit_result: the artifact is screened before
\* anything is written; the demo catches nothing.
ScreenedStep(artifact, becomes, next) ==
  /\ stage = artifact
  /\ \/ /\ Answered(Passed)
        /\ status' = becomes
        /\ Proceed(next)
        /\ UNCHANGED <<notes, paid, verdicts>>
     \/ Answered({"REJECT", "AdapterError", "raised"}) /\ Escapes("sentinel")

PostJob == ScreenedStep("post", "POSTED", "find")
SubmitOffer == ScreenedStep("offer", "OFFERED", "route")
SubmitResult == ScreenedStep("result", "RESULT_SUBMITTED", "verify")

FindCandidates ==
  /\ stage = "find"
  /\ \/ Answered({"records"}) /\ Proceed("offer") /\ UNCHANGED <<notes, job>>
     \/ Answered({"AdapterError"}) /\ Fallback("scout") /\ UNCHANGED job
     \/ Answered({"raised"}) /\ Escapes("scout")

\* A plan that does not select the demo's offer is replaced by the stub's too,
\* and noted, but is no error.
RouteJob ==
  /\ stage = "route"
  /\ \/ Answered({"selects"}) /\ Proceed("accept") /\ UNCHANGED <<notes, job>>
     \/ Answered({"AdapterError", "other plan"}) /\ Fallback("router") /\ UNCHANGED job
     \/ Answered({"raised"}) /\ Escapes("router")

\* accept_offer asks the router once more; nothing is caught.
AcceptOffer ==
  /\ stage = "accept"
  /\ \/ /\ Answered({"selects"})
        /\ status' = "ACCEPTED"
        /\ Proceed("result")
        /\ UNCHANGED <<notes, paid, verdicts>>
     \/ Answered({"AdapterError", "other plan", "raised"}) /\ Escapes("router")

Verdicts == {"PASS", "FAIL", "PARTIAL"}

\* Broken variant of Verify: any verdict but PASS is fallen back from as well.
VerifyUntilPass ==
  /\ stage = "verify"
  /\ \/ /\ Answered({"PASS"})
        /\ status' = "VERIFIED"
        /\ verdicts' = verdicts \cup {call.value}
        /\ Proceed("settle")
        /\ UNCHANGED <<notes, paid>>
     \/ /\ Answered({"FAIL", "PARTIAL", "AdapterError"})
        /\ Fallback("bench")
        /\ status' = "RESULT_SUBMITTED"
        /\ verdicts' = verdicts \cup ({call.value} \cap Verdicts)
        /\ UNCHANGED paid
     \/ Answered({"raised"}) /\ Escapes("bench")

\* Broken variant of SetByHand: one status too far back.
SetBackFurther == "ACCEPTED"

SetByHand == "RESULT_SUBMITTED"

\* verify; after an AdapterError the demo sets the status by hand and has the
\* stub verify.
Verify ==
  /\ stage = "verify"
  /\ \/ /\ Answered(Verdicts)
        /\ status' = IF call.value = "PASS" THEN "VERIFIED" ELSE "FAILED"
        /\ verdicts' = verdicts \cup {call.value}
        /\ Proceed("settle")
        /\ UNCHANGED <<notes, paid>>
     \/ /\ Answered({"AdapterError"})
        /\ Fallback("bench")
        /\ status' = SetByHand
        /\ UNCHANGED <<paid, verdicts>>
     \/ Answered({"raised"}) /\ Escapes("bench")

\* settle: a job that is not VERIFIED is refused; the worker is paid before the
\* signing key is looked for.
Settle ==
  /\ stage = "settle"
  /\ IF status = "VERIFIED"
     THEN /\ paid' = TRUE
          /\ IF dir = "metadata only"
             THEN End(1) /\ UNCHANGED status
             ELSE Proceed("report") /\ status' = "COMPLETED"
     ELSE End(1) /\ UNCHANGED <<status, paid>>
  /\ UNCHANGED <<answer, setup, notes, verdicts>>

\* verify_receipt does not accept a receipt signed by another key than its
\* metadata names; then ok, and the exit code, go by the errors kept.
Report ==
  /\ stage = "report"
  /\ End(CASE dir = "mismatched" -> 1
           [] dir # "mismatched" /\ errors = {} -> 0
           [] OTHER -> 2)
  /\ UNCHANGED <<answer, setup, notes, job>>

-----------------------------------------------------------------------------
(* The main thread, and what runs beside it. *)

demo == <<setup, notes, job, stage, exit>>

MainThread ==
  \/ Configure \/ Doctor \/ NoDoctor \/ PreferLocal \/ ProbeRaises
  \/ OpenExchange
  \/ AskSentinel \/ AskScout \/ AskRouter \/ AskBench
  \/ PostJob \/ FindCandidates \/ SubmitOffer \/ RouteJob \/ AcceptOffer
  \/ SubmitResult \/ Verify \/ Settle \/ Report
  \/ ScoutStep /\ UNCHANGED <<screening, demo>>
  \/ CloseDatabase /\ UNCHANGED <<call, child, screening, demo>>
  \/ (StartRouter \/ TakePlan \/ StartBench \/ TakeVerdict)
       /\ UNCHANGED <<query, screening, demo>>

\* The library answers in the main thread, in its own time.
Library == LibraryScreen /\ UNCHANGED <<child, query, demo>>

ProcessEnds ==
  (FeedExits \/ RouterExits \/ BenchExits) /\ UNCHANGED <<query, screening, demo>>
ProcessTimesOut == ChildTimesOut /\ UNCHANGED <<query, screening, demo>>

StatementEnds ==
  (RankingEnds \/ EvidenceEnds) /\ UNCHANGED <<call, child, screening, demo>>
TimerRuns ==
  (DeadlinePasses \/ TimerFires) /\ UNCHANGED <<call, child, screening, demo>>
StatementAborts == HandlerAborts /\ UNCHANGED <<call, child, screening, demo>>

Next ==
  \/ MainThread \/ Library
  \/ ProcessEnds \/ ProcessTimesOut
  \/ StatementEnds \/ TimerRuns \/ StatementAborts

\* The command's own threads run, the operating system ends a process whose
\* time is up, and sqlite calls the progress handler.  No process, statement
\* or library need ever end by itself.
Fairness ==
  /\ WF_vars(MainThread)
  /\ WF_vars(ProcessTimesOut)
  /\ WF_vars(TimerRuns)
  /\ WF_vars(StatementAborts)

Spec == Init /\ [][Next]_vars /\ Fairness

-----------------------------------------------------------------------------
(* Properties. *)

\* Every variable holds a value of its type; the attempts at decide are the six
\* there are (sentinel.py:503).
TypeOK ==
  /\ QueryTypeOK
  /\ ScreeningTypeOK
  /\ stage \in {"configure", "doctor", "prefer", "open", "post", "find", "offer", "route",
                "accept", "result", "verify", "settle", "report", "ended"}
  /\ dir \in Dirs
  /\ local \subseteq requested /\ present \subseteq requested
  /\ requested \subseteq Adapters
  /\ noted \subseteq Adapters /\ errors \subseteq failed
  /\ failed \subseteq requested
  /\ doctor \in {None, "ok", "not ok"}
  /\ exit \in {0, 1, 2}
  /\ verdicts \subseteq Verdicts

\* The command exits with 0 only with a receipt that verifies, and of the demos
\* that have one it is those in which no local adapter failed on the way, though
\* a stub has taken its place (ops.py:239, cli.py:196).
SuccessIsHonest ==
  stage = "ended" =>
    /\ exit = 0 => status = "COMPLETED" /\ dir = "pair"
    /\ status = "COMPLETED" /\ dir = "pair" => (exit = 0 <=> failed = {})

\* From the posting of the job on, no stub stands in for an adapter that was to
\* be local unless a note says so (ops.py:277, adapters/factory.py:3).
FallbackIsNoted == status # "ABSENT" => requested \ local \subseteq noted

\* A verdict of the local Bench stands: no job has a receipt that any Bench, the
\* local one or the stub after it, did not pass (ops.py:223).
FailStands == status = "COMPLETED" => verdicts = {"PASS"}

\* A setup that doctor found ok, and that has not changed, starts with every
\* adapter that was asked for, and not in a sibling's directory (ops.py:39).
DoctorWarns == stage = "open" /\ doctor = "ok" => noted = {} /\ dir # "sibling"

\* The job of the demo, with its status set by hand, keeps to the lifecycle of
\* the exchange (ops.py:230).
TheJob == "FLOP-JOB"
Lifecycle == INSTANCE JobLifecycle
  WITH JobIds <- {TheJob},
       status <- [j \in {TheJob} |-> status],
       paid <- [j \in {TheJob} |-> paid]
ImplementsLifecycle == Lifecycle!Spec

\* The demo ends, whatever the processes, databases and timers beside it do,
\* unless the library never answers: that call alone has no timeout
\* (adapters/process.py:38, adapters/scout.py:541).
LibraryRuns == call.step \in {"prepare", "detect", "each", "type", "decide"}
DemoEnds == <>(stage = "ended") \/ <>[]LibraryRuns

=============================================================================
