--------------------------- MODULE SentinelScreen ---------------------------
(***************************************************************************)
(* adapters/sentinel.py: how an artifact gets its verdict, ALLOW, REVIEW   *)
(* or REJECT, from the stub's own patterns or from the flop_sentinel       *)
(* library.  The library is code outside this repository: at each step it  *)
(* may answer, raise a TypeError (its signature is another one), or raise  *)
(* anything else.  A word of its answer stands for all that are mapped the *)
(* same way.                                                               *)
(***************************************************************************)
EXTENDS AdapterCall

CONSTANT
  Signatures   \* how policy.decide may declare the detector_error keyword:
               \* "required" (the documented contract), "optional", "absent"

VARIABLE
  screening    \* of the call under way: has a detector failed, the adapter's
               \* detector_error, was decide told of it, which attempt is
               \* next, and the answer decide gave

NoScreening ==
  [failed |-> FALSE, error |-> FALSE, told |-> FALSE, attempt |-> 1,
   decision |-> "unasked", risk |-> "unasked"]

Attempts == 6

ScreeningTypeOK ==
  /\ {screening.failed, screening.error, screening.told} \subseteq BOOLEAN
  /\ screening.attempt \in 1..Attempts

-----------------------------------------------------------------------------
(* The stub. *)

RejectSignals == {"prompt_injection", "secret_request", "unsafe_execution_request",
                  "sybil_signal", "sender_identity_mismatch"}
ReviewSignals == {"suspicious_url", "repeated_template"}

\* StubSentinelAdapter.screen, of the signals it has found in an artifact.
StubScreen(signals) ==
  CASE signals \cap RejectSignals # {} -> "REJECT"
    [] signals \cap RejectSignals = {} /\ signals \cap ReviewSignals # {} -> "REVIEW"
    [] OTHER -> "ALLOW"

-----------------------------------------------------------------------------
(* The library. *)

\* The parts of flop_sentinel the adapter looks for before it uses any.
Parts == {"package", "decide", "ALL_DETECTORS", "models", "Message", "normalize"}

\* LocalSentinelAdapter.probe: what it loads stays loaded, so that a screen
\* after a probe that was ok finds every part again.
SentinelProbe(present) == Parts \subseteq present

\* _prepare_detector_input: Message and normalize are the library's.
PrepareInput ==
  /\ At("prepare")
  /\ Goto("detect") \/ Return("AdapterError") \/ Return("raised")
  /\ UNCHANGED screening

\* Broken variant of RunAllRaises: what run_all raises is taken for no finding.
RunAllRaisesUnseen ==
  /\ At("detect")
  /\ screening' = [screening EXCEPT !.failed = TRUE] /\ Goto("type")

\* run_all raises: no findings, and a detector error.
RunAllRaises ==
  /\ At("detect")
  /\ screening' = [screening EXCEPT !.failed = TRUE, !.error = TRUE] /\ Goto("type")

\* run_all returns findings and its own detector_error, or something else.
RunAllReturns ==
  /\ At("detect")
  /\ \/ \E failed \in BOOLEAN:
          /\ screening' = [screening EXCEPT !.failed = failed, !.error = failed]
          /\ Goto("type")
     \/ Return("AdapterError") /\ UNCHANGED screening

\* There is no run_all, or it does not take the arguments.
RunAllUnusable == At("detect") /\ Goto("each") /\ UNCHANGED screening

\* _run_each_detector: a detector that raises is passed over, and remembered.
RunEachDetector ==
  /\ At("each")
  /\ \E failed \in BOOLEAN:
       screening' = [screening EXCEPT !.failed = failed, !.error = failed]
  /\ Goto("type")

\* _typed_arg: Provenance and Affiliation may lack every member looked for.
TypeArguments ==
  /\ At("type")
  /\ Goto("decide") \/ Return("AdapterError")
  /\ UNCHANGED screening

\* The last two attempts of _invoke_policy_decide leave out the extras, with
\* detector_error among them.
Extras(attempt) == attempt <= 4

\* _call_compatible drops a named argument the signature does not have, and
\* cannot call one whose required argument is not given.
Tells(attempt, signature) == Extras(attempt) /\ signature # "absent"
Callable(attempt, signature) == Extras(attempt) \/ signature # "required"

\* Broken variant of DecideTypeError: one attempt too many.
DecideTypeErrorOneMore ==
  /\ At("decide")
  /\ IF screening.attempt > Attempts
     THEN Return("AdapterError") /\ UNCHANGED screening
     ELSE /\ screening' = [screening EXCEPT !.attempt = @ + 1]
          /\ UNCHANGED call

\* _invoke_policy_decide: a TypeError leads to the next attempt.
DecideTypeError ==
  /\ At("decide")
  /\ IF screening.attempt = Attempts
     THEN Return("AdapterError") /\ UNCHANGED screening
     ELSE /\ screening' = [screening EXCEPT !.attempt = @ + 1]
          /\ UNCHANGED call

DecideRaises == At("decide") /\ Return("raised") /\ UNCHANGED screening

Decisions == {"allow", "reject", "review", "unknown", "none"}
Risks == {"high", "medium", "low", "unknown", "none"}

\* _map_decision: a known word decides; then the risk; then it is REJECT.
MapDecision(decision, risk) ==
  CASE decision = "allow" -> "ALLOW"
    [] decision = "reject" -> "REJECT"
    [] decision = "review" -> "REVIEW"
    [] decision \in {"unknown", "none"} /\ risk = "medium" -> "REVIEW"
    [] decision = "none" /\ risk = "low" -> "ALLOW"
    [] OTHER -> "REJECT"

\* decide returns nothing, or an object with none of the fields looked for.
DecideReturnsNoVerdict ==
  /\ At("decide") /\ Return("AdapterError") /\ UNCHANGED screening

DecideReturns(signature, decision, risk) ==
  /\ At("decide") /\ Callable(screening.attempt, signature)
  /\ screening' =
       [screening EXCEPT !.told = Tells(screening.attempt, signature) /\ screening.error,
                         !.decision = decision, !.risk = risk]
  /\ Return(MapDecision(decision, risk))

LibraryScreen ==
  \/ PrepareInput
  \/ RunAllRaises \/ RunAllReturns \/ RunAllUnusable \/ RunEachDetector
  \/ TypeArguments
  \/ DecideTypeError \/ DecideRaises \/ DecideReturnsNoVerdict
  \/ \E signature \in Signatures, decision \in Decisions, risk \in Risks:
       DecideReturns(signature, decision, risk)

-----------------------------------------------------------------------------
\* Sentinel fails closed (sentinel.py:484, 817): the library allowed an
\* artifact only if its policy said so, by a word or by a low risk and no word,
\* and knew of it when a detector had failed.
FailsClosed ==
  At("returned") /\ call.value = "ALLOW" /\ screening.decision # "unasked" =>
    /\ \/ screening.decision = "allow"
       \/ screening.decision = "none" /\ screening.risk = "low"
    /\ screening.failed => screening.told

=============================================================================
