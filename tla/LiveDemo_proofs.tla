--------------------------- MODULE LiveDemo_proofs ---------------------------
(***************************************************************************)
(* Theorems about LiveDemo for every choice of its constants: any limit of *)
(* Scout's ranking, any signatures of the library.  They hold without the  *)
(* fairness of the demo's specification, which only its ending is about.   *)
(***************************************************************************)
EXTENDS LiveDemo, TLAPS

-----------------------------------------------------------------------------
(* The inductive invariant: the call under way, and the demo around it. *)

\* The steps of the adapters' calls, and what a call may return.
CallSteps ==
  {"none", "returned", "prepare", "detect", "each", "type", "decide",
   "jsonl", "projection", "projection query", "feed", "feed child",
   "warehouse", "warehouse query", "router", "router child", "bench", "bench child"}
Values ==
  {"none", "AdapterError", "raised", "ALLOW", "REVIEW", "REJECT", "records",
   "selects", "other plan", "PASS", "FAIL", "PARTIAL"}

CallType == call \in [step : CallSteps, value : Values]

\* The query: a statement that executes has not been cut off, and one that
\* reads evidence has a party left to read.
Querying ==
  /\ QueryTypeOK
  /\ Executing => ~query.cutOff
  /\ query.at = "evidence" => query.left # 0
  /\ CutOffIsNoAnswer

\* The screen: the adapter remembers every detector that failed, and decide has
\* been asked only when its answer is the call's.
Screening ==
  /\ screening \in [failed : BOOLEAN, error : BOOLEAN, told : BOOLEAN,
                    attempt : 1..Attempts, decision : Decisions \cup {"unasked"},
                    risk : Risks \cup {"unasked"}]
  /\ screening.error = screening.failed
  /\ screening.decision # "unasked" =>
       /\ At("returned") /\ call.value = MapDecision(screening.decision, screening.risk)
       /\ Signatures = {"required"} => screening.told = screening.error

Asking == CallType /\ Querying /\ Screening

\* The demo's own variables.
DemoType ==
  /\ stage \in {"configure", "doctor", "prefer", "open", "post", "find", "offer", "route",
                "accept", "result", "verify", "settle", "report", "ended"}
  /\ dir \in Dirs
  /\ local \subseteq requested /\ present \subseteq requested
  /\ requested \subseteq Adapters
  /\ noted \subseteq Adapters /\ errors \subseteq failed
  /\ failed \subseteq requested
  /\ doctor \in {None, "ok", "not ok"}
  /\ exit \in {0, 1, 2}
  /\ verdicts \subseteq Verdicts

\* The status of the job, and the verdicts given, by what the demo is about to do.
Before == {"configure", "doctor", "prefer", "open", "post"}
Preparing == {"configure", "doctor", "prefer"}

Progress ==
  /\ stage \in Before => status = "ABSENT"
  /\ stage \in {"find", "offer"} => status = "POSTED"
  /\ stage \in {"route", "accept"} => status = "OFFERED"
  /\ stage = "result" => status = "ACCEPTED"
  /\ stage = "verify" => status = "RESULT_SUBMITTED"
  /\ stage = "settle" => status \in {"VERIFIED", "FAILED"}
  /\ stage = "report" => status = "COMPLETED"
  /\ stage \notin {"settle", "report", "ended"} => verdicts = {}
  /\ status \in {"VERIFIED", "COMPLETED"} => verdicts = {"PASS"}

\* The failures kept, the identity and the exit code.
Ending ==
  /\ stage # "ended" => errors = failed
  /\ stage \notin Preparing \cup {"open", "ended"} => dir \in {"pair", "metadata only", "mismatched"}
  /\ stage = "report" => dir \in {"pair", "mismatched"}
  /\ SuccessIsHonest

\* The notes, and what doctor had found.
Noting ==
  /\ stage = "configure" => requested = {}
  /\ stage \notin Preparing \cup {"ended"} \/ status # "ABSENT" => requested \ local \subseteq noted
  /\ stage \in {"configure", "doctor"} => doctor = None
  /\ stage = "prefer" /\ doctor = "ok" => requested \subseteq present /\ dir # "sibling"
  /\ DoctorWarns

Story == DemoType /\ Progress /\ Ending /\ Noting

-----------------------------------------------------------------------------
(* A call and its answer. *)

LEMMA GoingOn ==
  ASSUME CallType, NEW step \in CallSteps, Goto(step)
  PROVE  CallType' /\ call'.step = step /\ call'.value = call.value
BY DEF CallType, Goto

LEMMA Returning ==
  ASSUME NEW value \in Values, Return(value)
  PROVE  CallType' /\ call'.step = "returned" /\ call'.value = value
BY DEF CallType, Return, CallSteps

\* What a step other than the library's does to the call and the screen.
Turns ==
  \/ /\ ~At("returned") /\ UNCHANGED screening
     /\ (\E step \in CallSteps: Goto(step)) \/ (\E value \in Values: Return(value))
  \/ UNCHANGED <<call, screening>>
  \/ call' = NoCall /\ screening' = NoScreening

LEMMA TurnsKeep ==
  ASSUME CallType, Screening, Turns
  PROVE  CallType' /\ Screening'
<1>1. CASE ~At("returned") /\ UNCHANGED screening /\ \E step \in CallSteps: Goto(step)
  BY <1>1, GoingOn DEF Screening, At
<1>2. CASE ~At("returned") /\ UNCHANGED screening /\ \E value \in Values: Return(value)
  BY <1>2, Returning DEF Screening, At
<1>3. CASE UNCHANGED <<call, screening>>
  BY <1>3 DEF CallType, Screening, At
<1>4. CASE call' = NoCall /\ screening' = NoScreening
  <2>1. PICK no \in BOOLEAN: no = FALSE
    OBVIOUS
  <2>2. screening' = [failed |-> no, error |-> no, told |-> no, attempt |-> 1,
                      decision |-> "unasked", risk |-> "unasked"]
    BY <1>4, <2>1 DEF NoScreening
  <2>3. Screening'
    BY <2>2 DEF Screening, Attempts
  <2> QED
    BY <1>4, <2>3 DEF CallType, CallSteps, Values, NoCall
<1> QED
  BY <1>1, <1>2, <1>3, <1>4 DEF Turns

\* What a step does to the query.
QueryTurns ==
  \/ UNCHANGED query \/ query' = NoQuery \/ OpenDatabase
  \/ DeadlinePasses \/ TimerFires \/ HandlerAborts
  \/ RankingEnds \/ EvidenceEnds \/ CloseDatabase

\* The values of the query, by their names.
Ats == {"none", "ranking", "evidence", "closing", "closed"}
Results == {"none", "records", "AdapterError"}
Lefts == 0..MaxRows
Timers == {"off", "armed", "due", "fired"}
Query == [at : Ats, value : Results, left : Lefts, timer : Timers, cutOff : BOOLEAN]

LEMMA QueryTypes == QueryTypeOK <=> query \in Query
BY DEF QueryTypeOK, Query, Ats, Results, Lefts, Timers

LEMMA QueryTypesNext == QueryTypeOK' <=> query' \in Query
BY DEF QueryTypeOK, Query, Ats, Results, Lefts, Timers

LEMMA NoQueryType ==
  /\ NoQuery.at = "none" /\ NoQuery.value = "none" /\ NoQuery.cutOff = FALSE
  /\ NoQuery \in Query
<1>1. PICK no \in BOOLEAN: no = FALSE
  OBVIOUS
<1>2. NoQuery = [at |-> "none", value |-> "none", left |-> 0, timer |-> "off", cutOff |-> no]
  BY <1>1 DEF NoQuery
<1>3. 0 \in Lefts
  BY MaxRowsAssumption DEF Lefts
<1> QED
  BY <1>1, <1>2, <1>3 DEF Query, Ats, Results, Timers

\* A query that is another one in these fields only.
LEMMA QueryBecomes ==
  ASSUME query \in Query,
         NEW at \in Ats, NEW value \in Results, NEW left \in Lefts, NEW timer \in Timers,
         NEW cutOff \in BOOLEAN,
         query' = [at |-> at, value |-> value, left |-> left, timer |-> timer,
                   cutOff |-> cutOff],
         cutOff => at \notin {"ranking", "evidence"} /\ value # "records",
         at = "evidence" => left # 0
  PROVE  Querying'
<1>1. query' \in Query
  BY DEF Query
<1>2. query'.at = at /\ query'.value = value /\ query'.left = left /\ query'.cutOff = cutOff
  OBVIOUS
<1> QED
  BY <1>1, <1>2, QueryTypesNext DEF Querying, Executing, CutOffIsNoAnswer

LEMMA QueryTurnsKeep ==
  ASSUME Querying, QueryTurns
  PROVE  Querying'
<1>1. query \in Query
  BY QueryTypes DEF Querying
<1>2. PICK at \in Ats, value \in Results, left \in Lefts, timer \in Timers, cutOff \in BOOLEAN:
        query = [at |-> at, value |-> value, left |-> left, timer |-> timer, cutOff |-> cutOff]
  BY <1>1 DEF Query
<1>3. /\ cutOff => at \notin {"ranking", "evidence"} /\ value # "records"
      /\ at = "evidence" => left # 0
  BY <1>2 DEF Querying, Executing, CutOffIsNoAnswer
<1>4. 0 \in Lefts /\ \A n \in Lefts \ {0}: n - 1 \in Lefts
  BY MaxRowsAssumption DEF Lefts
<1>5. PICK yes \in BOOLEAN: yes = TRUE
  OBVIOUS
<1>6. CASE UNCHANGED query
  BY <1>1, <1>2, <1>3, <1>6, QueryBecomes
<1>7. CASE query' = NoQuery
  BY <1>7, NoQueryType, QueryTypesNext DEF Querying, Executing, CutOffIsNoAnswer
<1>8. CASE OpenDatabase
  <2>1. query' \in Query
    BY <1>8, NoQueryType DEF OpenDatabase, Query, Ats, Results, Timers
  <2>2. query'.cutOff = FALSE /\ query'.at # "evidence"
    BY <1>8, NoQueryType DEF OpenDatabase, Query
  <2> QED
    BY <2>1, <2>2, QueryTypesNext DEF Querying, CutOffIsNoAnswer
<1>9. CASE DeadlinePasses
  <2>1. query' = [at |-> at, value |-> value, left |-> left, timer |-> "due", cutOff |-> cutOff]
    BY <1>2, <1>9 DEF DeadlinePasses
  <2>2. "due" \in Timers
    BY DEF Timers
  <2> QED
    BY <1>1, <1>3, <2>1, <2>2, QueryBecomes
<1>10. CASE TimerFires \/ HandlerAborts
  <2>1. \/ query' = [at |-> "closing", value |-> "AdapterError", left |-> left,
                     timer |-> "fired", cutOff |-> yes]
        \/ query' = [at |-> at, value |-> value, left |-> left,
                     timer |-> "fired", cutOff |-> cutOff]
        \/ query' = [at |-> "closing", value |-> "AdapterError", left |-> left,
                     timer |-> timer, cutOff |-> yes]
    BY <1>2, <1>5, <1>10 DEF TimerFires, HandlerAborts, CutOff
  <2>2. "closing" \in Ats /\ "AdapterError" \in Results /\ "fired" \in Timers
    BY DEF Ats, Results, Timers
  <2> QED
    BY <1>1, <1>3, <2>1, <2>2, QueryBecomes
<1>11. CASE RankingEnds
  <2>1. at = "ranking"
    BY <1>2, <1>11 DEF RankingEnds
  <2>2. \/ \E n \in Lefts \ {0}:
             query' = [at |-> "evidence", value |-> value, left |-> n, timer |-> timer,
                       cutOff |-> cutOff]
        \/ \E result \in {"records", "AdapterError"}:
             query' = [at |-> "closing", value |-> result, left |-> left, timer |-> timer,
                       cutOff |-> cutOff]
    <3>1. \A n \in 1..MaxRows: n \in Lefts \ {0}
      BY MaxRowsAssumption DEF Lefts
    <3> QED
      BY <1>2, <1>11, <3>1 DEF RankingEnds
  <2>3. {"closing", "evidence"} \subseteq Ats /\ {"records", "AdapterError"} \subseteq Results
    BY DEF Ats, Results
  <2> QED
    BY <1>1, <1>3, <2>1, <2>2, <2>3, QueryBecomes
<1>12. CASE EvidenceEnds
  <2>1. at = "evidence"
    BY <1>2, <1>12 DEF EvidenceEnds
  <2>2. \/ query' = [at |-> "closing", value |-> "records", left |-> 0, timer |-> timer,
                     cutOff |-> cutOff]
        \/ /\ query' = [at |-> "evidence", value |-> value, left |-> left - 1,
                        timer |-> timer, cutOff |-> cutOff]
           /\ left # 1
    BY <1>2, <1>12 DEF EvidenceEnds
  <2>3. left # 1 => left - 1 \in Lefts /\ left - 1 # 0
    BY <1>3, <1>4, <2>1, MaxRowsAssumption DEF Lefts
  <2>4. {"closing", "evidence"} \subseteq Ats /\ "records" \in Results
    BY DEF Ats, Results
  <2>5. CASE query' = [at |-> "closing", value |-> "records", left |-> 0, timer |-> timer,
                       cutOff |-> cutOff]
    BY <1>1, <1>3, <1>4, <2>1, <2>4, <2>5, QueryBecomes
  <2>6. CASE /\ query' = [at |-> "evidence", value |-> value, left |-> left - 1,
                          timer |-> timer, cutOff |-> cutOff]
             /\ left # 1
    <3>1. PICK n \in Lefts: n = left - 1 /\ n # 0
      BY <2>3, <2>6
    <3> QED
      BY <1>1, <1>3, <2>1, <2>4, <2>6, <3>1, QueryBecomes
  <2> QED
    BY <2>2, <2>5, <2>6
<1>13. CASE CloseDatabase
  <2>1. PICK off \in Timers:
          query' = [at |-> "closed", value |-> value, left |-> 0, timer |-> off,
                    cutOff |-> cutOff]
    BY <1>2, <1>13 DEF CloseDatabase, Timers
  <2>2. at = "closing" /\ "closed" \in Ats
    BY <1>2, <1>13 DEF CloseDatabase, Ats
  <2> QED
    BY <1>1, <1>3, <1>4, <2>1, <2>2, QueryBecomes
<1> QED
  BY <1>6, <1>7, <1>8, <1>9, <1>10, <1>11, <1>12, <1>13 DEF QueryTurns

(* The adapters. *)

LEMMA ScoutTurns ==
  ASSUME ScoutStep, UNCHANGED screening
  PROVE  Turns /\ QueryTurns
<1> USE DEF At, Turns, QueryTurns, CallSteps, Values
<1>1. CASE ReadEvidenceJsonl
  BY <1>1 DEF ReadEvidenceJsonl, JsonlFiles
<1>2. CASE TryProjection
  BY <1>2 DEF TryProjection, TryDatabase
<1>3. CASE TakeProjection
  BY <1>3 DEF TakeProjection, TakeQuery
<1>4. CASE TryFeed
  BY <1>4 DEF TryFeed, StartChild
<1>5. CASE TakeFeed
  BY <1>5 DEF TakeFeed
<1>6. CASE TryWarehouse
  BY <1>6 DEF TryWarehouse, TryDatabase
<1>7. CASE TakeWarehouse
  BY <1>7 DEF TakeWarehouse, TakeQuery
<1> QED
  BY <1>1, <1>2, <1>3, <1>4, <1>5, <1>6, <1>7 DEF ScoutStep

\* A plan selects the demo's offer, or is another plan.
LEMMA PlansAre == Plans \subseteq {"selects", "other plan"}
<1>1. \A plan \in Plans: \E q \in Qualifications, w \in Workers: plan = MapRouterDecision(q, w)
  BY DEF Plans
<1>2. \A q, w: MapRouterDecision(q, w) = "selects" \/ MapRouterDecision(q, w) = "other plan"
  BY DEF MapRouterDecision
<1> QED
  BY <1>1, <1>2

LEMMA ProcessTurns ==
  ASSUME StartRouter \/ TakePlan \/ StartBench \/ TakeVerdict, UNCHANGED screening
  PROVE  Turns
<1> USE DEF At, Turns, CallSteps, Values
<1>1. CASE StartRouter
  BY <1>1 DEF StartRouter, StartChild
<1>2. CASE TakePlan
  BY <1>2, PlansAre DEF TakePlan
<1>3. CASE StartBench
  BY <1>3 DEF StartBench, StartChild
<1>4. CASE TakeVerdict
  BY <1>4 DEF TakeVerdict
<1> QED
  BY <1>1, <1>2, <1>3, <1>4

\* An adapter is asked, and its answer taken, by the main thread.
LEMMA AskTurns ==
  ASSUME NEW a, NEW first \in CallSteps, NEW stub \in Values, Ask(a, first, stub)
  PROVE  Turns /\ UNCHANGED query
BY DEF Ask, At, Turns

LEMMA AnsweredTurns ==
  ASSUME NEW values, Answered(values)
  PROVE  Turns /\ UNCHANGED <<query, setup>>
BY DEF Answered, Turns

\* The library's screen: no word of its verdict before decide has returned.
LEMMA LibraryKeeps ==
  ASSUME CallType, Screening, LibraryScreen
  PROVE  CallType' /\ Screening'
<1>1. screening.decision = "unasked"
  BY DEF LibraryScreen, PrepareInput, RunAllRaises, RunAllReturns, RunAllUnusable,
         RunEachDetector, TypeArguments, DecideTypeError, DecideRaises,
         DecideReturnsNoVerdict, DecideReturns, At, Screening
<1>2. CASE \/ PrepareInput \/ RunAllUnusable \/ TypeArguments \/ DecideRaises
           \/ DecideReturnsNoVerdict
  <2>1. Turns
    BY <1>2 DEF PrepareInput, RunAllUnusable, TypeArguments, DecideRaises,
                DecideReturnsNoVerdict, Turns, At, CallSteps, Values
  <2> QED
    BY <2>1, TurnsKeep
<1>3. ASSUME NEW failed2 \in BOOLEAN,
             screening' = [screening EXCEPT !.failed = failed2, !.error = failed2],
             Goto("type")
      PROVE  CallType' /\ Screening'
  <2>1. CallType'
    BY <1>3, GoingOn DEF CallSteps
  <2>2. Screening'
    BY <1>1, <1>3 DEF Screening
  <2> QED
    BY <2>1, <2>2
<1>4. CASE RunAllRaises \/ RunEachDetector
  BY <1>3, <1>4 DEF RunAllRaises, RunEachDetector
<1>5. CASE RunAllReturns
  <2>1. CASE Return("AdapterError") /\ UNCHANGED screening
    <3>1. Turns
      BY <1>5, <2>1 DEF RunAllReturns, Turns, At, Values
    <3> QED
      BY <3>1, TurnsKeep
  <2> QED
    BY <1>3, <1>5, <2>1 DEF RunAllReturns
<1>6. CASE DecideTypeError
  <2>1. CASE screening.attempt = Attempts
    <3>1. Turns
      BY <1>6, <2>1 DEF DecideTypeError, Turns, At, Values
    <3> QED
      BY <3>1, TurnsKeep
  <2>2. CASE screening.attempt # Attempts
    BY <1>1, <1>6, <2>2 DEF DecideTypeError, CallType, Screening, Attempts
  <2> QED
    BY <2>1, <2>2
<1>7. ASSUME NEW signature \in Signatures, NEW decision \in Decisions, NEW risk \in Risks,
             DecideReturns(signature, decision, risk)
      PROVE  CallType' /\ Screening'
  <2>1. MapDecision(decision, risk) \in Values
    BY DEF MapDecision, Values
  <2>2. PICK value \in Values: value = MapDecision(decision, risk) /\ Return(value)
    BY <1>7, <2>1 DEF DecideReturns
  <2>3. CallType' /\ call'.step = "returned" /\ call'.value = value
    BY <2>2, Returning
  <2>4. PICK told \in BOOLEAN:
          /\ told = (Tells(screening.attempt, signature) /\ screening.error)
          /\ screening' = [screening EXCEPT !.told = told, !.decision = decision, !.risk = risk]
    BY <1>7 DEF DecideReturns
  <2>5. Signatures = {"required"} => told = screening.error
    <3> SUFFICES ASSUME Signatures = {"required"} PROVE told = screening.error
      OBVIOUS
    <3>1. signature = "required"
      OBVIOUS
    <3>2. Extras(screening.attempt)
      BY <1>7, <3>1 DEF DecideReturns, Callable
    <3>3. Tells(screening.attempt, signature) = TRUE
      BY <3>1, <3>2 DEF Tells
    <3>4. screening.error \in BOOLEAN
      BY DEF Screening
    <3> QED
      BY <2>4, <3>3, <3>4, Zenon
  <2>6. /\ screening'.decision = decision /\ screening'.risk = risk /\ screening'.told = told
        /\ screening'.error = screening.error /\ screening'.failed = screening.failed
        /\ screening'.attempt = screening.attempt
        /\ screening' \in [failed : BOOLEAN, error : BOOLEAN, told : BOOLEAN,
                           attempt : 1..Attempts, decision : Decisions \cup {"unasked"},
                           risk : Risks \cup {"unasked"}]
    BY <2>4 DEF Screening
  <2>7. Screening'
    BY <2>2, <2>3, <2>5, <2>6 DEF Screening, At
  <2> QED
    BY <2>3, <2>7
<1> QED
  BY <1>2, <1>4, <1>5, <1>6, <1>7 DEF LibraryScreen

\* Every step leaves the call, the query and the screen in order.
LEMMA NextAsks ==
  ASSUME Asking, [Next]_vars
  PROVE  Asking'
<1>1. Turns /\ QueryTurns => Asking'
  BY TurnsKeep, QueryTurnsKeep DEF Asking
<1>2. UNCHANGED answer => Turns /\ QueryTurns
  BY DEF answer, Turns, QueryTurns
<1>3. CASE MainThread
  <2>1. CASE \/ Configure \/ Doctor \/ NoDoctor \/ PreferLocal \/ ProbeRaises \/ OpenExchange
             \/ Settle \/ Report
    BY <1>1, <1>2, <2>1
    DEF Configure, Doctor, NoDoctor, PreferLocal, ProbeRaises, OpenExchange, Settle, Report
  <2>2. CASE AskSentinel \/ AskScout \/ AskRouter \/ AskBench
    <3>1. /\ {"prepare", "jsonl", "router", "bench"} \subseteq CallSteps
          /\ {StubScreen({}), "records", "selects", StubVerdict(TRUE)} \subseteq Values
      BY DEF CallSteps, Values, StubScreen, StubVerdict
    <3>2. Turns /\ UNCHANGED query
      BY <2>2, <3>1, AskTurns DEF AskSentinel, AskScout, AskRouter, AskBench
    <3> QED
      BY <1>1, <3>2 DEF QueryTurns
  <2>3. CASE \/ PostJob \/ FindCandidates \/ SubmitOffer \/ RouteJob \/ AcceptOffer
             \/ SubmitResult \/ Verify
    <3>1. \E values: Answered(values)
      BY <2>3
      DEF PostJob, FindCandidates, SubmitOffer, RouteJob, AcceptOffer, SubmitResult, Verify,
          ScreenedStep
    <3> QED
      BY <1>1, <3>1, AnsweredTurns DEF QueryTurns
  <2>4. CASE ScoutStep /\ UNCHANGED <<screening, demo>>
    BY <1>1, <2>4, ScoutTurns
  <2>5. CASE CloseDatabase /\ UNCHANGED <<call, child, screening, demo>>
    BY <1>1, <2>5 DEF Turns, QueryTurns
  <2>6. CASE (StartRouter \/ TakePlan \/ StartBench \/ TakeVerdict)
               /\ UNCHANGED <<query, screening, demo>>
    BY <1>1, <2>6, ProcessTurns DEF QueryTurns
  <2> QED
    BY <1>3, <2>1, <2>2, <2>3, <2>4, <2>5, <2>6 DEF MainThread
<1>4. CASE Library
  <2>1. CallType' /\ Screening'
    BY <1>4, LibraryKeeps DEF Library, Asking
  <2> QED
    BY <1>4, <2>1, QueryTurnsKeep DEF Library, Asking, QueryTurns
<1>5. CASE ProcessEnds \/ ProcessTimesOut
  BY <1>1, <1>5
  DEF ProcessEnds, ProcessTimesOut, FeedExits, RouterExits, BenchExits, ChildTimesOut,
      ChildExits, Turns, QueryTurns
<1>6. CASE StatementEnds \/ TimerRuns \/ StatementAborts
  BY <1>1, <1>6 DEF StatementEnds, TimerRuns, StatementAborts, Turns, QueryTurns
<1>7. CASE UNCHANGED vars
  BY <1>1, <1>2, <1>7 DEF vars
<1> QED
  BY <1>3, <1>4, <1>5, <1>6, <1>7 DEF Next

-----------------------------------------------------------------------------
(* The demo. *)

LEMMA StayingKeepsStory ==
  ASSUME Story, UNCHANGED demo
  PROVE  Story'
<1>1. UNCHANGED <<stage, exit, dir, requested, present, doctor, local, noted, errors, failed,
                  status, verdicts>>
  BY DEF demo, setup, notes, job
<1>2. DemoType'
  BY <1>1 DEF Story, DemoType
<1>3. Progress'
  BY <1>1 DEF Story, Progress
<1>4. Ending'
  BY <1>1 DEF Story, Ending, SuccessIsHonest
<1>5. Noting'
  BY <1>1 DEF Story, Noting, DoctorWarns
<1> QED
  BY <1>2, <1>3, <1>4, <1>5 DEF Story

\* An exception ends a demo that has no receipt.
LEMMA EscapesKeeps ==
  ASSUME Story, NEW a, Escapes(a), UNCHANGED setup,
         stage \notin Preparing \cup {"open", "settle", "report", "ended"}
  PROVE  Story'
<1>1. /\ stage' = "ended" /\ exit' = 1 /\ failed' = failed \cup Failing(a)
      /\ UNCHANGED <<dir, requested, present, doctor, local, noted, errors, status, paid, verdicts>>
  BY DEF Escapes, End, setup, job
<1>2. Failing(a) \subseteq local
  BY DEF Failing
<1>3. DemoType'
  BY <1>1, <1>2 DEF Story, DemoType
<1>4. Progress'
  BY <1>1 DEF Story, Progress, Before
<1>5. status # "COMPLETED"
  BY DEF Story, DemoType, Progress, Before, Preparing
<1>6. Ending'
  BY <1>1, <1>5 DEF Ending, SuccessIsHonest
<1>7. Noting'
  BY <1>1 DEF Story, Noting, DoctorWarns
<1> QED
  BY <1>3, <1>4, <1>6, <1>7 DEF Story

\* A stub that takes over is noted.
LEMMA FallbackKeeps ==
  ASSUME Story, NEW a \in Adapters, Fallback(a), UNCHANGED <<setup, status, verdicts>>,
         stage \notin Preparing \cup {"open", "report", "ended"}
  PROVE  Story'
<1>1. /\ failed' = failed \cup Failing(a) /\ errors' = errors \cup Failing(a)
      /\ noted' = noted \cup {a} /\ local' = local \ {a}
      /\ UNCHANGED <<stage, exit, dir, requested, present, doctor, status, verdicts>>
  BY DEF Fallback, setup
<1>2. Failing(a) \subseteq local
  BY DEF Failing
<1>3. DemoType'
  BY <1>1, <1>2 DEF Story, DemoType
<1>4. Progress'
  BY <1>1 DEF Story, Progress, Before
<1>5. Ending'
  BY <1>1 DEF Story, Ending, SuccessIsHonest
<1>6. Noting'
  BY <1>1 DEF Story, Noting, DoctorWarns, Preparing
<1> QED
  BY <1>3, <1>4, <1>5, <1>6 DEF Story

\* A demo that ends with exit code 1 has no receipt.
LEMMA FailingEnds ==
  ASSUME stage' = "ended", exit' = 1, status' # "COMPLETED"
  PROVE  Ending'
BY DEF Ending, SuccessIsHonest

(* Before the job. *)

LEMMA ConfigureKeeps ==
  ASSUME Story, Configure
  PROVE  Story'
<1>1. /\ stage = "configure" /\ requested = {} /\ local = {} /\ present = {} /\ failed = {}
      /\ errors = {}
  BY DEF Configure, Story, Noting, DemoType
<1>2. /\ UNCHANGED <<local, noted, errors, failed, status, verdicts, dir, doctor>>
      /\ \/ /\ stage' = "doctor" /\ exit' = exit
            /\ requested' \subseteq Adapters /\ present' \subseteq requested'
         \/ /\ stage' = "ended" /\ exit' = 1 /\ UNCHANGED <<requested, present>>
  BY DEF Configure, Proceed, End, notes, job
<1>3. DemoType'
  BY <1>1, <1>2 DEF Story, DemoType
<1>4. Progress'
  BY <1>1, <1>2 DEF Story, Progress, Before
<1>5. Ending'
  <2>1. CASE stage' = "doctor"
    BY <1>1, <1>2, <2>1 DEF Ending, SuccessIsHonest, Preparing
  <2>2. CASE stage' = "ended"
    BY <1>1, <1>2, <2>2, FailingEnds DEF Story, Progress, Before
  <2> QED
    BY <1>2, <2>1, <2>2
<1>6. Noting'
  BY <1>1, <1>2 DEF Story, Noting, DoctorWarns, Preparing, Progress, Before
<1> QED
  BY <1>3, <1>4, <1>5, <1>6 DEF Story

LEMMA DoctorKeeps ==
  ASSUME Story, Doctor \/ NoDoctor
  PROVE  Story'
<1>1. /\ stage = "doctor" /\ stage' = "prefer"
      /\ UNCHANGED <<local, noted, errors, failed, status, verdicts, dir, requested, present, exit>>
      /\ doctor' \in {None, "ok", "not ok"}
      /\ doctor' = "ok" => requested \subseteq present /\ dir # "sibling"
  <2>1. CASE Doctor
    BY <2>1 DEF Doctor, Proceed, notes, job, AdapterCheck, Story, DemoType, None
  <2>2. CASE NoDoctor
    BY <2>2 DEF NoDoctor, Proceed, notes, job, setup, Story, DemoType, Noting, None
  <2> QED
    BY <2>1, <2>2
<1>2. DemoType'
  BY <1>1 DEF Story, DemoType
<1>3. Progress'
  BY <1>1 DEF Story, Progress, Before
<1>4. Ending'
  BY <1>1 DEF Story, Ending, SuccessIsHonest, Preparing
<1>5. Noting'
  BY <1>1 DEF Story, Noting, DoctorWarns, Preparing, Progress, Before
<1> QED
  BY <1>2, <1>3, <1>4, <1>5 DEF Story

LEMMA PreferKeeps ==
  ASSUME Story, PreferLocal \/ ProbeRaises
  PROVE  Story'
<1>1. stage = "prefer" /\ status = "ABSENT"
  BY DEF PreferLocal, ProbeRaises, Story, Progress, Before
<1>2. CASE PreferLocal
  <2>1. /\ stage' = "open" /\ local' = present /\ noted' = requested \ present
        /\ UNCHANGED <<errors, failed, status, verdicts, dir, requested, present, doctor, exit>>
    BY <1>2 DEF PreferLocal, Proceed, job, setup
  <2>2. DemoType'
    BY <2>1 DEF Story, DemoType
  <2>3. Progress'
    BY <1>1, <2>1 DEF Story, Progress, Before
  <2>4. Ending'
    BY <1>1, <2>1 DEF Story, Ending, SuccessIsHonest
  <2>5. Noting'
    BY <1>1, <2>1 DEF Story, Noting, DoctorWarns
  <2> QED
    BY <2>2, <2>3, <2>4, <2>5 DEF Story
<1>3. CASE ProbeRaises
  <2>1. /\ stage' = "ended" /\ exit' = 1
        /\ UNCHANGED <<local, noted, errors, failed, status, verdicts, dir, requested, present, doctor>>
    BY <1>3 DEF ProbeRaises, End, notes, job, setup
  <2>2. DemoType'
    BY <2>1 DEF Story, DemoType
  <2>3. Progress'
    BY <1>1, <2>1 DEF Story, Progress, Before
  <2>4. Ending'
    BY <1>1, <2>1, FailingEnds
  <2>5. Noting'
    BY <1>1, <2>1 DEF Story, Noting, DoctorWarns
  <2> QED
    BY <2>2, <2>3, <2>4, <2>5 DEF Story
<1> QED
  BY <1>2, <1>3

LEMMA OpenKeeps ==
  ASSUME Story, OpenExchange
  PROVE  Story'
<1>1. /\ stage = "open" /\ status = "ABSENT"
      /\ requested \ local \subseteq noted /\ errors = failed /\ verdicts = {}
  BY DEF OpenExchange, Story, Progress, Before, Ending, Noting, Preparing
<1>2. /\ present' = {} /\ doctor' = None
      /\ UNCHANGED <<local, noted, errors, failed, status, verdicts, requested>>
  BY DEF OpenExchange, notes, job
<1>3. \/ stage' = "ended" /\ exit' = 1 /\ dir' = dir
      \/ stage' = "post" /\ exit' = exit /\ dir' \in {"pair", "metadata only", "mismatched"}
  BY DEF OpenExchange, Proceed, End, Dirs, Story, DemoType
<1>4. DemoType'
  BY <1>2, <1>3 DEF Story, DemoType, Dirs
<1>5. Progress'
  BY <1>1, <1>2, <1>3 DEF Progress, Before
<1>6. Ending'
  <2>1. CASE stage' = "ended"
    BY <1>1, <1>2, <1>3, <2>1, FailingEnds
  <2>2. CASE stage' = "post"
    BY <1>1, <1>2, <1>3, <2>2 DEF Ending, SuccessIsHonest
  <2> QED
    BY <1>3, <2>1, <2>2
<1>7. Noting'
  BY <1>1, <1>2, <1>3 DEF Noting, DoctorWarns
<1> QED
  BY <1>4, <1>5, <1>6, <1>7 DEF Story

(* The job. *)

\* The demo goes on to another of its stages; the rest of it stays.
LEMMA ProceedKeeps ==
  ASSUME Story, stage \notin Preparing \cup {"open", "settle", "report", "ended"},
         NEW next \in {"find", "offer", "route", "accept", "result", "verify", "settle"},
         Proceed(next), UNCHANGED <<setup, notes>>,
         verdicts' \subseteq Verdicts, Progress'
  PROVE  Story'
<1>1. /\ stage' = next
      /\ UNCHANGED <<exit, dir, requested, present, doctor, local, noted, errors, failed>>
  BY DEF Proceed, setup, notes
<1>2. DemoType'
  BY <1>1 DEF Story, DemoType
<1>3. Ending'
  BY <1>1 DEF Story, Ending, SuccessIsHonest
<1>4. Noting'
  BY <1>1 DEF Story, Noting, DoctorWarns, Preparing
<1> QED
  BY <1>2, <1>3, <1>4 DEF Story

LEMMA ScreenedKeeps ==
  ASSUME Story, PostJob \/ SubmitOffer \/ SubmitResult
  PROVE  Story'
<1>1. ASSUME NEW artifact, NEW becomes, NEW next, ScreenedStep(artifact, becomes, next),
             \/ artifact = "post" /\ becomes = "POSTED" /\ next = "find"
             \/ artifact = "offer" /\ becomes = "OFFERED" /\ next = "route"
             \/ artifact = "result" /\ becomes = "RESULT_SUBMITTED" /\ next = "verify"
      PROVE  Story'
  <2>1. stage = artifact /\ UNCHANGED setup
    BY <1>1, AnsweredTurns DEF ScreenedStep
  <2>2. CASE Escapes("sentinel")
    BY <1>1, <2>1, <2>2, EscapesKeeps DEF Preparing
  <2>3. CASE status' = becomes /\ Proceed(next) /\ UNCHANGED <<notes, paid, verdicts>>
    <3>1. Progress'
      BY <1>1, <2>1, <2>3 DEF Story, Progress, Before, Proceed
    <3> QED
      BY <1>1, <2>1, <2>3, <3>1, ProceedKeeps DEF Preparing, Story, DemoType
  <2> QED
    BY <1>1, <2>2, <2>3 DEF ScreenedStep
<1> QED
  BY <1>1 DEF PostJob, SubmitOffer, SubmitResult

LEMMA FindKeeps ==
  ASSUME Story, FindCandidates
  PROVE  Story'
<1>1. stage = "find" /\ UNCHANGED setup
  BY AnsweredTurns DEF FindCandidates
<1>2. CASE Escapes("scout")
  BY <1>1, <1>2, EscapesKeeps DEF Preparing
<1>3. CASE Fallback("scout") /\ UNCHANGED job
  BY <1>1, <1>3, FallbackKeeps DEF Preparing, Adapters, job
<1>4. CASE Proceed("offer") /\ UNCHANGED <<notes, job>>
  <2>1. Progress'
    BY <1>1, <1>4 DEF Story, Progress, Before, Proceed, job
  <2> QED
    BY <1>1, <1>4, <2>1, ProceedKeeps DEF Preparing, Story, DemoType, job
<1> QED
  BY <1>2, <1>3, <1>4 DEF FindCandidates

LEMMA RouteKeeps ==
  ASSUME Story, RouteJob
  PROVE  Story'
<1>1. stage = "route" /\ UNCHANGED setup
  BY AnsweredTurns DEF RouteJob
<1>2. CASE Escapes("router")
  BY <1>1, <1>2, EscapesKeeps DEF Preparing
<1>3. CASE Fallback("router") /\ UNCHANGED job
  BY <1>1, <1>3, FallbackKeeps DEF Preparing, Adapters, job
<1>4. CASE Proceed("accept") /\ UNCHANGED <<notes, job>>
  <2>1. Progress'
    BY <1>1, <1>4 DEF Story, Progress, Before, Proceed, job
  <2> QED
    BY <1>1, <1>4, <2>1, ProceedKeeps DEF Preparing, Story, DemoType, job
<1> QED
  BY <1>2, <1>3, <1>4 DEF RouteJob

LEMMA AcceptKeeps ==
  ASSUME Story, AcceptOffer
  PROVE  Story'
<1>1. stage = "accept" /\ UNCHANGED setup
  BY AnsweredTurns DEF AcceptOffer
<1>2. CASE Escapes("router")
  BY <1>1, <1>2, EscapesKeeps DEF Preparing
<1>3. CASE status' = "ACCEPTED" /\ Proceed("result") /\ UNCHANGED <<notes, paid, verdicts>>
  <2>1. Progress'
    BY <1>1, <1>3 DEF Story, Progress, Before, Proceed
  <2> QED
    BY <1>1, <1>3, <2>1, ProceedKeeps DEF Preparing, Story, DemoType
<1> QED
  BY <1>2, <1>3 DEF AcceptOffer

LEMMA VerifyKeeps ==
  ASSUME Story, Verify
  PROVE  Story'
<1>1. stage = "verify" /\ UNCHANGED setup /\ status = "RESULT_SUBMITTED" /\ verdicts = {}
  BY AnsweredTurns DEF Verify, Story, Progress
<1>2. CASE Escapes("bench")
  BY <1>1, <1>2, EscapesKeeps DEF Preparing
<1>3. CASE Fallback("bench") /\ status' = SetByHand /\ UNCHANGED <<paid, verdicts>>
  BY <1>1, <1>3, FallbackKeeps DEF Preparing, Adapters, SetByHand
<1>4. CASE /\ Answered(Verdicts)
           /\ status' = IF call.value = "PASS" THEN "VERIFIED" ELSE "FAILED"
           /\ verdicts' = verdicts \cup {call.value}
           /\ Proceed("settle")
           /\ UNCHANGED <<notes, paid>>
  <2>1. call.value \in Verdicts /\ verdicts' = {call.value}
    BY <1>1, <1>4 DEF Answered
  <2>2. Progress'
    BY <1>1, <1>4, <2>1 DEF Story, Progress, Before, Proceed
  <2> QED
    BY <1>1, <1>4, <2>1, <2>2, ProceedKeeps DEF Preparing
<1> QED
  BY <1>2, <1>3, <1>4 DEF Verify

LEMMA SettleKeeps ==
  ASSUME Story, Settle
  PROVE  Story'
<1>1. /\ stage = "settle" /\ status \in {"VERIFIED", "FAILED"} /\ errors = failed
      /\ dir \in {"pair", "metadata only", "mismatched"} /\ requested \ local \subseteq noted
  BY DEF Settle, Story, Progress, Ending, Noting, Preparing
<1>2. /\ UNCHANGED <<local, noted, errors, failed, dir, requested, present, doctor, verdicts>>
      /\ \/ stage' = "ended" /\ exit' = 1 /\ status' = status
         \/ /\ stage' = "report" /\ exit' = exit /\ dir # "metadata only"
            /\ status = "VERIFIED" /\ status' = "COMPLETED"
  BY DEF Settle, Proceed, End, setup, notes
<1>3. DemoType'
  BY <1>2 DEF Story, DemoType
<1>4. Progress'
  BY <1>1, <1>2 DEF Story, Progress, Before
<1>5. Ending'
  <2>1. CASE stage' = "ended"
    BY <1>1, <1>2, <2>1, FailingEnds
  <2>2. CASE stage' = "report"
    BY <1>1, <1>2, <2>2 DEF Ending, SuccessIsHonest
  <2> QED
    BY <1>2, <2>1, <2>2
<1>6. Noting'
  BY <1>1, <1>2 DEF Noting, DoctorWarns
<1> QED
  BY <1>3, <1>4, <1>5, <1>6 DEF Story

LEMMA ReportKeeps ==
  ASSUME Story, Report
  PROVE  Story'
<1>1. /\ stage = "report" /\ status = "COMPLETED" /\ errors = failed
      /\ dir \in {"pair", "mismatched"} /\ requested \ local \subseteq noted
  BY DEF Report, Story, Progress, Ending, Noting, Preparing
<1>2. /\ UNCHANGED <<local, noted, errors, failed, dir, requested, present, doctor, status, verdicts>>
      /\ stage' = "ended" /\ exit' \in {0, 1, 2}
      /\ dir = "mismatched" => exit' = 1
      /\ dir # "mismatched" => (exit' = 0 <=> errors = {})
  BY DEF Report, End, setup, notes, job
<1>3. DemoType'
  BY <1>2 DEF Story, DemoType
<1>4. Progress'
  BY <1>1, <1>2 DEF Story, Progress, Before
<1>5. Ending'
  BY <1>1, <1>2 DEF Ending, SuccessIsHonest
<1>6. Noting'
  BY <1>1, <1>2 DEF Noting, DoctorWarns
<1> QED
  BY <1>3, <1>4, <1>5, <1>6 DEF Story

LEMMA NextTells ==
  ASSUME Story, [Next]_vars
  PROVE  Story'
<1>1. CASE UNCHANGED demo
  BY <1>1, StayingKeepsStory
<1>2. CASE AskSentinel \/ AskScout \/ AskRouter \/ AskBench
  BY <1>2, StayingKeepsStory
  DEF AskSentinel, AskScout, AskRouter, AskBench, Ask, demo
<1>3. CASE MainThread
  BY <1>1, <1>2, <1>3, ConfigureKeeps, DoctorKeeps, PreferKeeps, OpenKeeps, ScreenedKeeps,
     FindKeeps, RouteKeeps, AcceptKeeps, VerifyKeeps, SettleKeeps, ReportKeeps
  DEF MainThread
<1>4. CASE Library \/ ProcessEnds \/ ProcessTimesOut \/ StatementEnds \/ TimerRuns \/ StatementAborts
  BY <1>1, <1>4
  DEF Library, ProcessEnds, ProcessTimesOut, StatementEnds, TimerRuns, StatementAborts
<1>5. CASE UNCHANGED vars
  BY <1>1, <1>5 DEF vars, demo
<1> QED
  BY <1>3, <1>4, <1>5 DEF Next

-----------------------------------------------------------------------------
(* What always holds. *)

LEMMA InitHolds == Init => Asking /\ Story
<1> SUFFICES ASSUME Init PROVE Asking /\ Story
  OBVIOUS
<1>1. CallType
  BY DEF Init, NoCall, CallType, CallSteps, Values
<1>2. Querying
  BY NoQueryType, QueryTypes DEF Init, Querying, Executing, CutOffIsNoAnswer
<1>3. Screening
  <2>1. PICK no \in BOOLEAN: no = FALSE
    OBVIOUS
  <2>2. screening = [failed |-> no, error |-> no, told |-> no, attempt |-> 1,
                     decision |-> "unasked", risk |-> "unasked"]
    BY <2>1 DEF Init, NoScreening
  <2> QED
    BY <2>2 DEF Screening, Attempts
<1>4. DemoType
  BY DEF Init, DemoType, None
<1>5. Progress
  BY DEF Init, Progress, Before
<1>6. Ending
  BY DEF Init, Ending, SuccessIsHonest, Preparing
<1>7. Noting
  BY DEF Init, Noting, DoctorWarns, Preparing
<1> QED
  BY <1>1, <1>2, <1>3, <1>4, <1>5, <1>6, <1>7 DEF Asking, Story

LEMMA AlwaysHolds == Spec => [](Asking /\ Story)
<1>1. Asking /\ Story /\ [Next]_vars => (Asking /\ Story)'
  BY NextAsks, NextTells
<1> QED
  BY <1>1, InitHolds, PTL DEF Spec

\* Whatever the adapters, the timer and the library do, every variable of the
\* demo holds a value of its type, and policy.decide is tried six times at most.
THEOREM DemoTypeCorrect == Spec => []TypeOK
<1>1. Asking /\ Story => TypeOK
  BY DEF Asking, Querying, Screening, ScreeningTypeOK, Story, DemoType, TypeOK
<1> QED
  BY <1>1, AlwaysHolds, PTL

\* Whenever the timer or the progress handler interrupts it, and however many
\* parties are ranked: a query that was cut off is not taken for an answer.
THEOREM CutOffNeverAnswers == Spec => []CutOffIsNoAnswer
<1>1. Asking => CutOffIsNoAnswer
  BY DEF Asking, Querying
<1> QED
  BY <1>1, AlwaysHolds, PTL

\* With the library of the documented contract, whose decide requires the word
\* on its detectors: what it allows its policy allowed, and knew of any failure.
THEOREM ScreenFailsClosed == Signatures = {"required"} => (Spec => []FailsClosed)
<1> SUFFICES ASSUME Signatures = {"required"} PROVE Spec => []FailsClosed
  OBVIOUS
<1>1. ASSUME Asking PROVE FailsClosed
  <2> SUFFICES ASSUME call.value = "ALLOW", screening.decision # "unasked"
               PROVE  /\ \/ screening.decision = "allow"
                         \/ screening.decision = "none" /\ screening.risk = "low"
                      /\ screening.failed => screening.told
    BY DEF FailsClosed
  <2>1. /\ MapDecision(screening.decision, screening.risk) = "ALLOW"
        /\ screening.told = screening.failed
    BY <1>1 DEF Asking, Screening
  <2>2. PICK decision, risk: decision = screening.decision /\ risk = screening.risk
    OBVIOUS
  <2>3. decision = "allow" \/ (decision = "none" /\ risk = "low")
    BY <2>1, <2>2 DEF MapDecision
  <2> QED
    BY <2>1, <2>2, <2>3
<1> QED
  BY <1>1, AlwaysHolds, PTL

\* Wherever the demo ends and whichever adapters failed: exit code 0 means a
\* receipt that verifies, with no local adapter failed on the way.
THEOREM ExitIsHonest == Spec => []SuccessIsHonest
<1>1. Story => SuccessIsHonest
  BY DEF Story, Ending
<1> QED
  BY <1>1, AlwaysHolds, PTL

\* However often a stub takes over, a note says for which adapter.
THEOREM FallbacksAreNoted == Spec => []FallbackIsNoted
<1>1. Story => FallbackIsNoted
  BY DEF Story, Noting, FallbackIsNoted
<1> QED
  BY <1>1, AlwaysHolds, PTL

\* No job that a Bench did not pass is COMPLETED, a stub after a failed local
\* Bench or not.
THEOREM VerdictsStand == Spec => []FailStands
<1>1. Story => FailStands
  BY DEF Story, Progress, FailStands
<1> QED
  BY <1>1, AlwaysHolds, PTL

\* A demo that doctor found ok beforehand starts with every adapter asked for.
THEOREM DoctorIsRight == Spec => []DoctorWarns
<1>1. Story => DoctorWarns
  BY DEF Story, Noting
<1> QED
  BY <1>1, AlwaysHolds, PTL

-----------------------------------------------------------------------------
(* The lifecycle. *)

\* The functions the demo shows as JobLifecycle's variables.
StatusOf == [j \in {TheJob} |-> status]
PaidFor == [j \in {TheJob} |-> paid]

\* What JobLifecycle allows at the statuses the demo moves on from.
LEMMA EdgesOf ==
  /\ Lifecycle!Edges["ABSENT"] = {"POSTED"}
  /\ Lifecycle!Edges["POSTED"] = {"OFFERED"}
  /\ Lifecycle!Edges["OFFERED"] = {"ACCEPTED"}
  /\ Lifecycle!Edges["ACCEPTED"] = {"RESULT_SUBMITTED", "REFUNDED"}
  /\ Lifecycle!Edges["RESULT_SUBMITTED"] = {"VERIFIED", "FAILED", "REFUNDED"}
BY DEF Lifecycle!Edges, Lifecycle!Status

LEMMA Advances ==
  ASSUME status' \in Lifecycle!Edges[status], UNCHANGED paid
  PROVE  Lifecycle!Next
<1>1. /\ StatusOf[TheJob] = status /\ PaidFor' = PaidFor
      /\ StatusOf' = [StatusOf EXCEPT ![TheJob] = status']
  BY DEF StatusOf, PaidFor
<1>2. \E next \in Lifecycle!Edges[StatusOf[TheJob]]:
        StatusOf' = [StatusOf EXCEPT ![TheJob] = next]
  BY <1>1
<1>3. Lifecycle!Advance(TheJob)
  BY <1>1, <1>2 DEF Lifecycle!Advance, StatusOf, PaidFor
<1> QED
  BY <1>3 DEF Lifecycle!Next

\* What a step of the demo does to the job.
JobMoves ==
  \/ UNCHANGED <<status, paid>>
  \/ status' \in Lifecycle!Edges[status] /\ UNCHANGED paid
  \/ status = "VERIFIED" /\ paid' = TRUE /\ status' \in {"VERIFIED", "COMPLETED"}

LEMMA JobMovesMap ==
  ASSUME JobMoves
  PROVE  Lifecycle!Next \/ UNCHANGED <<StatusOf, PaidFor>>
<1>1. CASE UNCHANGED <<status, paid>>
  BY <1>1 DEF StatusOf, PaidFor
<1>2. CASE status = "VERIFIED" /\ paid' = TRUE /\ status' \in {"VERIFIED", "COMPLETED"}
  <2>1. /\ StatusOf[TheJob] = "VERIFIED" /\ PaidFor' = [PaidFor EXCEPT ![TheJob] = TRUE]
        /\ StatusOf' = [StatusOf EXCEPT ![TheJob] = status']
    BY <1>2 DEF StatusOf, PaidFor
  <2>2. CASE status' = "VERIFIED"
    <3>1. StatusOf' = StatusOf
      BY <1>2, <2>2 DEF StatusOf
    <3>2. Lifecycle!PayWorker(TheJob)
      BY <2>1, <3>1 DEF Lifecycle!PayWorker, StatusOf, PaidFor
    <3> QED
      BY <3>2 DEF Lifecycle!Next
  <2>3. CASE status' = "COMPLETED"
    <3>1. Lifecycle!Complete(TheJob)
      BY <2>1, <2>3 DEF Lifecycle!Complete, StatusOf, PaidFor
    <3> QED
      BY <3>1 DEF Lifecycle!Next
  <2> QED
    BY <1>2, <2>2, <2>3
<1> QED
  BY <1>1, <1>2, Advances DEF JobMoves

\* The steps of the exchange that move the job along an edge.
LEMMA ScreenedMoves ==
  ASSUME Story, PostJob \/ SubmitOffer \/ SubmitResult
  PROVE  JobMoves
<1>1. CASE UNCHANGED job
  BY <1>1 DEF job, JobMoves
<1>2. CASE PostJob
  <2>1. status = "ABSENT"
    BY <1>2 DEF PostJob, ScreenedStep, Story, Progress, Before
  <2> QED
    BY <1>1, <1>2, <2>1, EdgesOf DEF PostJob, ScreenedStep, Escapes, JobMoves
<1>3. CASE SubmitOffer
  <2>1. status = "POSTED"
    BY <1>3 DEF SubmitOffer, ScreenedStep, Story, Progress
  <2> QED
    BY <1>1, <1>3, <2>1, EdgesOf DEF SubmitOffer, ScreenedStep, Escapes, JobMoves
<1>4. CASE SubmitResult
  <2>1. status = "ACCEPTED"
    BY <1>4 DEF SubmitResult, ScreenedStep, Story, Progress
  <2> QED
    BY <1>1, <1>4, <2>1, EdgesOf DEF SubmitResult, ScreenedStep, Escapes, JobMoves
<1> QED
  BY <1>2, <1>3, <1>4

\* The status set by hand is the one the job already has.
LEMMA VerifyMoves ==
  ASSUME Story, Verify
  PROVE  JobMoves
<1>1. status = "RESULT_SUBMITTED"
  BY DEF Verify, Story, Progress
<1>2. CASE UNCHANGED job
  BY <1>2 DEF job, JobMoves
<1>3. CASE status' \in {"VERIFIED", "FAILED"} /\ UNCHANGED paid
  BY <1>1, <1>3, EdgesOf DEF JobMoves
<1>4. CASE status' = SetByHand /\ UNCHANGED paid
  BY <1>1, <1>4 DEF SetByHand, JobMoves
<1> QED
  BY <1>2, <1>3, <1>4 DEF Verify, Escapes

LEMMA StepMoves ==
  ASSUME Story, [Next]_vars
  PROVE  JobMoves
<1>1. CASE UNCHANGED job
  BY <1>1 DEF job, JobMoves
<1>2. CASE Configure \/ Doctor \/ NoDoctor \/ PreferLocal \/ ProbeRaises \/ OpenExchange \/ Report
  BY <1>1, <1>2
  DEF Configure, Doctor, NoDoctor, PreferLocal, ProbeRaises, OpenExchange, Report
<1>3. CASE AskSentinel \/ AskScout \/ AskRouter \/ AskBench
  BY <1>1, <1>3 DEF AskSentinel, AskScout, AskRouter, AskBench, Ask
<1>4. CASE FindCandidates \/ RouteJob
  BY <1>1, <1>4 DEF FindCandidates, RouteJob, Escapes
<1>5. CASE AcceptOffer
  <2>1. status = "OFFERED"
    BY <1>5 DEF AcceptOffer, Story, Progress
  <2> QED
    BY <1>1, <1>5, <2>1, EdgesOf DEF AcceptOffer, Escapes, JobMoves
<1>6. CASE Settle
  BY <1>6 DEF Settle, JobMoves
<1>7. CASE UNCHANGED demo
  BY <1>1, <1>7 DEF demo
<1>8. CASE MainThread
  BY <1>2, <1>3, <1>4, <1>5, <1>6, <1>7, <1>8, ScreenedMoves, VerifyMoves DEF MainThread
<1>9. CASE Library \/ ProcessEnds \/ ProcessTimesOut \/ StatementEnds \/ TimerRuns \/ StatementAborts
  BY <1>7, <1>9
  DEF Library, ProcessEnds, ProcessTimesOut, StatementEnds, TimerRuns, StatementAborts
<1> QED
  BY <1>1, <1>8, <1>9 DEF Next, vars

LEMMA NextMaps ==
  ASSUME Story, [Next]_vars
  PROVE  [Lifecycle!Next]_(Lifecycle!lifecycleVars)
BY StepMoves, JobMovesMap DEF Lifecycle!lifecycleVars, StatusOf, PaidFor

LEMMA InitMaps == Init => Lifecycle!Init
BY Zenon DEF Init, Lifecycle!Init

\* With the fallbacks, the status set by hand and a settlement that pays the
\* worker and then finds no key, the demo's job keeps to the lifecycle.
THEOREM DemoImplementsLifecycle == Spec => ImplementsLifecycle
<1>1. Story /\ [Next]_vars => [Lifecycle!Next]_(Lifecycle!lifecycleVars)
  BY NextMaps
<1> QED
  BY <1>1, AlwaysHolds, InitMaps, PTL DEF Spec, ImplementsLifecycle, Lifecycle!Spec

=============================================================================
