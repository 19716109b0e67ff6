----------------------------- MODULE RouterPlan -----------------------------
(***************************************************************************)
(* LocalRouterAdapter: the flop-router process that plans a job with one   *)
(* open offer, the evidence it is given, and what its decision artifact    *)
(* comes to: a plan that "selects" the offer, or an "other plan".          *)
(***************************************************************************)
EXTENDS AdapterCall

\* What is at a configured path; "unset" is no path at all.
Fixtures == {"unset", "missing", "file"}
RouterDbs == {"unset", "missing", "small", "oversized"}

\* _resolve_router_evidence: a configured fixture or database, else the fixture
\* that comes with flop-router.
RouterEvidence(fixture, db, bundled) ==
  [fixture |-> IF fixture = "unset" /\ db = "unset" /\ bundled THEN "file" ELSE fixture,
   db      |-> IF fixture = "unset" THEN db ELSE "unset"]

Evidence ==
  {RouterEvidence(fixture, db, bundled) :
     fixture \in Fixtures, db \in RouterDbs, bundled \in BOOLEAN}

\* resolve_router_source, assess_router_db.
RouterSourceOk(evidence) == evidence.fixture = "file" \/ evidence.db = "small"

RouterProbe(script, evidence) == script /\ RouterSourceOk(evidence)

Qualifications == {"QUALIFIED_PLAN", "DISQUALIFIED", "absent"}
Workers == {"seller", "another", "none"}

\* map_router_decision: an absent qualification goes by the worker, and a
\* worker without an open offer does not qualify.
MapRouterDecision(qualification, worker) ==
  IF /\ worker = "seller"
     /\ qualification \in {"QUALIFIED_PLAN", "absent"}
  THEN "selects" ELSE "other plan"

Plans == {MapRouterDecision(q, w) : q \in Qualifications, w \in Workers}

StartRouter ==
  /\ At("router")
  /\ \E script \in BOOLEAN, evidence \in Evidence:
       IF RouterProbe(script, evidence)
       THEN StartChild("router child")
       ELSE Return("AdapterError") /\ UNCHANGED child

\* The artifact it leaves: none, one that is no JSON object, or a plan.
RouterExits ==
  /\ At("router child")
  /\ \E code \in {0, 1}, artifact \in Plans \cup {"none", "malformed", "undecodable"}:
       ChildExits(code, artifact)

TakePlan ==
  /\ At("router child") /\ ~Running
  /\ CASE child.state = "raised" -> Return("raised")
       [] ChildEnded /\ child.code = 0 /\ child.output \in Plans -> Return(child.output)
       [] OTHER -> Return("AdapterError")
  /\ child' = NoChild

=============================================================================
