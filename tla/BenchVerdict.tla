---------------------------- MODULE BenchVerdict ----------------------------
(***************************************************************************)
(* The Bench adapters: the stub's check of the result hash, and the        *)
(* flop-bench process whose output is made a verdict.                      *)
(***************************************************************************)
EXTENDS AdapterCall

\* StubBenchAdapter.verify_delivery.
StubVerdict(hashMatches) == IF hashMatches THEN "PASS" ELSE "FAIL"

\* resolve_bench_argv: a configured command, one on the path, one of a checkout
\* or an importable module; LocalBenchAdapter.probe asks for no more.
BenchProbe(cli, which, checkout, importable) == cli \/ which \/ checkout \/ importable

\* The adapter in use has a command: it was there when the adapter was made.
StartBench == At("bench") /\ StartChild("bench child")

\* What flop-bench prints: no JSON object, a result of another name, a result.
BenchExits ==
  /\ At("bench child")
  /\ \E code \in {0, 1},
        output \in {"none", "unknown", "undecodable", "PASS", "FAIL", "PARTIAL"}:
       ChildExits(code, output)

\* _verdict_from_bench_output: a PASS must come with exit code 0.
TakeVerdict ==
  /\ At("bench child") /\ ~Running
  /\ CASE child.state = "raised" -> Return("raised")
       [] ChildEnded /\ child.output \in {"FAIL", "PARTIAL"} -> Return(child.output)
       [] ChildEnded /\ child.output = "PASS" /\ child.code = 0 -> Return("PASS")
       [] OTHER -> Return("AdapterError")
  /\ child' = NoChild

=============================================================================
