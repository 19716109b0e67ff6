---------------------------- MODULE AdapterCall -----------------------------
(***************************************************************************)
(* One call of a sibling adapter, and the process it may run               *)
(* (adapters/process.py).  A call is at one of its adapter's steps; at     *)
(* "returned" its value is what the caller gets: an answer, "AdapterError",*)
(* or "raised" for an exception of any other class.  The caller is the     *)
(* only one to call, so that there is one call at a time.                  *)
(***************************************************************************)
EXTENDS Naturals

VARIABLES
  call,   \* the step and the value of the call under way
  child   \* the sibling's process: its state, exit code and output

NoCall == [step |-> "none", value |-> "none"]
NoChild == [state |-> "none", code |-> 0, output |-> "none"]

At(step) == call.step = step
Goto(step) == call' = [call EXCEPT !.step = step]
Return(value) == call' = [step |-> "returned", value |-> value]

-----------------------------------------------------------------------------
(* run_argv: subprocess.run with a timeout, in the calling thread. *)

\* The command starts, is not found, or cannot be executed: run_argv makes an
\* AdapterError of the second only.
StartChild(step) ==
  /\ child' \in [state : {"running", "AdapterError", "raised"}, code : {0},
                 output : {"none"}]
  /\ Goto(step)

Running == child.state = "running"

\* The process ends by itself; text it wrote may not decode.
ChildExits(code, output) ==
  /\ Running
  /\ child' = [state |-> IF output = "undecodable" THEN "raised" ELSE "exited",
               code |-> code, output |-> output]
  /\ UNCHANGED call

\* Broken variant of ChildTimesOut: run_argv is called without its timeout.
ChildNeverTimesOut == FALSE /\ UNCHANGED <<call, child>>

\* The timeout ends a process that does not end by itself.
ChildTimesOut ==
  /\ Running
  /\ child' = [NoChild EXCEPT !.state = "AdapterError"]
  /\ UNCHANGED call

\* run_argv returns a CommandResult.
ChildEnded == child.state = "exited"

=============================================================================
