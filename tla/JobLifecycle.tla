---------------------------- MODULE JobLifecycle ----------------------------
(***************************************************************************)
(* What the exchange promises about one job, with no offers, deals, money  *)
(* or files: the lifecycle drawn in the README                             *)
(*                                                                         *)
(*   POSTED -> OFFERED -> ACCEPTED -> RESULT_SUBMITTED -> VERIFIED ->      *)
(*   COMPLETED, RESULT_SUBMITTED -> FAILED -> REFUNDED,                    *)
(*                                                                         *)
(* with the edges the ALLOWED table of exchange.py adds to that drawing: a *)
(* refund also leaves ACCEPTED and RESULT_SUBMITTED.  WorkExchange is      *)
(* shown to implement this module.                                         *)
(***************************************************************************)

CONSTANT JobIds

VARIABLES
  status,   \* status[j]: the status of job j, "ABSENT" before it is posted
  paid      \* paid[j]: has the worker of j ever been paid

lifecycleVars == <<status, paid>>

Status == {"ABSENT", "POSTED", "OFFERED", "ACCEPTED", "RESULT_SUBMITTED",
           "VERIFIED", "COMPLETED", "FAILED", "REFUNDED"}

\* Edges[s]: the statuses a job may move to from s without any payment.
Edges ==
  [s \in Status |->
     CASE s = "ABSENT"           -> {"POSTED"}
       [] s = "POSTED"           -> {"OFFERED"}
       [] s = "OFFERED"          -> {"ACCEPTED"}
       [] s = "ACCEPTED"         -> {"RESULT_SUBMITTED", "REFUNDED"}
       [] s = "RESULT_SUBMITTED" -> {"VERIFIED", "FAILED", "REFUNDED"}
       [] s = "FAILED"           -> {"REFUNDED"}
       [] OTHER                  -> {}]

Init ==
  /\ status = [j \in JobIds |-> "ABSENT"]
  /\ paid = [j \in JobIds |-> FALSE]

\* The job moves along an edge.
Advance(j) ==
  /\ \E s \in Edges[status[j]]: status' = [status EXCEPT ![j] = s]
  /\ UNCHANGED paid

\* A settlement that stops half way may have paid the worker.
PayWorker(j) ==
  /\ status[j] = "VERIFIED"
  /\ paid' = [paid EXCEPT ![j] = TRUE]
  /\ UNCHANGED status

\* A settlement that goes through leaves the job COMPLETED and paid for.
Complete(j) ==
  /\ status[j] = "VERIFIED"
  /\ status' = [status EXCEPT ![j] = "COMPLETED"]
  /\ paid' = [paid EXCEPT ![j] = TRUE]

Next == \E j \in JobIds: Advance(j) \/ PayWorker(j) \/ Complete(j)

Spec == Init /\ [][Next]_lifecycleVars

=============================================================================
