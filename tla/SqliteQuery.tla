---------------------------- MODULE SqliteQuery -----------------------------
(***************************************************************************)
(* Scout's read-only sqlite query with a wall-clock deadline (scout.py     *)
(* run_sqlite_readonly and the query of _records_from_sqlite): one         *)
(* statement ranks the parties, then one statement each reads the evidence *)
(* of a ranked party.  Beside the calling thread run a progress handler    *)
(* and a timer thread, and either may cut a statement off at any point of  *)
(* it.  A statement that is not cut off may still run for ever.            *)
(***************************************************************************)
EXTENDS Naturals

CONSTANT MaxRows   \* parties the ranking may return (scout_candidate_limit)

ASSUME MaxRowsAssumption == MaxRows \in Nat \ {0}

VARIABLE
  query   \* where the query is, its result, ranked parties still to read,
          \* its timer, and whether a statement of it has been cut off

NoQuery ==
  [at |-> "none", value |-> "none", left |-> 0, timer |-> "off", cutOff |-> FALSE]

QueryTypeOK ==
  query \in [at : {"none", "ranking", "evidence", "closing", "closed"},
             value : {"none", "records", "AdapterError"},
             left : 0..MaxRows,
             timer : {"off", "armed", "due", "fired"},
             cutOff : BOOLEAN]

Executing == query.at \in {"ranking", "evidence"}
Late == query.timer \in {"due", "fired"}

\* The database opens, and the timer starts; or it cannot be opened.
OpenDatabase ==
  \/ query' = [NoQuery EXCEPT !.at = "ranking", !.timer = "armed"]
  \/ query' = [NoQuery EXCEPT !.at = "closed", !.value = "AdapterError"]

\* The timer thread has waited, and will interrupt: cancel comes too late now.
DeadlinePasses == query.timer = "armed" /\ query' = [query EXCEPT !.timer = "due"]

\* Broken variant of CutOff: an interrupt is a fault like any other, and of one
\* party's evidence a placeholder takes the place.
CutOffPassedOver ==
  IF query.at = "ranking"
  THEN [query EXCEPT !.at = "closing", !.value = "AdapterError", !.cutOff = TRUE]
  ELSE [query EXCEPT !.at = "closing", !.value = "records", !.cutOff = TRUE]

\* A statement is cut off: the error is an interrupt, which both statements
\* raise again and run_sqlite_readonly reports as a timeout.
CutOff == [query EXCEPT !.at = "closing", !.value = "AdapterError", !.cutOff = TRUE]

\* The interrupt meets a statement, or the moment between two of them, or a
\* connection that is being closed or is closed: then nothing comes of it.  A
\* timer holds its own connection, and never interrupts a later query.
TimerFires ==
  /\ query.timer = "due"
  /\ \/ Executing /\ query' = [CutOff EXCEPT !.timer = "fired"]
     \/ query' = [query EXCEPT !.timer = "fired"]

\* The progress handler finds the deadline past.
HandlerAborts == Executing /\ Late /\ query' = CutOff

\* The ranking ends by itself, or with an error that is no interrupt.
RankingEnds ==
  /\ query.at = "ranking"
  /\ \/ \E n \in 1..MaxRows: query' = [query EXCEPT !.at = "evidence", !.left = n]
     \/ query' = [query EXCEPT !.at = "closing", !.value = "records"]
     \/ query' = [query EXCEPT !.at = "closing", !.value = "AdapterError"]

\* One party's evidence is read, or its count alone after an error that is no
\* interrupt.
EvidenceEnds ==
  /\ query.at = "evidence"
  /\ query' = IF query.left = 1
              THEN [query EXCEPT !.at = "closing", !.value = "records", !.left = 0]
              ELSE [query EXCEPT !.left = @ - 1]

\* The finally block: the timer is cancelled if it still can be.
CloseDatabase ==
  /\ query.at = "closing"
  /\ query' = [query EXCEPT !.at = "closed", !.left = 0,
                            !.timer = IF @ = "armed" THEN "off" ELSE @]

-----------------------------------------------------------------------------
\* A query of which the deadline cut a statement off never passes for one that
\* has read all its evidence (scout.py:401, 424, 545).
CutOffIsNoAnswer == query.value = "records" => ~query.cutOff

=============================================================================
