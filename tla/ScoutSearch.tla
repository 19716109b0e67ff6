---------------------------- MODULE ScoutSearch -----------------------------
(***************************************************************************)
(* LocalScoutAdapter: the four sources of evidence records it tries in     *)
(* turn, an evidence file, a projection database, the feed command and the *)
(* observer warehouse.  What is at a path is read when the search gets     *)
(* there, and may no longer be what probe found.                           *)
(***************************************************************************)
EXTENDS AdapterCall, SqliteQuery

JsonlFiles == {"absent", "records", "malformed", "undecodable"}
DbFiles == {"absent", "small", "oversized"}

\* assess_scout_sqlite: by its size alone, without opening it.
AssessScoutSqlite(file) == file = "small"

\* LocalScoutAdapter.probe: some source is there.
ScoutProbe(jsonl, projection, script, warehouse) ==
  \/ jsonl # "absent"
  \/ AssessScoutSqlite(projection)
  \/ script
  \/ AssessScoutSqlite(warehouse)

\* The evidence file is used when there is one, whatever becomes of it.
ReadEvidenceJsonl ==
  /\ At("jsonl")
  /\ \E file \in JsonlFiles:
       CASE file = "absent"      -> Goto("projection")
         [] file = "records"     -> Return("records")
         [] file = "malformed"   -> Return("AdapterError")
         [] file = "undecodable" -> Return("raised")
  /\ UNCHANGED <<child, query>>

\* A database of a usable size is opened; from another one the search goes on.
TryDatabase(step, querying, GoOn) ==
  /\ At(step)
  /\ \E file \in DbFiles:
       IF AssessScoutSqlite(file)
       THEN Goto(querying) /\ OpenDatabase
       ELSE GoOn /\ UNCHANGED query
  /\ UNCHANGED child

\* The query's records are the answer; after an AdapterError the search goes on.
TakeQuery(querying, GoOn) ==
  /\ At(querying) /\ query.at = "closed"
  /\ IF query.value = "records" THEN Return("records") ELSE GoOn
  /\ query' = NoQuery
  /\ UNCHANGED child

TryProjection == TryDatabase("projection", "projection query", Goto("feed"))
TakeProjection == TakeQuery("projection query", Goto("feed"))

TryFeed ==
  /\ At("feed")
  /\ \/ StartChild("feed child")
     \/ Goto("warehouse") /\ UNCHANGED child
  /\ UNCHANGED query

FeedExits ==
  /\ At("feed child")
  /\ \E code \in {0, 1}, output \in JsonlFiles \ {"absent"}: ChildExits(code, output)
  /\ UNCHANGED query

\* _records_from_feed_cli: an AdapterError leads on to the warehouse.
TakeFeed ==
  /\ At("feed child") /\ ~Running
  /\ CASE child.state = "raised" -> Return("raised")
       [] ChildEnded /\ child.code = 0 /\ child.output = "records" -> Return("records")
       [] OTHER -> Goto("warehouse")
  /\ child' = NoChild
  /\ UNCHANGED query

TryWarehouse == TryDatabase("warehouse", "warehouse query", Return("AdapterError"))
TakeWarehouse == TakeQuery("warehouse query", Return("AdapterError"))

ScoutStep ==
  \/ ReadEvidenceJsonl
  \/ TryProjection \/ TakeProjection
  \/ TryFeed \/ TakeFeed
  \/ TryWarehouse \/ TakeWarehouse

=============================================================================
