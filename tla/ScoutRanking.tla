---------------------------- MODULE ScoutRanking ----------------------------
(***************************************************************************)
(* How evidence records become the candidates a job is shown: Scout groups *)
(* and ranks them (candidates_from_records), the exchange cuts the list to *)
(* the caller's limit (cap_worker_candidates).  Parties are numbered in    *)
(* the order of their DIDs.                                                *)
(***************************************************************************)
EXTENDS Naturals, Sequences, SequencesExt

CONSTANTS
  Parties,         \* valid DIDs, as numbers
  EvidenceIds,     \* what an evidence_id may be
  Hints,           \* what an evidence_count may be, 0 for none
  CandidateLimit,  \* the adapter's own limit
  MaxEvidenceIds,  \* MAX_EVIDENCE_IDS_PER_CANDIDATE
  MaxRecords       \* bound: records in the feed

NoParty == 0   \* a DID that is not valid

VARIABLES
  feed,    \* the evidence records, in order
  limit,   \* the limit the caller gave, 0 before there was a search
  shown    \* the candidates the caller got

vars == <<feed, limit, shown>>

Record == [did : Parties \cup {NoParty}, id : EvidenceIds, hint : Hints]

Grouped(records) == {records[i].did : i \in DOMAIN records} \ {NoParty}

\* A party's evidence, each id once and in the order of its first record.
EvidenceOf(d, records) ==
  LET own == SelectSeq(records, LAMBDA r: r.did = d)
      new == SelectSeq([i \in DOMAIN own |-> <<i, own[i].id>>],
                       LAMBDA p: \A k \in 1..(p[1] - 1): own[k].id # p[2])
  IN [i \in DOMAIN new |-> new[i][2]]

\* The highest evidence_count among its records, or else how many ids it has.
CountOf(d, records) ==
  LET hints == {records[i].hint : i \in {k \in DOMAIN records : records[k].did = d}} \ {0}
  IN IF hints = {} THEN Len(EvidenceOf(d, records)) ELSE Max(hints)

UpTo(n, s) == SubSeq(s, 1, Min({n, Len(s)}))

CandidatesFromRecords(records) ==
  LET Ahead(d, e) == \/ CountOf(d, records) > CountOf(e, records)
                     \/ CountOf(d, records) = CountOf(e, records) /\ d < e
      ranked == SetToSortSeq(Grouped(records), Ahead)
      Candidate(d) == [did |-> d, ids |-> UpTo(MaxEvidenceIds, EvidenceOf(d, records))]
  IN [i \in 1..Len(UpTo(CandidateLimit, ranked)) |-> Candidate(ranked[i])]

\* A list within the limit keeps its order; a longer one is sorted anew, by the
\* ids its candidates were left with.
CapWorkerCandidates(candidates, n) ==
  LET Ahead(c, d) == \/ Len(c.ids) > Len(d.ids)
                     \/ Len(c.ids) = Len(d.ids) /\ c.did < d.did
  IN IF Len(candidates) > n
     THEN UpTo(n, SetToSortSeq(ToSet(candidates), Ahead))
     ELSE candidates

-----------------------------------------------------------------------------
Init == feed = <<>> /\ limit = 0 /\ shown = <<>>

\* Scout observes another piece of evidence.
Observe ==
  /\ limit = 0
  /\ Len(feed) < MaxRecords
  /\ \E r \in Record: feed' = Append(feed, r)
  /\ UNCHANGED <<limit, shown>>

\* WorkExchange.find_candidates.
FindCandidates ==
  /\ limit = 0
  /\ \E n \in 1..CandidateLimit:
       /\ limit' = n
       /\ shown' = CapWorkerCandidates(CandidatesFromRecords(feed), n)
  /\ UNCHANGED feed

Next == Observe \/ FindCandidates

Spec == Init /\ [][Next]_vars

-----------------------------------------------------------------------------
\* No party that is left out has more evidence than one that is shown: the
\* list is "ranked by evidence count" and cut to its top (scout.py:40, 78).
TopIsShown ==
  limit > 0 =>
    \A i \in DOMAIN shown: \A d \in Grouped(feed) \ {shown[k].did : k \in DOMAIN shown}:
      CountOf(d, feed) <= CountOf(shown[i].did, feed)

=============================================================================
