--------------------------- MODULE EvidenceProfile --------------------------
(***************************************************************************)
(* models.py, EvidenceProfile: what the exchange has on record about one   *)
(* DID.  The per-relationship counters of the code are functions from the  *)
(* relationship; the last_* fields, which nothing reads, are left out.     *)
(***************************************************************************)
EXTENDS Naturals, OperatorPolicy

Profile == [completed : Nat, passes : Nat, wash : Nat,
            jobs : [Relationships -> Nat], volume : [Relationships -> Nat]]

\* load_profile of a DID with no file.
EmptyProfile ==
  [completed |-> 0, passes |-> 0, wash |-> 0,
   jobs |-> [b \in Relationships |-> 0], volume |-> [b \in Relationships |-> 0]]

\* Broken variant of Bucket: the eligibility flags are ignored.
BucketByRelationship(relationship, eligible) == relationship

\* The counter a completed deal goes to: an independent deal that is not
\* eligible is counted as unknown.
Bucket(relationship, eligible) ==
  IF relationship = "independent" /\ ~eligible THEN "unknown" ELSE relationship

\* record_completion.  terms has the relationship, price, repEligible,
\* feeEligible and wash of the deal; passed says the bench result was PASS.
RecordCompletion(profile, terms, passed) ==
  [completed |-> profile.completed + 1,
   passes |-> profile.passes + (IF passed THEN 1 ELSE 0),
   wash   |-> profile.wash + (IF terms.wash THEN 1 ELSE 0),
   jobs   |-> [profile.jobs EXCEPT
                 ![Bucket(terms.relationship, terms.repEligible)] = @ + 1],
   volume |-> [profile.volume EXCEPT
                 ![Bucket(terms.relationship, terms.feeEligible)] = @ + terms.price]]

=============================================================================
