--------------------------- MODULE MCWorkExchange ---------------------------
(***************************************************************************)
(* Small instances of WorkExchange for TLC.  Ids are drawn at random by    *)
(* the code and the methods treat all of them alike, so that jobs, offers, *)
(* deals and results may be permuted; so may the DIDs inside the family,   *)
(* and those outside it.                                                   *)
(***************************************************************************)
EXTENDS WorkExchange, TLC

IdSymmetry ==
  Permutations(JobIds) \cup Permutations(OfferIds) \cup Permutations(DealIds)
    \cup Permutations(Results) \cup Permutations(Family)
    \cup Permutations(Dids \ Family)

=============================================================================
