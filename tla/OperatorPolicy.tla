--------------------------- MODULE OperatorPolicy ---------------------------
(***************************************************************************)
(* policy.py: who counts as an independent counterparty.  Pure operators   *)
(* over a buyer, a seller and the deals made so far.  The policy setting   *)
(* same_operator_fee_volume_as_independent has no parameter here: the code *)
(* reads it and then overwrites the only value it decides.                 *)
(***************************************************************************)

CONSTANTS
  Family,                             \* known_family_dids: one operator's own
  AllowSelfDeals,                     \* policy.allow_self_deals
  AllowSameOperatorDeals,             \* policy.allow_same_operator_deals
  SameOperatorIndependentReputation,  \* policy setting of that name
  TreatUnknownAsIndependent           \* policy.treat_unknown_as_independent

ASSUME PolicyAssumption ==
  /\ AllowSelfDeals \in BOOLEAN
  /\ AllowSameOperatorDeals \in BOOLEAN
  /\ SameOperatorIndependentReputation \in BOOLEAN
  /\ TreatUnknownAsIndependent \in BOOLEAN

Relationships == {"independent", "same_operator", "related", "unknown"}

\* The relationship of two DIDs as the exchange sees it.
ClassifyOperatorRelationship(buyer, seller) ==
  CASE buyer = seller \/ {buyer, seller} \subseteq Family -> "same_operator"
    [] buyer # seller /\ ~({buyer, seller} \subseteq Family)
         /\ {buyer, seller} \cap Family # {}              -> "related"
    [] OTHER -> IF TreatUnknownAsIndependent THEN "independent" ELSE "unknown"

\* The caller of accept_offer may state a relationship; only the claim that
\* one operator is two independent parties is refused.
OverrideRefused(classified, override) ==
  classified = "same_operator" /\ override = "independent"

\* The deals the policy refuses to make at all.
PolicyRefuses(buyer, seller, relationship) ==
  \/ buyer = seller /\ ~AllowSelfDeals
  \/ relationship = "same_operator" /\ ~AllowSameOperatorDeals

\* Broken variant of DetectWashRisk: it looks for the pair, not its reverse.
DetectWashRiskSameWay(buyer, seller, priorPairs) ==
  buyer = seller \/ <<buyer, seller>> \in priorPairs

\* A deal is a wash when its parties are one, or have dealt the other way.
DetectWashRisk(buyer, seller, priorPairs) ==
  buyer = seller \/ <<seller, buyer>> \in priorPairs

\* The two flags a deal carries into the parties' evidence profiles.
ReputationEligible(relationship, wash) ==
  relationship = "independent" /\ ~SameOperatorIndependentReputation /\ ~wash

FeeVolumeEligible(relationship, wash) ==
  relationship = "independent" /\ ~wash

=============================================================================
