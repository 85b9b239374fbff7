-------------------------- MODULE IdentityMismatch --------------------------
(***************************************************************************)
(* Observed identity material, the states of a candidate under review, and *)
(* the decision on a candidate whose claimed device is known.  A candidate *)
(* is named by what it is deduplicated by: claimed device, fingerprint and *)
(* source.                                                                 *)
(***************************************************************************)
CONSTANTS
  Candidates,  \* candidate identities
  Devices,     \* devices that trust.json may have a record of
  NoDevice,    \* what a candidate claims that claims no device
  Claims,      \* the device each candidate claims
  Keys,        \* identity keys
  Shows        \* the keys whose fingerprint or material a candidate shows

ASSUME MismatchAssumption ==
  /\ NoDevice \notin Devices
  /\ Claims \in [Candidates -> Devices \cup {NoDevice}]
  /\ Shows \in [Candidates -> SUBSET Keys]

CandidateState ==
  {"observed", "pending_review", "unverified", "conflicts_known_device", "rejected"}

TrustState == {"unknown", "unverified", "verified", "changed", "revoked", "compromised"}

\* IsAllowedIdentityCandidateTransition: rejected is final.
AllowedTransition ==
  ({"observed"} \X (CandidateState \ {"observed"}))
  \cup ({"pending_review"} \X {"rejected", "unverified", "conflicts_known_device"})
  \cup ({"conflicts_known_device"} \X {"pending_review", "rejected"})
  \cup {<<"unverified", "rejected">>}

\* The candidate shows the fingerprint or the key of a device record.
MaterialMatches(c, record) == record.key \in Shows[c]

Classification == {"candidate_only", "continuity_observation", "review_required_conflict",
  "reverify_required", "changed_candidate", "blocked_revoked", "blocked_compromised"}

\* ClassifyIdentityMismatch, of a device in a state; mapped says that the
\* candidate claims a device that has a record.
Classify(mapped, state, matches) ==
  CASE ~mapped -> "candidate_only"
    [] mapped /\ state = "changed" -> "changed_candidate"
    [] mapped /\ state = "revoked" -> "blocked_revoked"
    [] mapped /\ state = "compromised" -> "blocked_compromised"
    [] mapped /\ state \in {"verified", "unverified", "unknown"} /\ matches ->
         "continuity_observation"
    [] mapped /\ state = "verified" /\ ~matches -> "reverify_required"
    [] OTHER -> "review_required_conflict"

\* Mutant: the material is not compared.
BlocksUnlessVerified(mapped, state, matches) == ~(mapped /\ state = "verified")

BlocksSend(mapped, state, matches) == ~(mapped /\ state = "verified" /\ matches)

BlocksPromotion(class) == class \in {"blocked_revoked", "blocked_compromised"}
=============================================================================
