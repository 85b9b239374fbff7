------------------------ MODULE LocalTrustCandidate ------------------------
(***************************************************************************)
(* The local trust candidate of Gate C, an earlier form of the local trust *)
(* binding: a value that calls take and return changed, in any order.  It  *)
(* keeps the evidence of its first observation; the warnings are those of  *)
(* the last observation only.                                              *)
(*                                                                         *)
(*   candidate   none, or evidence, trust state and level, warnings and    *)
(*               the operator's events                                     *)
(*                                                                         *)
(* and, to state properties,                                               *)
(*                                                                         *)
(*   unreviewed  an observation has contradicted the evidence since the    *)
(*               operator's last event                                     *)
(*   latest      the evidence observed last                                *)
(***************************************************************************)
CONSTANTS Values, Missing, Events, NoCandidate

VARIABLES candidate, unreviewed, latest

vars == <<candidate, unreviewed, latest>>

\* "key" stands for the KeyPackage, its lineage and the credential.
Fields == {"device", "signer", "key"}

Evidence == [Fields -> Values \cup {Missing}]

Candidate ==
  [evidence : Evidence, level : {"candidate", "local_manual_trust", "untrusted"},
   state : {"candidate_observed", "operator_review_required", "promoted_local_trust",
            "changed_lineage_warning", "revoked"},
   warnings : SUBSET Fields,
   review : Events \cup {Missing}, promotion : Events \cup {Missing}, ending : Events \cup {Missing}]

\* What the constants are assumed to be.
MissingAssumption == Missing \notin Values \cup Events /\ NoCandidate \notin Candidate

Init == candidate = NoCandidate /\ unreviewed = FALSE /\ latest = [f \in Fields |-> Missing]

-----------------------------------------------------------------------------
Observe(e) ==
  /\ candidate = NoCandidate
  /\ candidate' = [evidence |-> e, level |-> "candidate", state |-> "candidate_observed",
                   warnings |-> {}, review |-> Missing, promotion |-> Missing, ending |-> Missing]
  /\ latest' = e
  /\ UNCHANGED unreviewed

\* An operator's call on the candidate, which needs an event.
Decide(event) ==
  /\ candidate # NoCandidate
  /\ event # Missing
  /\ unreviewed' = FALSE
  /\ UNCHANGED latest

Review(event) ==
  /\ Decide(event)
  /\ candidate' = [candidate EXCEPT !.state = "operator_review_required", !.review = event]

\* Mutant: a candidate that has been reviewed may be promoted in spite of warnings.
PromoteReviewed(event) ==
  /\ Decide(event)
  /\ candidate.warnings = {} \/ candidate.state = "operator_review_required"
  /\ candidate' = [candidate EXCEPT !.state = "promoted_local_trust",
                                    !.level = "local_manual_trust", !.promotion = event]

Promote(event) ==
  /\ Decide(event)
  /\ candidate.warnings = {}
  /\ candidate' = [candidate EXCEPT !.state = "promoted_local_trust",
                                    !.level = "local_manual_trust", !.promotion = event]

Revoke(event) ==
  /\ Decide(event)
  /\ candidate' = [candidate EXCEPT !.state = "revoked", !.level = "untrusted", !.ending = event]

Contradicts(e, f) == Missing \notin {e[f], candidate.evidence[f]} /\ e[f] # candidate.evidence[f]

\* Mutant: the state follows the warnings.
ApplyLatest(e) ==
  /\ candidate # NoCandidate
  /\ LET warnings == {f \in Fields : Contradicts(e, f)} IN
       /\ candidate' = [candidate EXCEPT !.warnings = warnings,
            !.state = IF warnings = {} THEN "candidate_observed" ELSE "changed_lineage_warning"]
       /\ unreviewed' = (unreviewed \/ warnings # {})
  /\ latest' = e

Apply(e) ==
  /\ candidate # NoCandidate
  /\ LET warnings == {f \in Fields : Contradicts(e, f)} IN
       /\ candidate' = [candidate EXCEPT !.warnings = warnings,
            !.state = IF warnings = {} THEN @ ELSE "changed_lineage_warning"]
       /\ unreviewed' = (unreviewed \/ warnings # {})
  /\ latest' = e

-----------------------------------------------------------------------------
Next ==
  \/ \E e \in Evidence : Observe(e) \/ Apply(e)
  \/ \E event \in Events \cup {Missing} : Review(event) \/ Promote(event) \/ Revoke(event)

Spec == Init /\ [][Next]_vars

-----------------------------------------------------------------------------
(* Properties *)

\* "candidate state is not promoted without explicit operator action": a promoted
\* candidate has had its event, and what was observed last, whenever that was, does
\* not contradict the evidence it was promoted for.
PromotedIsUncontradicted ==
  candidate # NoCandidate /\ candidate.state = "promoted_local_trust" =>
    candidate.promotion \in Events /\ \A f \in Fields : ~Contradicts(latest, f)

\* "changed signer/device/key lineage is loud": once contradicted, a candidate
\* stays in the state of warning until the operator decides, even if the old
\* evidence is seen again and the warnings are gone.
ChangeWaitsForOperator ==
  unreviewed => candidate.state = "changed_lineage_warning"

-----------------------------------------------------------------------------
(* The inductive invariant *)

TypeOK ==
  /\ candidate \in Candidate \cup {NoCandidate}
  /\ unreviewed \in BOOLEAN
  /\ latest \in Evidence

\* The warnings are those of the last observation.
WarningsAreLatest ==
  candidate # NoCandidate => candidate.warnings = {f \in Fields : Contradicts(latest, f)}

IInv ==
  /\ TypeOK
  /\ candidate = NoCandidate => ~unreviewed
  /\ WarningsAreLatest
  /\ PromotedIsUncontradicted
  /\ ChangeWaitsForOperator
=============================================================================
