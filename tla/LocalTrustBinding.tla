------------------------- MODULE LocalTrustBinding --------------------------
(***************************************************************************)
(* The local trust binding v1: a value that calls of the trust package     *)
(* take and return changed.  A binding holds the evidence it was observed  *)
(* with; a change compares newly seen values with that evidence, never     *)
(* with those of an earlier change.  Any call may follow any other.        *)
(*                                                                         *)
(*   binding   none, or state, evidence, the events of its promotion and   *)
(*             of its demotion or revocation, and its warnings             *)
(*                                                                         *)
(* and, to state properties,                                               *)
(*                                                                         *)
(*   seen      the fields for which a change of value has been applied     *)
(***************************************************************************)
EXTENDS Naturals, Sequences

CONSTANTS Values, Missing, Events, NoBinding

VARIABLES binding, seen

vars == <<binding, seen>>

\* "key" stands for the KeyPackage fingerprint, its lineage and the credential.
Fields == {"signer", "device", "key", "account", "space"}

Changed == {"changed_signer_warning", "changed_device_warning", "changed_key_lineage_warning"}

\* Warnings about a field are named for it.
Warning == Fields \cup {"promoted_local_trust", "demoted", "revoked"}

Binding ==
  [state : Changed \cup {"candidate_observed", "promoted_local_trust", "demoted", "revoked"},
   evidence : [Fields -> Values], promotion : Events \cup {Missing},
   ending : Events \cup {Missing}, warnings : SUBSET Warning]

\* What the constants are assumed to be.
MissingAssumption == Missing \notin Values \cup Events /\ NoBinding \notin Binding

Init == binding = NoBinding /\ seen = {}

-----------------------------------------------------------------------------
Candidate(e) ==
  [state |-> "candidate_observed", evidence |-> e, promotion |-> Missing, ending |-> Missing,
   warnings |-> {}]

\* Whatever it was observed by (a membership, a join, a provider, a publication),
\* a binding starts as a candidate.
Observe(e) ==
  /\ binding = NoBinding
  /\ binding' = Candidate(e)
  /\ UNCHANGED seen

\* Mutant: only a promoted binding cannot be promoted.
PromoteUnlessPromoted(event) ==
  /\ binding # NoBinding
  /\ binding.state # "promoted_local_trust"
  /\ event # Missing
  /\ binding' = [binding EXCEPT !.state = "promoted_local_trust", !.promotion = event,
                                !.warnings = @ \cup {"promoted_local_trust"}]
  /\ UNCHANGED seen

Promote(event) ==
  /\ binding # NoBinding
  /\ binding.state = "candidate_observed"
  /\ event # Missing
  /\ binding' = [binding EXCEPT !.state = "promoted_local_trust", !.promotion = event,
                                !.warnings = @ \cup {"promoted_local_trust"}]
  /\ UNCHANGED seen

Differs(change, f) == change[f] \notin {Missing, binding.evidence[f]}

\* The fields that move the state, and where to; the first one that does wins.
Order == <<"signer", "device", "key", "account">>
MovesTo == [signer |-> "changed_signer_warning", device |-> "changed_device_warning",
            key |-> "changed_key_lineage_warning", account |-> "changed_device_warning"]

ChangedState(change) ==
  LET Moves(i) == Differs(change, Order[i]) /\ MovesTo[Order[i]] # binding.state
  IN  IF \A i \in 1..Len(Order) : ~Moves(i) THEN binding.state
      ELSE MovesTo[Order[CHOOSE i \in 1..Len(Order) : Moves(i) /\ \A j \in 1..i - 1 : ~Moves(j)]]

\* Mutant: the warnings of this change only.
ApplyAnew(change) ==
  /\ binding # NoBinding
  /\ LET fields == {f \in Fields : Differs(change, f)} IN
       /\ binding' = [binding EXCEPT !.state = ChangedState(change), !.warnings = fields]
       /\ seen' = seen \cup fields

Apply(change) ==
  /\ binding # NoBinding
  /\ LET fields == {f \in Fields : Differs(change, f)} IN
       /\ binding' = [binding EXCEPT !.state = ChangedState(change), !.warnings = @ \cup fields]
       /\ seen' = seen \cup fields

\* Demote and revoke, from any state.
End(state, event) ==
  /\ binding # NoBinding
  /\ event # Missing
  /\ binding' = [binding EXCEPT !.state = state, !.ending = event, !.warnings = @ \cup {state}]
  /\ UNCHANGED seen

Demote(event) == End("demoted", event)
Revoke(event) == End("revoked", event)

-----------------------------------------------------------------------------
Evidence == [Fields -> Values]
Changes == [Fields -> Values \cup {Missing}]

Next ==
  \/ \E e \in Evidence : Observe(e)
  \/ \E c \in Changes : Apply(c)
  \/ \E event \in Events \cup {Missing} : Promote(event) \/ Demote(event) \/ Revoke(event)

Spec == Init /\ [][Next]_vars

-----------------------------------------------------------------------------
(* Properties *)

\* "Promotion requires explicit operator event": a binding that is promoted has
\* had one, and no value that contradicts its evidence was ever applied to it,
\* other than its Relay Space, in any order of calls.
PromotedIsClean ==
  binding # NoBinding /\ binding.state = "promoted_local_trust" =>
    binding.promotion \in Events /\ seen \subseteq {"space"}

\* "Changed signer/device/key lineage is loud": what was ever changed stays among
\* the warnings, and a binding with such a change rests in a state of warning or
\* has been ended by an explicit event.
ChangeIsLoud ==
  binding # NoBinding =>
    /\ seen \subseteq binding.warnings
    /\ seen \ {"space"} # {} => \/ binding.state \in Changed
                                \/ binding.state \in {"demoted", "revoked"} /\ binding.ending \in Events

-----------------------------------------------------------------------------
(* The inductive invariant *)

TypeOK == binding \in Binding \cup {NoBinding} /\ seen \subseteq Fields

\* Nothing but the Relay Space of a candidate was changed: a promotion is clean.
CandidateIsClean ==
  binding # NoBinding /\ binding.state = "candidate_observed" => seen \subseteq {"space"}

IInv ==
  /\ TypeOK
  /\ binding = NoBinding => seen = {}
  /\ CandidateIsClean
  /\ PromotedIsClean
  /\ ChangeIsLoud
=============================================================================
