------------------------------ MODULE MCDevice ------------------------------
(* The parts of a device in small; requests, inputs and receipts of each run. *)
EXTENDS Device, TLC
CONSTANTS p1, p2, p3, k1, w1, w2, flow, other

\* The arguments that callers of a recovery classification give.
SomeInputs ==
  LET none == [known |-> "none", mismatch |-> "none", blocks |-> TRUE, candidate |-> "observed"]
  IN  {none,
       [none EXCEPT !.known = "changed"], [none EXCEPT !.known = "revoked"],
       [none EXCEPT !.mismatch = "review_required_conflict"],
       [none EXCEPT !.mismatch = "review_required_conflict", !.blocks = FALSE,
                    !.candidate = "conflicts_known_device"],
       [none EXCEPT !.mismatch = "blocked_compromised"],
       [none EXCEPT !.candidate = "rejected"],
       [none EXCEPT !.mismatch = "candidate_only", !.candidate = "rejected"],
       [known |-> "revoked", mismatch |-> "blocked_compromised", blocks |-> TRUE,
        candidate |-> "rejected"]}

\* Receipts of the conversation, of another device, and of another space and conversation.
ForeignSome == (k1 :> {"device"} @@ w1 :> {}) @@ (w2 :> {"space", "conversation"})
ForeignNone == k1 :> {} @@ w1 :> {}

\* Every inspection; a member that is "pending" is treated as "unknown".
Inspections ==
  {r \in [workflow : {Nothing}, member : {"active", "inactive", "unknown", "unsupported"},
          group : {"auto", "present", "absent", "unknown", "unsupported"},
          probe : {"derived", "explicit"},
          kp : {k1, Nothing}, welcome : {w1, w2, Nothing}] :
     r.group # "auto" => r.probe = "derived"}

\* Calls of two workflows that share a report directory; a group that is looked
\* for, and one that the command line vouches for.
WorkflowRequests ==
  {r \in [workflow : {flow, other}, member : {"active"}, group : {"auto", "present"},
          probe : {"explicit"}, kp : {k1}, welcome : {w1}] :
     r.workflow = flow <=> r.group = "auto"}

\* Two commands at a time have none of the commands for Relay Spaces; these, and
\* the commands that issue, run one at a time.  An inspection keeps nothing that a
\* later one reads: after an answer, only the same one is made again.  The evidence
\* a binding is observed with is of one value: values are compared for equality,
\* field by field, and may be exchanged in any of them.
Distinct ==
  /\ part = "state" =>
       \A p \in Writers : stateCmd'[p].kind \notin {"list", "invite", "space", "member"}
  /\ part = "space" =>
       statePc'[p2] = "idle" /\ stateCmd'[p1].kind \notin {"list", "use"}
  /\ part = "inspection" /\ inspectAnswer[p1] # Nothing =>
       inspectCmd'[p1] \in {Nothing, inspectAnswer[p1].request}
  /\ part = "binding" => binding'.evidence = [f \in Binding!Fields |-> CHOOSE v \in Values : TRUE]

Symmetry == Permutations(Inspectors)
=============================================================================
