-------------------------- MODULE MCGroupHandshake --------------------------
(* One device with two generations, and one with two bundles. *)
EXTENDS GroupHandshake, TLC, Naturals, FiniteSets
CONSTANTS alice, bob, g1, g2, b1, b2, p1, p2, c1

MCOwner == g1 :> alice @@ g2 :> alice @@ b1 :> bob @@ b2 :> bob
Symmetry == Permutations(Procs) \cup Permutations(Bundles)

\* The generation that goes to the relay is g1; g2 comes after it, so that g1 can be
\* retired, and neither expires nor is asked for.  Once g1 is queued, another publish of
\* it changes nothing, and one that has expired or has been retired is refused.
FirstGeneration ==
  /\ status[g2] # "none" => status[g1] # "none"
  /\ status[g2] # "retired" /\ g2 \notin expired
  /\ \A p \in Procs : cmd[p].kind = "publish" => cmd[p].generation = g1 /\ posted[g1] = 0
  /\ status[g2] # "none" \/ expired # {} => \E p \in Procs : cmd[p].kind = "publish"

\* Two commands that run at a time are both of the owner, both exports or both
\* publications: the rest have in common the queue of the relay, which each uses in a
\* single step.  What follows a Welcome does not read that queue.
Kinds == {{"publish"}, {"export", "submit"}, {"add", "file"}}
OneParty ==
  /\ \E kinds \in Kinds : \A p \in Procs : cmd[p].kind \in kinds \cup {"none"}
  /\ invited # {} => \A p \in Procs : cmd[p].kind \in {"add", "file", "none"}

\* The relay carries at most two KeyPackages and two Welcomes.
TwoEnvelopes ==
  /\ posted[g1] + posted[b1] + posted[b2] <= 2
  /\ Cardinality(mail) <= 2

Bounds == FirstGeneration /\ OneParty /\ TwoEnvelopes
=============================================================================
