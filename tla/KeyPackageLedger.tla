------------------------- MODULE KeyPackageLedger -------------------------
(***************************************************************************)
(* What the KeyPackage lifecycle promises, without files, locks or         *)
(* failures: an append-only ledger of generations.  Issuing appends one    *)
(* generation that is newer than every earlier one, answers a request that *)
(* had none, holds a key of its own, and becomes current.  Retiring marks  *)
(* one generation that is not current; nothing is ever taken back.         *)
(***************************************************************************)
EXTENDS Integers

CONSTANT Entry  \* records with the fields seq, req and key

VARIABLES ledger, current, retired

vars == <<ledger, current, retired>>

Init ==
  /\ ledger = {}
  /\ current = 0
  /\ retired = {}

Issue(g) ==
  /\ \A h \in ledger : h.seq < g.seq /\ h.req # g.req /\ h.key # g.key
  /\ ledger' = ledger \cup {g}
  /\ current' = g.seq
  /\ UNCHANGED retired

Retire(g) ==
  /\ g \in ledger \ retired
  /\ g.seq # current
  /\ retired' = retired \cup {g}
  /\ UNCHANGED <<ledger, current>>

Next == \E g \in Entry : Issue(g) \/ Retire(g)

Spec == Init /\ [][Next]_vars
===========================================================================
