-------------------------- MODULE CandidatePolicy --------------------------
(***************************************************************************)
(* What the candidate store promises: a candidate is stored once, in a     *)
(* state that its observer gives it, then moves along the allowed review   *)
(* transitions, one candidate at a time; nothing else changes its state,   *)
(* except that the whole store can become unreadable, for good.            *)
(***************************************************************************)
CONSTANTS Candidates, States, Transition, Lost

VARIABLE status

Init == status = [c \in Candidates |-> "none"]

Readable == status # Lost

Observe(c) ==
  /\ Readable /\ status[c] = "none"
  /\ \E s \in States : status' = [status EXCEPT ![c] = s]

Review(c) ==
  /\ Readable
  /\ \E s \in {t[2] : t \in {u \in Transition : u[1] = status[c]}} :
       status' = [status EXCEPT ![c] = s]

Lose == Readable /\ status' = Lost

Next == Lose \/ \E c \in Candidates : Observe(c) \/ Review(c)

Spec == Init /\ [][Next]_status
=============================================================================
