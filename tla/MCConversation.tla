--------------------------- MODULE MCConversation ---------------------------
(* Small instances of Conversation for TLC. *)
EXTENDS Conversation, TLC

CONSTANTS e1, e2, m1, m2

\* A message of the peer in each of two epochs.
EpochOfMessage == (m1 :> e1) @@ (m2 :> e2)
=============================================================================
