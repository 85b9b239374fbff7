--------------------------- MODULE MCMessageRelay ---------------------------
(* Two labels and two envelopes, which carry messages or anything else. *)
EXTENDS MessageRelay, TLC
CONSTANTS e1, e2, l1, l2, p1, p2

\* What keeps the model small.  Envelopes are posted in order, and at most one that
\* is no message.  Sends and inboxes, which meet only at the relay, run at different
\* times, l2 before any inbox.  An inbox finds no abandoned message directory; two
\* inboxes run at a time when no sends have overlapped, one of them with --limit 1
\* and --ack.
Distinct ==
  LET sends == {p \in Procs : cmd'[p].kind = "send"}
      inboxes == {p \in Procs : cmd'[p].kind = "inbox"} IN
  /\ relay'[e2] # "unsent" => relay'[e1] # "unsent"
  /\ content'[e1] \in Other => content'[e2] \notin Other
  /\ sends # {} => inboxes = {}
  /\ inboxes # {} =>
       /\ artifact'[l2] = Absent /\ storage'["send"] # Torn
       /\ artifact'[l1] # Absent => \E e \in Envelopes : content'[e] = artifact'[l1]
  /\ p2 \in inboxes => "send" \notin overlapped' /\ cmd'[p2].limit = 1 /\ cmd'[p2].ack
  /\ (\E p \in sends : cmd'[p].label = l2) =>
       storage'["inbox"] = {} /\ opened' = {} /\ "inbox" \notin overlapped'
=============================================================================
