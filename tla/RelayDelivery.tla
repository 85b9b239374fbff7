--------------------------- MODULE RelayDelivery ---------------------------
(***************************************************************************)
(* The promise of every Comms command that takes an envelope from a relay  *)
(* inbox: an envelope is acknowledged only after the device has processed  *)
(* it for good, and neither fact is ever taken back.  An acknowledged      *)
(* envelope is never delivered again, so one that was not processed would  *)
(* be lost.                                                                *)
(***************************************************************************)
CONSTANT Envelopes

VARIABLES processed, acknowledged

vars == <<processed, acknowledged>>

Init ==
  /\ processed = {}
  /\ acknowledged = {}

Process(e) ==
  /\ processed' = processed \cup {e}
  /\ UNCHANGED acknowledged

Acknowledge(e) ==
  /\ e \in processed
  /\ acknowledged' = acknowledged \cup {e}
  /\ UNCHANGED processed

Next == \E e \in Envelopes : Process(e) \/ Acknowledge(e)

Spec == Init /\ [][Next]_vars
=============================================================================
