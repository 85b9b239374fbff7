----------------------------- MODULE TrustPolicy -----------------------------
(***************************************************************************)
(* What the trust store promises: each device has one trust state and one  *)
(* key; the user verifies, re-keys and revokes one device at a time, and   *)
(* nothing else changes what is recorded of a device, except that the      *)
(* whole record can become unreadable, for good.                           *)
(***************************************************************************)
CONSTANTS Devices, Keys, NoKey, Lost

VARIABLE trust

Record == [state : {"verified", "changed", "revoked"}, key : Keys]
Unknown == [state |-> "unknown", key |-> NoKey]

Init == trust = [d \in Devices |-> Unknown]

Readable == trust # Lost

\* trust becomes t in which device d alone has another record.
Becomes(d, r) == trust' = [trust EXCEPT ![d] = r]

Verify(d, k) == Readable /\ Becomes(d, [state |-> "verified", key |-> k])

Change(d, k) ==
  /\ Readable /\ trust[d] # Unknown
  /\ Becomes(d, [state |-> "changed", key |-> k])

Revoke(d) ==
  /\ Readable /\ trust[d] # Unknown
  /\ Becomes(d, [state |-> "revoked", key |-> trust[d].key])

Lose == Readable /\ trust' = Lost

Next ==
  \/ \E d \in Devices : Revoke(d) \/ \E k \in Keys : Verify(d, k) \/ Change(d, k)
  \/ Lose

Spec == Init /\ [][Next]_trust
=============================================================================
