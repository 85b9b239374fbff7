------------------------------ MODULE Admission ------------------------------
(***************************************************************************)
(* What KeyPackages and Welcomes promise between devices: a device is in a *)
(* conversation of another only after it has been admitted there, and it   *)
(* is admitted only after it has offered a KeyPackage.                     *)
(***************************************************************************)
CONSTANTS Devices, Conversations

VARIABLES
  offered,   \* the devices that have offered a KeyPackage
  admitted,  \* pairs of a conversation and the device it has admitted
  entered    \* pairs of a conversation and a device that has joined it

Init == offered = {} /\ admitted = {} /\ entered = {}

Offer(d) ==
  /\ offered' = offered \cup {d}
  /\ UNCHANGED <<admitted, entered>>

Admit(c, d) ==
  /\ d \in offered
  /\ admitted' = admitted \cup {<<c, d>>}
  /\ UNCHANGED <<offered, entered>>

Enter(c, d) ==
  /\ <<c, d>> \in admitted \ entered
  /\ entered' = entered \cup {<<c, d>>}
  /\ UNCHANGED <<offered, admitted>>

Next ==
  \E d \in Devices : Offer(d) \/ \E c \in Conversations : Admit(c, d) \/ Enter(c, d)

Spec == Init /\ [][Next]_<<offered, admitted, entered>>
=============================================================================
