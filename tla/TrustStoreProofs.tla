-------------------------- MODULE TrustStoreProofs --------------------------
(***************************************************************************)
(* Machine-checked for any processes, devices and keys.  Whatever updates  *)
(* race and whatever writes fail (IInv): a device recorded as verified has *)
(* a key the user accepted, and strict sends go to accepted devices only.  *)
(* While updates do not overlap, sends beside them (Serial): the history   *)
(* agrees with the store, a revoked device is blocked, and the updates     *)
(* implement TrustPolicy.                                                  *)
(***************************************************************************)
EXTENDS TrustStore, TLAPS

LEMMA CommandFields ==
  ASSUME NEW c \in Command
  PROVE  /\ c.kind \in {"verify", "change", "revoke", "send"}
         /\ c.device \in Devices
         /\ c.kind \in {"verify", "change"} => c.key \in Keys
         /\ c.kind = "send" => c.strict \in BOOLEAN
         /\ c # NoCommand
BY DEF Command, NoCommand

LEMMA NoCommandKind == NoCommand.kind = "none"
BY DEF NoCommand

LEMMA EmptyStore ==
  /\ NoStore \in Store
  /\ \A d \in Devices : NoStore[d].state # "verified"
BY DEF NoStore, Store, Unknown

\* The record an update puts in the store.
LEMMA UpdatedStore ==
  ASSUME NEW p \in Procs, store \in Store, cmd[p].device \in Devices,
         NEW s \in {"verified", "changed", "revoked"}, NEW k \in Keys
  PROVE  /\ Updated(p, s, k) \in Store
         /\ \A d \in Devices : Updated(p, s, k)[d] =
              IF d = cmd[p].device THEN [state |-> s, key |-> k] ELSE store[d]
BY DEF Updated, Store, Record

LEMMA InitIInv == Init => IInv
<1> SUFFICES ASSUME Init PROVE IInv
  OBVIOUS
<1>1. TypeOK
  BY EmptyStore DEF Init, TypeOK
<1>2. VerifiedWasAccepted
  BY EmptyStore DEF Init, VerifiedWasAccepted
<1>3. ASSUME NEW p \in Procs PROVE Justified(p)
  BY <1>3, EmptyStore, NoCommandKind DEF Init, Justified
<1>4. QED
  BY <1>1, <1>2, <1>3 DEF IInv

LEMMA StartPreserves ==
  ASSUME IInv, NEW p \in Procs, NEW c \in Command, Start(p, c)
  PROVE  IInv'
<1> USE DEF IInv, Start, Goto, files
<1>1. accepted \subseteq accepted' /\ accepted' \subseteq Devices \X Keys
  BY CommandFields DEF TypeOK
<1>2. TypeOK'
  BY <1>1 DEF TypeOK
<1>3. VerifiedWasAccepted'
  BY <1>1 DEF VerifiedWasAccepted
<1>4. ASSUME NEW q \in Procs PROVE Justified(q)'
  <2>1. CASE q = p
    BY <1>1, <2>1, CommandFields DEF Justified, TypeOK
  <2>2. CASE q # p
    BY <1>1, <2>2 DEF Justified, TypeOK
  <2>3. QED
    BY <2>1, <2>2
<1>5. QED
  BY <1>2, <1>3, <1>4

\* An update that has put record [s, k] in its memory.
LEMMA LoadPreserves ==
  ASSUME IInv, NEW p \in Procs, store # Torn, pc[p] = "load", cmd[p].kind # "send",
         NEW s \in {"verified", "changed", "revoked"}, NEW k \in Keys,
         s = "verified" => <<cmd[p].device, k>> \in accepted,
         memory' = [memory EXCEPT ![p] = Updated(p, s, k)],
         Goto(p, "truncate"), UNCHANGED <<files, cmd, ghosts>>
  PROVE  IInv'
<1> USE DEF IInv, Goto, files, ghosts
<1>0. cmd[p] \in Command /\ cmd[p].device \in Devices /\ store \in Store
  BY CommandFields DEF TypeOK, Justified
<1>1. Updated(p, s, k) \in Store
  BY <1>0, UpdatedStore
<1>2. \A d \in Devices : Updated(p, s, k)[d].state = "verified"
                           => <<d, Updated(p, s, k)[d].key>> \in accepted
  <2>1. ASSUME NEW d \in Devices, Updated(p, s, k)[d].state = "verified"
        PROVE  <<d, Updated(p, s, k)[d].key>> \in accepted
    <3>1. CASE d = cmd[p].device
      <4>1. Updated(p, s, k)[d] = [state |-> s, key |-> k]
        BY <1>0, <3>1, UpdatedStore
      <4>2. QED
        BY <2>1, <3>1, <4>1
    <3>2. CASE d # cmd[p].device
      <4>1. Updated(p, s, k)[d] = store[d]
        BY <1>0, <3>2, UpdatedStore
      <4>2. QED
        BY <2>1, <4>1 DEF VerifiedWasAccepted
    <3>3. QED
      BY <3>1, <3>2
  <2>2. QED
    BY <2>1
<1>3. TypeOK'
  BY <1>1 DEF TypeOK
<1>4. VerifiedWasAccepted'
  BY DEF VerifiedWasAccepted
<1>5. ASSUME NEW q \in Procs PROVE Justified(q)'
  <2>1. CASE q = p
    BY <1>0, <1>2, <2>1, CommandFields DEF Justified, TypeOK
  <2>2. CASE q # p
    <3>1. memory'[q] = memory[q] /\ pc'[q] = pc[q]
      BY <2>2 DEF TypeOK
    <3>2. QED
      BY <1>5, <3>1 DEF Justified
  <2>3. QED
    BY <2>1, <2>2
<1>6. QED
  BY <1>3, <1>4, <1>5

LEMMA UpdatePreserves ==
  ASSUME IInv, NEW p \in Procs, Update(p)
  PROVE  IInv'
<1> USE DEF IInv
<1>0. TypeOK /\ VerifiedWasAccepted /\ Justified(p)
  OBVIOUS
<1>1. cmd[p] # NoCommand => cmd[p] \in Command /\ cmd[p].device \in Devices
  BY <1>0, CommandFields DEF TypeOK
<1>2. CASE VerifyDevice(p)
  <2>1. cmd[p].key \in Keys
    BY <1>0, <1>2, CommandFields, NoCommandKind DEF VerifyDevice, TypeOK
  <2>2. <<cmd[p].device, cmd[p].key>> \in accepted
    BY <1>0, <1>2 DEF VerifyDevice, Justified
  <2>3. QED
    BY <1>2, <2>1, <2>2, LoadPreserves DEF VerifyDevice
<1>3. CASE MarkDeviceChanged(p)
  <2>1. cmd[p].key \in Keys
    BY <1>0, <1>3, CommandFields, NoCommandKind DEF MarkDeviceChanged, TypeOK
  <2>2. QED
    BY <1>3, <2>1, LoadPreserves DEF MarkDeviceChanged
<1>4. CASE RevokeDevice(p)
  <2>1. store[cmd[p].device].key \in Keys
    BY <1>0, <1>1, <1>4, NoCommandKind DEF RevokeDevice, TypeOK, Store, Record
  <2>2. QED
    BY <1>4, <2>1, LoadPreserves DEF RevokeDevice
<1>5. CASE Truncate(p) \/ Write(p)
  <2> USE DEF Truncate, Write, Goto, ghosts
  <2>1. TypeOK'
    BY <1>5 DEF TypeOK
  <2>2. VerifiedWasAccepted'
    BY <1>0, <1>5 DEF VerifiedWasAccepted, Justified
  <2>3. ASSUME NEW q \in Procs PROVE Justified(q)'
    BY <1>5, <2>3 DEF Justified, TypeOK
  <2>4. QED
    BY <2>1, <2>2, <2>3
<1>6. CASE AppendEvent(p)
  <2> USE DEF AppendEvent, Return, Goto
  <2>1. cmd[p].device \in Devices
    BY <1>0, <1>1, <1>6 DEF Justified
  <2>2. memory[p] \in Store /\ memory[p][cmd[p].device] \in Record \cup {Unknown}
    BY <2>1 DEF TypeOK, Store
  <2>3. TypeOK'
    BY <1>6, <2>1, <2>2, EmptyStore DEF TypeOK, Store
  <2>4. VerifiedWasAccepted'
    BY <1>6 DEF VerifiedWasAccepted
  <2>5. ASSUME NEW q \in Procs PROVE Justified(q)'
    BY <1>6, <2>5, EmptyStore, NoCommandKind DEF Justified, TypeOK
  <2>6. QED
    BY <2>3, <2>4, <2>5
<1>7. QED
  BY <1>2, <1>3, <1>4, <1>5, <1>6 DEF Update

\* A strict send passes the check only for a verified device.
LEMMA SendPreserves ==
  ASSUME IInv, NEW p \in Procs, EvaluateSend(p)
  PROVE  IInv'
<1> USE DEF IInv, EvaluateSend, Goto, files, ghosts
<1>0. cmd[p] \in Command /\ cmd[p].device \in Devices /\ store \in Store
      /\ cmd[p].strict \in BOOLEAN
  BY CommandFields, NoCommandKind DEF TypeOK
<1>1. cmd[p].strict => /\ store[cmd[p].device].state = "verified"
                       /\ store[cmd[p].device].key \in Keys
  BY <1>0 DEF Allowed, Store, Record, Unknown
<1>2. cmd[p].strict => \E k \in Keys : <<cmd[p].device, k>> \in accepted
  BY <1>0, <1>1 DEF VerifiedWasAccepted
<1>3. TypeOK' /\ VerifiedWasAccepted'
  BY DEF TypeOK, VerifiedWasAccepted
<1>4. ASSUME NEW q \in Procs PROVE Justified(q)'
  BY <1>2, <1>4 DEF Justified, TypeOK
<1>5. QED
  BY <1>3, <1>4

LEMMA ReturnPreserves ==
  ASSUME IInv, NEW p \in Procs, Submit(p) \/ Fail(p)
  PROVE  IInv'
<1> USE DEF IInv, Submit, Fail, Return, Goto, files, ghosts
<1>1. pc[p] = "append" => cmd[p].device \in Devices
  BY CommandFields DEF TypeOK, Justified
<1>2. TypeOK'
  BY <1>1, EmptyStore DEF TypeOK
<1>3. VerifiedWasAccepted'
  BY DEF VerifiedWasAccepted
<1>4. ASSUME NEW q \in Procs PROVE Justified(q)'
  <2>1. CASE q = p
    <3>1. pc'[q] = "idle" /\ cmd'[q] = NoCommand /\ memory'[q] = NoStore
      BY <2>1 DEF TypeOK
    <3>2. QED
      BY <3>1, EmptyStore, NoCommandKind DEF Justified
  <2>2. CASE q # p
    <3>1. pc'[q] = pc[q] /\ cmd'[q] = cmd[q] /\ memory'[q] = memory[q] /\ accepted' = accepted
      BY <2>2 DEF TypeOK
    <3>2. QED
      BY <1>4, <3>1 DEF Justified
  <2>3. QED
    BY <2>1, <2>2
<1>5. QED
  BY <1>2, <1>3, <1>4

LEMMA NextIInv == IInv /\ [Next]_vars => IInv'
<1> SUFFICES ASSUME IInv, [Next]_vars PROVE IInv'
  OBVIOUS
<1>1. CASE UNCHANGED vars
  BY <1>1 DEF vars, files, ghosts, IInv, TypeOK, VerifiedWasAccepted, Justified
<1>2. CASE Next
  BY <1>2, StartPreserves, UpdatePreserves, SendPreserves, ReturnPreserves DEF Next
<1>3. QED
  BY <1>1, <1>2

-----------------------------------------------------------------------------
(* Theorems *)

\* The strengthened invariant holds with any number of unlocked processes.
THEOREM Inductive == Spec => []IInv
<1>1. QED
  BY InitIInv, NextIInv, PTL DEF Spec

\* Lost updates and torn writes never make the store call a key verified that
\* the user has not accepted for the device.
THEOREM VerifiedKeysWereAccepted == Spec => []VerifiedWasAccepted
<1>1. IInv => VerifiedWasAccepted
  BY DEF IInv
<1>2. QED
  BY <1>1, Inductive, PTL

\* A strict send submits only to devices for which the user accepted a key.
THEOREM StrictSendsGoToAccepted == Spec => StrictSendsAccepted
<1> DEFINE A == \A p \in Procs :
                  Submit(p) /\ cmd[p].strict => \E k \in Keys : <<cmd[p].device, k>> \in accepted
<1>1. IInv => A
  BY DEF IInv, Justified, Submit
<1>2. IInv /\ [Next]_vars => [A]_vars
  BY <1>1
<1> HIDE DEF A
<1>3. Spec => [][A]_vars
  BY <1>2, Inductive, PTL DEF Spec
<1>4. QED
  BY <1>3 DEF A, StrictSendsAccepted

\* Every state, torn and lost writes included, is well typed.
THEOREM TypeCorrect == Spec => []TypeOK
<1>1. IInv => TypeOK
  BY DEF IInv
<1>2. QED
  BY <1>1, Inductive, PTL

-----------------------------------------------------------------------------
(* One update at a time: any number of processes, whose sends overlap the    *)
(* update and each other                                                     *)

\* While p updates, the others are idle, about to load for a send, or sending.
LEMMA OthersRead ==
  ASSUME IInv, UpdatesApart, NEW p \in Procs, Updates(p), NEW q \in Procs, q # p
  PROVE  pc[q] \notin {"truncate", "write", "append"} /\ ~Updates(q)
<1>1. TypeOK /\ Justified(q) /\ ~Updates(q)
  BY DEF IInv, UpdatesApart
<1>2. cmd[q] = NoCommand \/ cmd[q].kind = "send"
  BY <1>1, CommandFields DEF TypeOK, Updates
<1>3. QED
  BY <1>1, <1>2 DEF Justified

\* A process at one of these positions updates.
LEMMA PositionUpdates ==
  ASSUME IInv, NEW p \in Procs, pc[p] \in {"truncate", "write", "append"}
  PROVE  Updates(p) /\ cmd[p] \in Command /\ cmd[p].device \in Devices
<1>1. TypeOK /\ Justified(p)
  BY DEF IInv
<1>2. cmd[p] \in Command /\ cmd[p].kind # "send"
  BY <1>1 DEF TypeOK, Justified
<1>3. QED
  BY <1>2, CommandFields DEF Updates

\* What Serial says of a process is kept by steps that leave the process and what it
\* looks at alone.
LEMMA Untouched ==
  ASSUME NEW q \in Procs, InStep(q), HistoryInStep(q), RevocationInStep(q),
         UNCHANGED <<store, history>>, revoked' \subseteq revoked, unrecorded \subseteq unrecorded',
         pc'[q] = pc[q], cmd'[q] = cmd[q], memory'[q] = memory[q]
  PROVE  InStep(q)' /\ HistoryInStep(q)' /\ RevocationInStep(q)'
BY DEF InStep, HistoryInStep, RevocationInStep, Updated

\* A process that does not write is in step.
LEMMA ReaderInStep ==
  ASSUME NEW q \in Procs, pc[q] \notin {"truncate", "write", "append"},
         cmd[q].kind \notin {"verify", "change"}
  PROVE  InStep(q) /\ HistoryInStep(q) /\ RevocationInStep(q)
BY DEF InStep, HistoryInStep, RevocationInStep

\* A command starts: a verify or a change takes its device off the revoked ones,
\* and no other update is under way.
LEMMA SerialStart ==
  ASSUME IInv, UpdatesApart', Serial, NEW p \in Procs, NEW c \in Command, Start(p, c)
  PROVE  Serial'
<1>0. /\ TypeOK /\ pc[p] = "idle" /\ pc' = [pc EXCEPT ![p] = "load"]
      /\ cmd' = [cmd EXCEPT ![p] = c] /\ revoked' \subseteq revoked
      /\ c.kind \in {"verify", "change"} => c.device \notin revoked'
      /\ UNCHANGED <<store, history, memory, unrecorded>>
  BY DEF IInv, Start, Goto, files
<1>1. HistoryMatches'
  <2>1. (\A q \in Procs : pc'[q] # "append") => \A q \in Procs : pc[q] # "append"
    BY <1>0 DEF TypeOK
  <2>2. QED
    BY <1>0, <2>1 DEF Serial, HistoryMatches
<1>2. RevokedInStore'
  BY <1>0 DEF Serial, RevokedInStore
<1>3. ASSUME NEW q \in Procs PROVE InStep(q)' /\ HistoryInStep(q)' /\ RevocationInStep(q)'
  <2>1. CASE q = p
    BY <1>0, <2>1 DEF TypeOK, InStep, HistoryInStep, RevocationInStep
  <2>2. CASE q # p
    BY <1>0, <2>2, Untouched DEF TypeOK, Serial
  <2>3. QED
    BY <2>1, <2>2
<1>4. QED
  BY <1>1, <1>2, <1>3 DEF Serial

\* A step that leaves the files and the ghosts alone and brings p to a position
\* before or after its update.
LEMMA SerialRead ==
  ASSUME IInv, Serial, NEW p \in Procs, EvaluateSend(p) \/ Submit(p)
  PROVE  Serial'
<1>0. /\ TypeOK /\ pc[p] \in {"load", "submit"} /\ cmd'[p].kind \notin {"verify", "change"}
      /\ pc'[p] \in {"submit", "idle"}
      /\ \A q \in Procs : q # p => /\ pc'[q] = pc[q] /\ cmd'[q] = cmd[q]
                                   /\ memory'[q] = memory[q]
      /\ UNCHANGED <<store, history, revoked, unrecorded>>
  BY NoCommandKind DEF IInv, TypeOK, EvaluateSend, Submit, Return, Goto, files, ghosts
<1>1. HistoryMatches'
  BY <1>0 DEF Serial, HistoryMatches
<1>2. RevokedInStore'
  BY <1>0 DEF Serial, RevokedInStore
<1>3. ASSUME NEW q \in Procs PROVE InStep(q)' /\ HistoryInStep(q)' /\ RevocationInStep(q)'
  <2>1. CASE q = p
    BY <1>0, <2>1, ReaderInStep DEF InStep, HistoryInStep, RevocationInStep
  <2>2. CASE q # p
    BY <1>0, <2>2, Untouched DEF Serial
  <2>3. QED
    BY <2>1, <2>2
<1>4. QED
  BY <1>1, <1>2, <1>3 DEF Serial

\* An update loads the store and changes its record in memory.
LEMMA SerialLoad ==
  ASSUME IInv, UpdatesApart, Serial, NEW p \in Procs,
         VerifyDevice(p) \/ MarkDeviceChanged(p) \/ RevokeDevice(p)
  PROVE  Serial'
<1>0. /\ TypeOK /\ pc[p] = "load" /\ Updates(p) /\ store # Torn
      /\ pc' = [pc EXCEPT ![p] = "truncate"]
      /\ UNCHANGED <<store, history, cmd, revoked, unrecorded>>
      /\ cmd[p].kind # "verify" => store[cmd[p].device] # Unknown
  BY DEF IInv, VerifyDevice, MarkDeviceChanged, RevokeDevice, Goto, files, ghosts, Updates
<1>1. cmd[p] \in Command /\ cmd[p].device \in Devices /\ store \in Store
  BY <1>0, CommandFields, NoCommandKind DEF TypeOK, Updates
<1>2. /\ cmd[p].kind = "verify" => memory'[p] = Updated(p, "verified", cmd[p].key)
      /\ cmd[p].kind = "change" => memory'[p] = Updated(p, "changed", cmd[p].key)
      /\ cmd[p].kind = "revoke" =>
           memory'[p] = Updated(p, "revoked", store[cmd[p].device].key)
  BY <1>0 DEF TypeOK, VerifyDevice, MarkDeviceChanged, RevokeDevice
<1>3. \A d \in Devices : d # cmd[p].device => memory'[p][d] = store[d]
  BY <1>0, <1>1, <1>2 DEF Updates, Updated, Store
<1>4. \A q \in Procs : pc[q] # "append"
  BY <1>0, OthersRead
<1>5. \A d \in Devices \ unrecorded : history[d] = store[d]
  BY <1>0, <1>4 DEF Serial, HistoryMatches
<1>6. InStep(p)' /\ HistoryInStep(p)'
  BY <1>0, <1>2, <1>3, <1>5 DEF TypeOK, InStep, HistoryInStep, Updated
<1>7. RevocationInStep(p)'
  <2>1. cmd[p].kind = "revoke" => memory'[p][cmd[p].device].state = "revoked"
    <3>1. SUFFICES ASSUME cmd[p].kind = "revoke"
                   PROVE  memory'[p][cmd[p].device].state = "revoked"
      OBVIOUS
    <3>2. memory'[p] = [store EXCEPT ![cmd[p].device] =
                          [state |-> "revoked", key |-> store[cmd[p].device].key]]
      BY <1>2, <3>1 DEF Updated
    <3>3. QED
      BY <1>1, <3>2 DEF Store
  <2>2. cmd[p].kind \in {"verify", "change"} => cmd[p].device \notin revoked
    BY DEF Serial, RevocationInStep
  <2>3. \A d \in revoked : d \in Devices /\ store[d].state = "revoked"
    BY <1>0 DEF TypeOK, Serial, RevokedInStore
  <2>4. \A d \in revoked : memory'[p][d].state = "revoked"
    BY <1>0, <1>3, <2>1, <2>2, <2>3 DEF Updates
  <2>5. QED
    BY <1>0, <2>1, <2>2, <2>4 DEF RevocationInStep
<1>8. ASSUME NEW q \in Procs, q # p
      PROVE  InStep(q)' /\ HistoryInStep(q)' /\ RevocationInStep(q)'
  <2>1. memory'[q] = memory[q] /\ pc'[q] = pc[q]
    BY <1>0, <1>8 DEF TypeOK, VerifyDevice, MarkDeviceChanged, RevokeDevice
  <2>2. QED
    BY <1>0, <1>8, <2>1, Untouched DEF Serial
<1>9. HistoryMatches' /\ RevokedInStore'
  BY <1>0, <1>5 DEF Serial, HistoryMatches, RevokedInStore
<1>10. QED
  BY <1>6, <1>7, <1>8, <1>9 DEF Serial

\* The file is emptied and written again.
LEMMA SerialSave ==
  ASSUME IInv, UpdatesApart, Serial, NEW p \in Procs, Truncate(p) \/ Write(p)
  PROVE  Serial'
<1>0. /\ TypeOK /\ Updates(p) /\ InStep(p) /\ HistoryInStep(p) /\ RevocationInStep(p)
      /\ pc[p] \in {"truncate", "write"} /\ cmd[p].device \in Devices
      /\ UNCHANGED <<history, cmd, memory, revoked, unrecorded>>
      /\ \A q \in Procs : q # p => pc'[q] = pc[q]
  BY PositionUpdates DEF IInv, Serial, TypeOK, Truncate, Write, Goto, ghosts
<1>1. \/ pc'[p] = "write" /\ store' = Torn
      \/ pc'[p] = "append" /\ store' = memory[p]
  BY <1>0 DEF TypeOK, InStep, Truncate, Write, Goto
<1>2. InStep(p)' /\ HistoryInStep(p)' /\ RevocationInStep(p)'
  BY <1>0, <1>1 DEF InStep, HistoryInStep, RevocationInStep
<1>3. ASSUME NEW q \in Procs, q # p
      PROVE  InStep(q)' /\ HistoryInStep(q)' /\ RevocationInStep(q)'
  <2>1. pc'[q] \notin {"truncate", "write", "append"} /\ cmd'[q].kind \notin {"verify", "change"}
    BY <1>0, <1>3, OthersRead DEF Updates
  <2>2. QED
    BY <2>1 DEF InStep, HistoryInStep, RevocationInStep
<1>4. RevokedInStore'
  BY <1>0, <1>1 DEF RevocationInStep, RevokedInStore
<1>5. HistoryMatches'
  BY <1>1 DEF HistoryMatches
<1>6. QED
  BY <1>2, <1>3, <1>4, <1>5 DEF Serial

\* The event is appended, or the command ends without it.
LEMMA SerialEnd ==
  ASSUME IInv, UpdatesApart, Serial, NEW p \in Procs, AppendEvent(p) \/ Fail(p)
  PROVE  Serial'
<1>0. /\ TypeOK /\ InStep(p) /\ HistoryInStep(p) /\ RevocationInStep(p)
      /\ store' = store /\ pc[p] # "idle" /\ pc'[p] = "idle" /\ cmd'[p] = NoCommand
      /\ \A q \in Procs : q # p => /\ pc'[q] = pc[q] /\ cmd'[q] = cmd[q]
                                   /\ memory'[q] = memory[q]
  BY DEF IInv, Serial, TypeOK, AppendEvent, Fail, Return, Goto, files
<1>1. InStep(p)' /\ HistoryInStep(p)' /\ RevocationInStep(p)'
  BY <1>0, NoCommandKind DEF InStep, HistoryInStep, RevocationInStep
<1>2. CASE pc[p] = "append"
  <2>1. /\ Updates(p) /\ cmd[p].device \in Devices /\ store = memory[p] /\ store \in Store
        /\ \A d \in Devices \ unrecorded : d # cmd[p].device => history[d] = store[d]
    BY <1>0, <1>2, PositionUpdates DEF InStep, HistoryInStep, TypeOK
  <2>2. \/ /\ history' = [history EXCEPT ![cmd[p].device] = store[cmd[p].device]]
           /\ unrecorded' = unrecorded \ {cmd[p].device}
           /\ \/ revoked' = revoked
              \/ cmd[p].kind = "revoke" /\ revoked' = revoked \cup {cmd[p].device}
        \/ /\ history' = history /\ unrecorded' = unrecorded \cup {cmd[p].device}
           /\ revoked' = revoked
    BY <1>2, <2>1 DEF AppendEvent, Fail, files
  <2>3. \A d \in Devices \ unrecorded' : history'[d] = store'[d]
    BY <1>0, <2>1, <2>2 DEF TypeOK, Store
  <2>4. \A d \in revoked' : store'[d].state = "revoked"
    BY <1>0, <1>2, <2>1, <2>2 DEF RevocationInStep
  <2>5. ASSUME NEW q \in Procs, q # p
        PROVE  InStep(q)' /\ HistoryInStep(q)' /\ RevocationInStep(q)'
    <3>1. pc'[q] \notin {"truncate", "write", "append"} /\ cmd'[q].kind \notin {"verify", "change"}
      BY <1>0, <2>1, <2>5, OthersRead DEF Updates
    <3>2. QED
      BY <3>1 DEF InStep, HistoryInStep, RevocationInStep
  <2>6. QED
    BY <1>1, <2>3, <2>4, <2>5 DEF Serial, HistoryMatches, RevokedInStore
<1>3. CASE pc[p] # "append"
  <2>1. UNCHANGED <<history, unrecorded, revoked>>
    BY <1>3 DEF AppendEvent, Fail, files
  <2>2. ASSUME NEW q \in Procs, q # p
        PROVE  InStep(q)' /\ HistoryInStep(q)' /\ RevocationInStep(q)'
    BY <1>0, <2>1, <2>2, Untouched DEF Serial
  <2>3. HistoryMatches' /\ RevokedInStore'
    BY <1>0, <1>3, <2>1 DEF Serial, HistoryMatches, RevokedInStore
  <2>4. QED
    BY <1>1, <2>2, <2>3 DEF Serial
<1>4. QED
  BY <1>2, <1>3

LEMMA SerialNext == IInv /\ UpdatesApart /\ UpdatesApart' /\ Serial /\ [Next]_vars => Serial'
<1> SUFFICES ASSUME IInv, UpdatesApart, UpdatesApart', Serial, [Next]_vars PROVE Serial'
  OBVIOUS
<1>1. CASE UNCHANGED vars
  BY <1>1
  DEF vars, files, ghosts, Serial, HistoryMatches, RevokedInStore, InStep, HistoryInStep,
      RevocationInStep, Updated
<1>2. CASE Next
  BY <1>2, SerialStart, SerialRead, SerialLoad, SerialSave, SerialEnd DEF Next, Update
<1>3. QED
  BY <1>1, <1>2

\* While updates do not overlap, the file, the history, the memory of the update
\* and what was revoked stay in step.
THEOREM SerialInductive == Spec /\ []UpdatesApart => []Serial
<1>1. Init => Serial
  BY NoCommandKind
  DEF Init, Serial, HistoryMatches, RevokedInStore, InStep, HistoryInStep, RevocationInStep
<1>2. QED
  BY <1>1, SerialNext, Inductive, PTL DEF Spec

\* While updates do not overlap the trust history never disagrees with the store,
\* except where it says itself that an event is missing.
THEOREM HistoryIsTrue == Spec /\ []UpdatesApart => []HistoryMatches
<1>1. Serial => HistoryMatches
  BY DEF Serial
<1>2. QED
  BY <1>1, SerialInductive, PTL

\* While updates do not overlap, no send, whenever it runs beside them, passes the
\* trust check for a device whose revocation has succeeded.
THEOREM RevokedIsBlocked == Spec /\ []UpdatesApart => RevokedBlocks
<1> DEFINE A == \A p \in Procs : EvaluateSend(p) => cmd[p].device \notin revoked
<1>1. IInv /\ Serial => A
  <2> SUFFICES ASSUME Serial, NEW p \in Procs, EvaluateSend(p), cmd[p].device \in revoked
               PROVE  FALSE
    OBVIOUS
  <2>1. store[cmd[p].device].state = "revoked"
    BY DEF Serial, RevokedInStore, EvaluateSend
  <2>2. QED
    BY <2>1 DEF EvaluateSend, Allowed
<1>2. IInv /\ Serial /\ [Next]_vars => [A]_vars
  BY <1>1
<1> HIDE DEF A
<1>3. Spec /\ []UpdatesApart => [][A]_vars
  BY <1>2, Inductive, SerialInductive, PTL DEF Spec
<1>4. QED
  BY <1>3 DEF A, RevokedBlocks

-----------------------------------------------------------------------------
(* Updates that do not overlap implement TrustPolicy *)

\* What the policy sees: the memory of the process that writes, or the file.
LEMMA PolicyOfWriter ==
  ASSUME IInv, UpdatesApart, Serial, NEW p \in Procs, pc[p] = "write"
  PROVE  PolicyStore = memory[p]
<1>1. store = Torn
  BY DEF Serial, InStep
<1>2. \A q \in Procs : pc[q] = "write" => q = p
  BY PositionUpdates, OthersRead
<1>3. QED
  BY <1>1, <1>2 DEF PolicyStore

\* A step that writes nothing, of a process that is not writing, does not show.
LEMMA PolicyStill ==
  ASSUME store' = store,
         \A q \in Procs : /\ pc'[q] = "write" <=> pc[q] = "write"
                          /\ pc[q] = "write" => memory'[q] = memory[q]
  PROVE  PolicyStore' = PolicyStore
<1>1. CASE store = Torn /\ \E q \in Procs : pc[q] = "write"
  <2> DEFINE w == CHOOSE q \in Procs : pc[q] = "write"
             v == CHOOSE q \in Procs : pc'[q] = "write"
  <2>1. w = v /\ w \in Procs /\ pc[w] = "write"
    BY <1>1
  <2>2. PolicyStore = memory[w] /\ PolicyStore' = memory'[v]
    BY <1>1 DEF PolicyStore
  <2>3. QED
    BY <2>1, <2>2
<1>2. CASE ~(store = Torn /\ \E q \in Procs : pc[q] = "write")
  BY <1>2 DEF PolicyStore
<1>3. QED
  BY <1>1, <1>2

\* An update takes effect when it empties the file.
LEMMA TruncateIsUpdate ==
  ASSUME IInv, UpdatesApart, Serial, NEW p \in Procs, Truncate(p)
  PROVE  Policy!Next
<1>0. /\ TypeOK /\ InStep(p) /\ pc[p] = "truncate" /\ pc'[p] = "write"
      /\ Updates(p) /\ cmd[p] \in Command /\ cmd[p].device \in Devices
      /\ memory' = memory /\ store # Torn /\ store \in Store
  BY PositionUpdates DEF IInv, TypeOK, Serial, InStep, Truncate, Goto, ghosts
<1>1. PolicyStore = store
  BY <1>0 DEF PolicyStore
<1>2. PolicyStore' = memory[p]
  <2>1. store' = Torn /\ \A q \in Procs : pc'[q] = "write" <=> q = p
    BY <1>0, OthersRead DEF TypeOK, Truncate, Goto
  <2>2. QED
    BY <1>0, <2>1 DEF PolicyStore
<1>3. CASE cmd[p].kind = "verify"
  <2>1. cmd[p].key \in Keys /\ memory[p] = Updated(p, "verified", cmd[p].key)
    BY <1>0, <1>3, CommandFields DEF InStep
  <2>2. Policy!Verify(cmd[p].device, cmd[p].key)
    BY <1>0, <1>1, <1>2, <2>1 DEF Policy!Verify, Policy!Readable, Policy!Becomes, Updated
  <2>3. QED
    BY <1>0, <2>1, <2>2 DEF Policy!Next
<1>4. CASE cmd[p].kind = "change"
  <2>1. /\ cmd[p].key \in Keys /\ memory[p] = Updated(p, "changed", cmd[p].key)
        /\ store[cmd[p].device] # Unknown
    BY <1>0, <1>4, CommandFields DEF InStep
  <2>2. Policy!Change(cmd[p].device, cmd[p].key)
    BY <1>0, <1>1, <1>2, <2>1
    DEF Policy!Change, Policy!Readable, Policy!Becomes, Policy!Unknown, Unknown, Updated
  <2>3. QED
    BY <1>0, <2>1, <2>2 DEF Policy!Next
<1>5. CASE cmd[p].kind = "revoke"
  <2>1. /\ memory[p] = Updated(p, "revoked", store[cmd[p].device].key)
        /\ store[cmd[p].device] # Unknown
    BY <1>0, <1>5 DEF InStep
  <2>2. Policy!Revoke(cmd[p].device)
    BY <1>0, <1>1, <1>2, <2>1
    DEF Policy!Revoke, Policy!Readable, Policy!Becomes, Policy!Unknown, Unknown, Updated
  <2>3. QED
    BY <1>0, <2>2 DEF Policy!Next
<1>6. QED
  BY <1>0, <1>3, <1>4, <1>5 DEF Updates

LEMMA PolicyStep ==
  ASSUME IInv, UpdatesApart, Serial, [Next]_vars
  PROVE  [Policy!Next]_PolicyStore
<1>0. TypeOK
  BY DEF IInv
<1>1. CASE UNCHANGED vars
  BY <1>1, PolicyStill DEF vars, files
<1>2. ASSUME NEW p \in Procs,
             \/ (\E c \in Command : Start(p, c))
             \/ VerifyDevice(p) \/ MarkDeviceChanged(p) \/ RevokeDevice(p)
             \/ AppendEvent(p) \/ EvaluateSend(p) \/ Submit(p)
             \/ Fail(p) /\ pc[p] # "write"
      PROVE  PolicyStore' = PolicyStore
  <2>1. store' = store /\ pc[p] # "write" /\ pc'[p] # "write"
    BY <1>0, <1>2
    DEF TypeOK, Start, VerifyDevice, MarkDeviceChanged, RevokeDevice, AppendEvent,
        EvaluateSend, Submit, Fail, Return, Goto, files
  <2>2. \A q \in Procs : q # p => pc'[q] = pc[q] /\ memory'[q] = memory[q]
    BY <1>0, <1>2
    DEF TypeOK, Start, VerifyDevice, MarkDeviceChanged, RevokeDevice, AppendEvent,
        EvaluateSend, Submit, Fail, Return, Goto
  <2>3. QED
    BY <2>1, <2>2, PolicyStill
<1>3. ASSUME NEW p \in Procs, Write(p) PROVE PolicyStore' = PolicyStore
  <2>1. /\ pc[p] = "write" /\ pc'[p] = "append" /\ store' = memory[p]
        /\ \A q \in Procs : q # p => pc'[q] = pc[q]
    BY <1>0, <1>3 DEF TypeOK, Serial, InStep, Write, Goto
  <2>2. \A q \in Procs : pc'[q] # "write"
    BY <2>1, PositionUpdates, OthersRead
  <2>3. PolicyStore = memory[p] /\ PolicyStore' = store'
    BY <2>1, <2>2, PolicyOfWriter DEF PolicyStore
  <2>4. QED
    BY <2>1, <2>3
<1>4. ASSUME NEW p \in Procs, Fail(p), pc[p] = "write" PROVE Policy!Next
  <2>1. /\ pc'[p] = "idle" /\ store' = store /\ store = Torn /\ memory[p] \in Store
        /\ \A q \in Procs : q # p => pc'[q] = pc[q]
    BY <1>0, <1>4 DEF TypeOK, Serial, InStep, Fail, Return, Goto, files
  <2>2. \A q \in Procs : pc'[q] # "write"
    BY <1>4, <2>1, PositionUpdates, OthersRead
  <2>3. PolicyStore = memory[p] /\ PolicyStore' = Torn
    BY <1>4, <2>1, <2>2, PolicyOfWriter DEF PolicyStore
  <2>4. Policy!Lose
    BY <2>1, <2>3, TornAssumption DEF Policy!Lose, Policy!Readable
  <2>5. QED
    BY <2>4 DEF Policy!Next
<1>5. QED
  BY <1>1, <1>2, <1>3, <1>4, TruncateIsUpdate DEF Next, Update

\* Updates that do not overlap are the updates of TrustPolicy: each changes the
\* record of its own device, or loses the whole store; sends change nothing.
THEOREM PolicyRefinement == Spec /\ []UpdatesApart => ImplementsPolicy
<1>1. Init => Policy!Init
  BY DEF Init, PolicyStore, NoStore, Unknown, Policy!Init, Policy!Unknown
<1>2. IInv /\ UpdatesApart /\ Serial /\ [Next]_vars => [Policy!Next]_PolicyStore
  BY PolicyStep
<1>3. QED
  BY <1>1, <1>2, Inductive, SerialInductive, PTL DEF Spec, ImplementsPolicy, Policy!Spec
=============================================================================
