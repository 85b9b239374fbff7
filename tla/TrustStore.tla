----------------------------- MODULE TrustStore -----------------------------
(***************************************************************************)
(* trust.json and trust-events.jsonl of a Comms device, and the commands   *)
(* that use them: verify-device, simulate-key-change, revoke-device and    *)
(* the trust check of a send.  Each update reads the whole store, changes  *)
(* one record in memory, writes the whole store back with os.WriteFile,    *)
(* which empties the file first, and appends an event.  No command takes   *)
(* a lock.  An action is one effect on a file.                             *)
(*                                                                         *)
(*   store     trust.json: torn, or the record of each device              *)
(*   history   what the last event of each device in trust-events.jsonl    *)
(*             says of it                                                  *)
(*   pc, cmd   position and arguments of each process                      *)
(*   memory    the store a process has loaded, and changed                 *)
(*                                                                         *)
(* and, to state properties,                                               *)
(*                                                                         *)
(*   accepted    the keys the user has told verify-device to accept        *)
(*   revoked     the devices whose revocation succeeded, until the user    *)
(*               verifies or re-keys them                                  *)
(*   unrecorded  the devices whose last change was saved without its event *)
(***************************************************************************)
CONSTANTS Procs, Devices, Keys, NoKey, Torn

VARIABLES store, history, pc, cmd, memory, accepted, revoked, unrecorded

files == <<store, history>>
ghosts == <<accepted, revoked, unrecorded>>
vars == <<files, pc, cmd, memory, ghosts>>

Record == [state : {"verified", "changed", "revoked"}, key : Keys]

\* A device without a record.
Unknown == [state |-> "unknown", key |-> NoKey]

Store == [Devices -> Record \cup {Unknown}]

Command == [kind : {"verify", "change"}, device : Devices, key : Keys]
           \cup [kind : {"revoke"}, device : Devices]
           \cup [kind : {"send"}, device : Devices, strict : BOOLEAN]

NoCommand == [kind |-> "none"]
NoStore == [d \in Devices |-> Unknown]

ASSUME KeyAssumption == NoKey \notin Keys
ASSUME TornAssumption == Torn \notin Store

-----------------------------------------------------------------------------
Goto(p, label) == pc' = [pc EXCEPT ![p] = label]

Return(p) ==
  /\ Goto(p, "idle")
  /\ cmd' = [cmd EXCEPT ![p] = NoCommand]
  /\ memory' = [memory EXCEPT ![p] = NoStore]

\* A process runs a command that writes the store, here on the record of d.
Updates(p) == cmd[p].kind \in {"verify", "change", "revoke"}
Updating(p, d) == Updates(p) /\ cmd[p].device = d

\* One update at a time; sends may overlap it and each other.
UpdatesApart == \A p, q \in Procs : Updates(p) /\ Updates(q) => p = q

Init ==
  /\ store = NoStore
  /\ history = NoStore
  /\ pc = [p \in Procs |-> "idle"]
  /\ cmd = [p \in Procs |-> NoCommand]
  /\ memory = [p \in Procs |-> NoStore]
  /\ accepted = {}
  /\ revoked = {}
  /\ unrecorded = {}

Start(p, c) ==
  /\ pc[p] = "idle"
  /\ Goto(p, "load")
  /\ cmd' = [cmd EXCEPT ![p] = c]
  /\ accepted' = IF c.kind = "verify" THEN accepted \cup {<<c.device, c.key>>} ELSE accepted
  /\ revoked' = IF c.kind \in {"verify", "change"} THEN revoked \ {c.device} ELSE revoked
  /\ UNCHANGED <<files, memory, unrecorded>>

-----------------------------------------------------------------------------
(* The three updates: LoadStore and the change in memory *)

\* The store with the record of the command's device replaced.
Updated(p, state, key) ==
  [store EXCEPT ![cmd[p].device] = [state |-> state, key |-> key]]

VerifyDevice(p) ==
  /\ pc[p] = "load"
  /\ cmd[p].kind = "verify"
  /\ store # Torn
  /\ memory' = [memory EXCEPT ![p] = Updated(p, "verified", cmd[p].key)]
  /\ Goto(p, "truncate")
  /\ UNCHANGED <<files, cmd, ghosts>>

\* Mutant: a record is made for a device that has none.
ChangeUnknown(p) ==
  /\ pc[p] = "load"
  /\ cmd[p].kind = "change"
  /\ store # Torn
  /\ memory' = [memory EXCEPT ![p] = Updated(p, "changed", cmd[p].key)]
  /\ Goto(p, "truncate")
  /\ UNCHANGED <<files, cmd, ghosts>>

\* The device must be known; it may be revoked.
MarkDeviceChanged(p) ==
  /\ pc[p] = "load"
  /\ cmd[p].kind = "change"
  /\ store # Torn
  /\ store[cmd[p].device] # Unknown
  /\ memory' = [memory EXCEPT ![p] = Updated(p, "changed", cmd[p].key)]
  /\ Goto(p, "truncate")
  /\ UNCHANGED <<files, cmd, ghosts>>

\* Mutant: the event is appended before the store is saved.
RevokeRecorded(p) ==
  /\ pc[p] = "load"
  /\ cmd[p].kind = "revoke"
  /\ store # Torn
  /\ store[cmd[p].device] # Unknown
  /\ memory' = [memory EXCEPT ![p] = Updated(p, "revoked", store[cmd[p].device].key)]
  /\ history' = [history EXCEPT ![cmd[p].device] = memory'[p][cmd[p].device]]
  /\ Goto(p, "truncate")
  /\ UNCHANGED <<store, cmd, ghosts>>

RevokeDevice(p) ==
  /\ pc[p] = "load"
  /\ cmd[p].kind = "revoke"
  /\ store # Torn
  /\ store[cmd[p].device] # Unknown
  /\ memory' = [memory EXCEPT ![p] = Updated(p, "revoked", store[cmd[p].device].key)]
  /\ Goto(p, "truncate")
  /\ UNCHANGED <<files, cmd, ghosts>>

\* SaveStore: the file is emptied, and then written.
Truncate(p) ==
  /\ pc[p] = "truncate"
  /\ store' = Torn
  /\ Goto(p, "write")
  /\ UNCHANGED <<history, cmd, memory, ghosts>>

\* Two commands that write at a time may leave a text that does not parse.
Write(p) ==
  /\ pc[p] = "write"
  /\ store' \in IF store = Torn THEN {memory[p]} ELSE {memory[p], Torn}
  /\ Goto(p, "append")
  /\ UNCHANGED <<history, cmd, memory, ghosts>>

\* The event says what the command made of the device, and the command succeeds.
AppendEvent(p) ==
  /\ pc[p] = "append"
  /\ LET d == cmd[p].device IN
       /\ history' = [history EXCEPT ![d] = memory[p][d]]
       /\ unrecorded' = unrecorded \ {d}
       /\ revoked' = IF /\ cmd[p].kind = "revoke"
                        /\ \A q \in Procs \ {p} : ~Updating(q, d)
                     THEN revoked \cup {d} ELSE revoked
  /\ Return(p)
  /\ UNCHANGED <<store, accepted>>

-----------------------------------------------------------------------------
(* The trust check of a send *)

\* Mutant: the mode is ignored.
AllowedInDev(r, strict) == r.state \in {"verified", "unknown", "changed"}

\* EvaluateSend: may a message go to a device with record r?
Allowed(r, strict) ==
  \/ r.state = "verified"
  \/ ~strict /\ r.state \in {"unknown", "changed"}

\* Mutant: an unreadable store is an empty one.
EvaluateUnread(p) ==
  /\ pc[p] = "load"
  /\ cmd[p].kind = "send"
  /\ Allowed(IF store = Torn THEN Unknown ELSE store[cmd[p].device], cmd[p].strict)
  /\ Goto(p, "submit")
  /\ UNCHANGED <<files, cmd, memory, ghosts>>

EvaluateSend(p) ==
  /\ pc[p] = "load"
  /\ cmd[p].kind = "send"
  /\ store # Torn
  /\ Allowed(store[cmd[p].device], cmd[p].strict)
  /\ Goto(p, "submit")
  /\ UNCHANGED <<files, cmd, memory, ghosts>>

\* The message is protected and the envelope submitted.
Submit(p) ==
  /\ pc[p] = "submit"
  /\ Return(p)
  /\ UNCHANGED <<files, ghosts>>

-----------------------------------------------------------------------------
\* A command returns with an error (the store does not parse, the device is not
\* known, the policy blocks, a write or the relay fails) or dies.
Fail(p) ==
  /\ pc[p] # "idle"
  /\ unrecorded' = IF pc[p] = "append" THEN unrecorded \cup {cmd[p].device} ELSE unrecorded
  /\ Return(p)
  /\ UNCHANGED <<files, accepted, revoked>>

Update(p) ==
  \/ VerifyDevice(p) \/ MarkDeviceChanged(p) \/ RevokeDevice(p)
  \/ Truncate(p) \/ Write(p) \/ AppendEvent(p)

Next ==
  \E p \in Procs :
    \/ \E c \in Command : Start(p, c)
    \/ Update(p) \/ EvaluateSend(p) \/ Submit(p) \/ Fail(p)

Spec == Init /\ [][Next]_vars

-----------------------------------------------------------------------------
(* Properties *)

TypeOK ==
  /\ store \in Store \cup {Torn}
  /\ history \in Store
  /\ pc \in [Procs -> {"idle", "load", "truncate", "write", "append", "submit"}]
  /\ cmd \in [Procs -> Command \cup {NoCommand}]
  /\ memory \in [Procs -> Store]
  /\ accepted \subseteq Devices \X Keys
  /\ revoked \subseteq Devices
  /\ unrecorded \subseteq Devices

\* A device recorded as verified has a key the user accepted for it, whatever
\* updates were lost on the way.
VerifiedWasAccepted ==
  store # Torn =>
    \A d \in Devices : store[d].state = "verified" => <<d, store[d].key>> \in accepted

\* A strict send only submits to a device for which the user accepted a key.
StrictSendsAccepted ==
  [][\A p \in Procs :
       Submit(p) /\ cmd[p].strict => \E k \in Keys : <<cmd[p].device, k>> \in accepted]_vars

\* Once revoke-device has succeeded no send to the device passes the trust
\* check, until the user verifies or re-keys it.
RevokedBlocks ==
  [][\A p \in Procs : EvaluateSend(p) => cmd[p].device \notin revoked]_vars

\* With no update under way, the trust history ends for each device in the
\* state the store has, unless the event of the last change was not written.
HistoryMatches ==
  store # Torn /\ (\A p \in Procs : pc[p] # "append")
    => \A d \in Devices \ unrecorded : history[d] = store[d]

\* Updates one at a time implement TrustPolicy: each changes the record of its
\* own device, and only of it; an update takes effect when the file is emptied,
\* and a failure before it is written again loses the store.
PolicyStore ==
  IF store = Torn /\ \E p \in Procs : pc[p] = "write"
  THEN memory[CHOOSE p \in Procs : pc[p] = "write"]
  ELSE store

Policy == INSTANCE TrustPolicy WITH trust <- PolicyStore, Lost <- Torn

ImplementsPolicy == Policy!Spec

-----------------------------------------------------------------------------
(* The inductive invariant of accepted keys, for any number of processes *)

\* A command at its position, with what it has done so far justified by the keys
\* the user accepted.
Justified(p) ==
  /\ pc[p] = "idle" <=> cmd[p] = NoCommand
  /\ pc[p] \in {"truncate", "write", "append"} => cmd[p].kind # "send"
  /\ pc[p] = "submit" => cmd[p].kind = "send"
  /\ cmd[p].kind = "verify" => <<cmd[p].device, cmd[p].key>> \in accepted
  /\ \A d \in Devices :
       memory[p][d].state = "verified" => <<d, memory[p][d].key>> \in accepted
  /\ pc[p] = "submit" /\ cmd[p].strict =>
       \E k \in Keys : <<cmd[p].device, k>> \in accepted

IInv == TypeOK /\ VerifiedWasAccepted /\ \A p \in Procs : Justified(p)

-----------------------------------------------------------------------------
(* The inductive invariant of one update at a time *)

\* An update that has made its change in memory: the change is that of its
\* command, and the file is as it was loaded, torn, or the changed store.
InStep(p) ==
  /\ pc[p] = "truncate" =>
       /\ store # Torn
       /\ cmd[p].kind = "verify" => memory[p] = Updated(p, "verified", cmd[p].key)
       /\ cmd[p].kind = "change" => memory[p] = Updated(p, "changed", cmd[p].key)
       /\ cmd[p].kind = "revoke" =>
            memory[p] = Updated(p, "revoked", store[cmd[p].device].key)
       /\ cmd[p].kind # "verify" => store[cmd[p].device] # Unknown
  /\ pc[p] = "write" => store = Torn
  /\ pc[p] = "append" => store = memory[p]

\* Its memory differs from the history in the record of its device only.
HistoryInStep(p) ==
  pc[p] \in {"truncate", "write", "append"} =>
    \A d \in Devices \ unrecorded : d # cmd[p].device => history[d] = memory[p][d]

\* A revoked device is revoked in the file and in the memory of an update, and
\* no command verifies or re-keys it.
RevocationInStep(p) ==
  /\ cmd[p].kind \in {"verify", "change"} => cmd[p].device \notin revoked
  /\ pc[p] \in {"truncate", "write", "append"} =>
       /\ \A d \in revoked : memory[p][d].state = "revoked"
       /\ cmd[p].kind = "revoke" => memory[p][cmd[p].device].state = "revoked"

RevokedInStore == store # Torn => \A d \in revoked : store[d].state = "revoked"

Serial ==
  /\ HistoryMatches
  /\ RevokedInStore
  /\ \A p \in Procs : InStep(p) /\ HistoryInStep(p) /\ RevocationInStep(p)
=============================================================================
