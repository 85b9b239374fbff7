--------------------------- MODULE GroupHandshake ---------------------------
(***************************************************************************)
(* How other devices get into the conversations of one device: a device    *)
(* submits or publishes a KeyPackage, the relay queues it, the owner of a  *)
(* conversation adds it and submits the Welcome, and the device joins.     *)
(* A bundle export and an add-member are unlocked: each first looks for    *)
(* the files it is going to write, and the command that called them reads  *)
(* the file they answered with afterwards, so that another command can     *)
(* come between any two steps.  The generations of an inventory, which is  *)
(* locked, a consume and a join are one step here (KeyPackageRotation,     *)
(* KeyPackageConsume and WelcomeConsume have them in full), the owner's    *)
(* group storage is that of Conversation, and a KeyPackage or Welcome file *)
(* is written in one step.                                                 *)
(*                                                                         *)
(*   status, current  the generations of the inventory of each device      *)
(*   expired          the generations whose lifetime is over               *)
(*   keys             KeyPackages whose private key is in the provider     *)
(*                    storage of their device                              *)
(*   bundle           the exported KeyPackage artifact of each device      *)
(*   drawn            the bundle KeyPackages that exports have built       *)
(*   posted, acked    how many envelopes of a KeyPackage the relay has     *)
(*                    queued, and how many have been acknowledged          *)
(*   kept             the KeyPackages the owner has written to files       *)
(*   groups, welcome  its conversations, and the KeyPackage that the       *)
(*                    Welcome artifact of each is for                      *)
(*   mail             the Welcomes submitted: of which group, for which    *)
(*                    KeyPackage, to whom                                  *)
(*   joined           the groups that devices have joined                  *)
(*   pc, cmd, kp      position, arguments and KeyPackage of each command   *)
(*                                                                         *)
(* and, to state properties,                                               *)
(*                                                                         *)
(*   invited     the pairs of a conversation and a KeyPackage for which a  *)
(*               Welcome has been written                                  *)
(*   overlapped  the devices and conversations that two exports, or two    *)
(*               add-members, have worked on at a time                     *)
(***************************************************************************)
EXTENDS Naturals

CONSTANTS
  Procs,
  Devices,        \* the devices that want in
  Generations,    \* their rotated KeyPackages
  Bundles,        \* their bundle KeyPackages
  Owner,          \* the device of each KeyPackage
  Conversations,  \* the conversation labels of the one owner
  Nothing

VARIABLES status, current, expired, keys, bundle, drawn, posted, acked, kept, groups,
          welcome, mail, joined, pc, cmd, kp, invited, overlapped

generations == <<status, current, expired>>
exports == <<bundle, drawn>>
relay == <<posted, acked>>
conversations == <<groups, welcome, invited>>
process == <<pc, cmd, kp>>
vars == <<generations, keys, exports, relay, kept, conversations, mail, joined, process,
          overlapped>>

KeyPackages == Generations \cup Bundles

PublishCommand == [kind : {"publish"}, generation : Generations]
ExportCommand == [kind : {"export", "submit"}, device : Devices]
AddCommand == [kind : {"add"}, conversation : Conversations, to : Devices \cup {Nothing}]
FileCommand == [kind : {"file"}, conversation : Conversations, file : KeyPackages]
NoCommand == [kind |-> "none"]
Commands == PublishCommand \cup ExportCommand \cup AddCommand \cup FileCommand

ASSUME HandshakeAssumption ==
  /\ Generations \cap Bundles = {}
  /\ Devices \cap Conversations = {}
  /\ Owner \in [KeyPackages -> Devices]
  /\ Nothing \notin KeyPackages \cup Devices

-----------------------------------------------------------------------------
Goto(p, label) == pc' = [pc EXCEPT ![p] = label]

Forget(p) ==
  /\ Goto(p, "idle")
  /\ cmd' = [cmd EXCEPT ![p] = NoCommand]
  /\ kp' = [kp EXCEPT ![p] = Nothing]

Init ==
  /\ status = [g \in Generations |-> "none"]
  /\ current = [d \in Devices |-> Nothing]
  /\ expired = {} /\ keys = {} /\ drawn = {} /\ kept = {} /\ groups = {}
  /\ bundle = [d \in Devices |-> Nothing]
  /\ posted = [k \in KeyPackages |-> 0] /\ acked = [k \in KeyPackages |-> 0]
  /\ welcome = [c \in Conversations |-> Nothing]
  /\ mail = {} /\ joined = {} /\ invited = {} /\ overlapped = {}
  /\ pc = [p \in Procs |-> "idle"]
  /\ cmd = [p \in Procs |-> NoCommand]
  /\ kp = [p \in Procs |-> Nothing]

\* conversation-add-member-dev is given a file of the operator's choice.
Start(p, c) ==
  /\ pc[p] = "idle"
  /\ c.kind = "file" => c.file \in kept
  /\ cmd' = [cmd EXCEPT ![p] = c]
  /\ kp' = [kp EXCEPT ![p] = IF c.kind = "file" THEN c.file ELSE Nothing]
  /\ Goto(p, CASE c.kind = "publish" -> "inventory"
               [] c.kind \in {"export", "submit"} -> "export"
               [] c.kind = "add" -> "inbox"
               [] c.kind = "file" -> "add")
  /\ UNCHANGED <<generations, keys, exports, relay, kept, conversations, mail, joined,
                 overlapped>>

\* A command returns an error, or dies with its sidecar, where it stands.
Stop(p) ==
  /\ pc[p] # "idle"
  /\ Forget(p)
  /\ UNCHANGED <<generations, keys, exports, relay, kept, conversations, mail, joined,
                 overlapped>>

-----------------------------------------------------------------------------
(* The inventory of a device *)

\* The private key goes to the storage before the generation is published.
Generate(g) ==
  /\ status[g] = "none"
  /\ status' = [status EXCEPT ![g] = "active"]
  /\ current' = [current EXCEPT ![Owner[g]] = g]
  /\ keys' = keys \cup {g}
  /\ UNCHANGED <<expired, exports, relay, kept, conversations, mail, joined, process,
                 overlapped>>

\* The current generation cannot be retired.
Retire(g) ==
  /\ status[g] = "active"
  /\ current[Owner[g]] # g
  /\ status' = [status EXCEPT ![g] = "retired"]
  /\ UNCHANGED <<current, expired, keys, exports, relay, kept, conversations, mail, joined,
                 process, overlapped>>

Expire(g) ==
  /\ status[g] # "none"
  /\ g \notin expired
  /\ expired' = expired \cup {g}
  /\ UNCHANGED <<status, current, keys, exports, relay, kept, conversations, mail, joined,
                 process, overlapped>>

-----------------------------------------------------------------------------
(* Published generations *)

\* keypackage-inventory: generation_not_found and generation_retired are errors.
SelectGeneration(p) ==
  /\ pc[p] = "inventory"
  /\ status[cmd[p].generation] = "active"
  /\ kp' = [kp EXCEPT ![p] = cmd[p].generation]
  /\ Goto(p, "inspect")
  /\ UNCHANGED <<generations, keys, exports, relay, kept, conversations, mail, joined, cmd,
                 overlapped>>

\* keypackage-inspect of the artifact and the manifest that the inventory named.
InspectGeneration(p) ==
  /\ pc[p] = "inspect"
  /\ kp[p] \notin expired
  /\ Goto(p, "publish")
  /\ UNCHANGED <<generations, keys, exports, relay, kept, conversations, mail, joined, cmd,
                 kp, overlapped>>

\* The answer of the relay may be lost; it takes a reference once.
Publish(p) ==
  /\ pc[p] = "publish"
  /\ posted' = [posted EXCEPT ![kp[p]] = IF @ = 0 THEN 1 ELSE @]
  /\ Forget(p)
  /\ UNCHANGED <<generations, keys, exports, acked, kept, conversations, mail, joined,
                 overlapped>>

-----------------------------------------------------------------------------
(* public-bundle-export, which submit runs with --write-artifact *)

Stored(d) == \E k \in keys : Owner[k] = d

Exporting(p) == pc[p] \in {"store", "look", "artifact"}

\* A new KeyPackage, for a device without provider storage.
Build(p, b) ==
  /\ Owner[b] = cmd[p].device
  /\ b \notin drawn
  /\ ~Stored(cmd[p].device)
  /\ drawn' = drawn \cup {b}
  /\ kp' = [kp EXCEPT ![p] = b]
  /\ overlapped' = IF \E q \in Procs \ {p} : Exporting(q) /\ cmd[q].device = cmd[p].device
                   THEN overlapped \cup {cmd[p].device} ELSE overlapped
  /\ Goto(p, "store")
  /\ UNCHANGED <<keys, bundle>>

\* Mutant: an export that has been made before is answered again.
ExportOrReuse(p) ==
  /\ pc[p] = "export"
  /\ \/ \E b \in Bundles : Build(p, b)
     \/ /\ bundle[cmd[p].device] # Nothing
        /\ Goto(p, "submit")
        /\ UNCHANGED <<keys, exports, kp, overlapped>>
  /\ UNCHANGED <<generations, relay, kept, conversations, mail, joined, cmd>>

Export(p) ==
  /\ pc[p] = "export"
  /\ \E b \in Bundles : Build(p, b)
  /\ UNCHANGED <<generations, relay, kept, conversations, mail, joined, cmd>>

\* The storage is written over whatever has come to be there.
SaveStorage(p) ==
  /\ pc[p] = "store"
  /\ keys' = {k \in keys : Owner[k] # cmd[p].device} \cup {kp[p]}
  /\ Goto(p, "look")
  /\ UNCHANGED <<generations, exports, relay, kept, conversations, mail, joined, cmd, kp,
                 overlapped>>

\* Without --write-artifact, the export is done.
SkipArtifact(p) ==
  /\ pc[p] = "look" /\ cmd[p].kind = "export"
  /\ Forget(p)
  /\ UNCHANGED <<generations, keys, exports, relay, kept, conversations, mail, joined,
                 overlapped>>

CheckArtifact(p) ==
  /\ pc[p] = "look"
  /\ bundle[cmd[p].device] = Nothing
  /\ Goto(p, "artifact")
  /\ UNCHANGED <<generations, keys, exports, relay, kept, conversations, mail, joined, cmd,
                 kp, overlapped>>

WriteArtifact(p) ==
  /\ pc[p] = "artifact"
  /\ bundle' = [bundle EXCEPT ![cmd[p].device] = kp[p]]
  /\ IF cmd[p].kind = "submit" THEN Goto(p, "submit") /\ UNCHANGED <<cmd, kp>> ELSE Forget(p)
  /\ UNCHANGED <<generations, keys, drawn, relay, kept, conversations, mail, joined,
                 overlapped>>

\* The command reads the artifact, and posts it; every post is queued.
SubmitKeyPackage(p) ==
  /\ pc[p] = "submit"
  /\ posted' = [posted EXCEPT ![bundle[cmd[p].device]] = @ + 1]
  /\ Forget(p)
  /\ UNCHANGED <<generations, keys, exports, acked, kept, conversations, mail, joined,
                 overlapped>>

-----------------------------------------------------------------------------
(* The owner of the conversations *)

CreateConversation(c) ==
  /\ c \notin groups
  /\ groups' = groups \cup {c}
  /\ UNCHANGED <<generations, keys, exports, relay, kept, welcome, invited, mail, joined,
                 process, overlapped>>

\* RelaySpaceOpenMLSArtifactInbox, of KeyPackages.
Inbox == {k \in KeyPackages : acked[k] < posted[k]}

\* openmls-relay-keypackage-inbox-dev writes files and acknowledges nothing.
WriteInbox(k) ==
  /\ k \in Inbox
  /\ kept' = kept \cup {k}
  /\ UNCHANGED <<generations, keys, exports, relay, conversations, mail, joined, process,
                 overlapped>>

\* openmls-relay-keypackage-consume-dev
Consume(k) ==
  /\ k \in Inbox
  /\ kept' = kept \cup {k}
  /\ acked' = [acked EXCEPT ![k] = @ + 1]
  /\ UNCHANGED <<generations, keys, exports, posted, conversations, mail, joined, process,
                 overlapped>>

\* The first envelope, in an order that is the relay's.
TakeKeyPackage(p, k) ==
  /\ pc[p] = "inbox"
  /\ k \in Inbox
  /\ kp' = [kp EXCEPT ![p] = k]
  /\ Goto(p, "write")
  /\ UNCHANGED <<generations, keys, exports, relay, kept, conversations, mail, joined, cmd,
                 overlapped>>

\* A file of its own, in a new temporary directory.
WriteKeyPackage(p) ==
  /\ pc[p] = "write"
  /\ kept' = kept \cup {kp[p]}
  /\ Goto(p, "add")
  /\ UNCHANGED <<generations, keys, exports, relay, conversations, mail, joined, cmd, kp,
                 overlapped>>

\* conversation-add-member refuses a conversation with a Welcome artifact, and then
\* makes the commit and the Welcome.
BeginsCommit(p) ==
  /\ cmd[p].conversation \in groups
  /\ welcome[cmd[p].conversation] = Nothing
  /\ overlapped' = IF \E q \in Procs \ {p} :
                        pc[q] = "commit" /\ cmd[q].conversation = cmd[p].conversation
                   THEN overlapped \cup {cmd[p].conversation} ELSE overlapped
  /\ Goto(p, "commit")

\* Mutant: a conversation with a Welcome gives it out again.
AddMemberOrReuse(p) ==
  /\ pc[p] = "add"
  /\ \/ BeginsCommit(p)
     \/ /\ cmd[p].kind = "add" /\ welcome[cmd[p].conversation] # Nothing
        /\ Goto(p, "send")
        /\ UNCHANGED overlapped
  /\ UNCHANGED <<generations, keys, exports, relay, kept, conversations, mail, joined, cmd, kp>>

AddMember(p) ==
  /\ pc[p] = "add"
  /\ BeginsCommit(p)
  /\ UNCHANGED <<generations, keys, exports, relay, kept, conversations, mail, joined, cmd, kp>>

\* The Welcome is written over one that has come to be there.  The group storage, the
\* manifest and the summary follow, and the answer.
WriteWelcome(p) ==
  /\ pc[p] = "commit"
  /\ welcome' = [welcome EXCEPT ![cmd[p].conversation] = kp[p]]
  /\ invited' = invited \cup {<<cmd[p].conversation, kp[p]>>}
  /\ IF cmd[p].kind = "add" THEN Goto(p, "send") /\ UNCHANGED <<cmd, kp>> ELSE Forget(p)
  /\ UNCHANGED <<generations, keys, exports, relay, kept, groups, mail, joined, overlapped>>

Welcome(c, d) == [conversation |-> c, for |-> welcome[c], to |-> d]

\* --welcome-to-device, or the sender of the KeyPackage.
Recipient(p) == IF cmd[p].to = Nothing THEN Owner[kp[p]] ELSE cmd[p].to

\* The command reads the Welcome artifact, and posts it.
SendWelcome(p) ==
  /\ pc[p] = "send"
  /\ mail' = mail \cup {Welcome(cmd[p].conversation, Recipient(p))}
  /\ Forget(p)
  /\ UNCHANGED <<generations, keys, exports, relay, kept, conversations, joined, overlapped>>

\* openmls-relay-welcome-submit-dev, of a Welcome file, to any device.
SubmitWelcome(c, d) ==
  /\ welcome[c] # Nothing
  /\ mail' = mail \cup {Welcome(c, d)}
  /\ UNCHANGED <<generations, keys, exports, relay, kept, conversations, joined, process,
                 overlapped>>

\* openmls-relay-welcome-inbox-dev
Welcomes(d) == {m \in mail : m.to = d}

\* Mutant: a device joins with a Welcome for another one.
JoinAny(d, m) ==
  /\ m \in Welcomes(d)
  /\ <<m.conversation, d>> \notin joined
  /\ joined' = joined \cup {<<m.conversation, d>>}
  /\ UNCHANGED <<generations, keys, exports, relay, kept, conversations, mail, process,
                 overlapped>>

\* conversation-join needs the private key of the KeyPackage the Welcome is for.
Join(d, m) ==
  /\ m \in Welcomes(d)
  /\ m.for \in keys /\ Owner[m.for] = d
  /\ <<m.conversation, d>> \notin joined
  /\ joined' = joined \cup {<<m.conversation, d>>}
  /\ UNCHANGED <<generations, keys, exports, relay, kept, conversations, mail, process,
                 overlapped>>

-----------------------------------------------------------------------------
Step(p) ==
  \/ SelectGeneration(p) \/ InspectGeneration(p) \/ Publish(p)
  \/ Export(p) \/ SaveStorage(p) \/ SkipArtifact(p) \/ CheckArtifact(p) \/ WriteArtifact(p)
  \/ SubmitKeyPackage(p)
  \/ \E k \in KeyPackages : TakeKeyPackage(p, k)
  \/ WriteKeyPackage(p) \/ AddMember(p) \/ WriteWelcome(p) \/ SendWelcome(p)

Next ==
  \/ \E p \in Procs : Step(p) \/ Stop(p) \/ \E c \in Commands : Start(p, c)
  \/ \E g \in Generations : Generate(g) \/ Retire(g) \/ Expire(g)
  \/ \E k \in KeyPackages : WriteInbox(k) \/ Consume(k)
  \/ \E c \in Conversations : CreateConversation(c) \/ \E d \in Devices : SubmitWelcome(c, d)
  \/ \E d \in Devices, m \in mail : Join(d, m)

Spec == Init /\ [][Next]_vars

-----------------------------------------------------------------------------
(* Properties *)

TypeOK ==
  /\ status \in [Generations -> {"none", "active", "retired"}]
  /\ current \in [Devices -> Generations \cup {Nothing}]
  /\ expired \subseteq Generations
  /\ keys \subseteq KeyPackages
  /\ bundle \in [Devices -> Bundles \cup {Nothing}]
  /\ drawn \subseteq Bundles
  /\ posted \in [KeyPackages -> Nat]
  /\ acked \in [KeyPackages -> Nat]
  /\ kept \subseteq KeyPackages
  /\ groups \subseteq Conversations
  /\ welcome \in [Conversations -> KeyPackages \cup {Nothing}]
  /\ mail \subseteq [conversation : Conversations, for : KeyPackages, to : Devices]
  /\ joined \subseteq Conversations \X Devices
  /\ pc \in [Procs -> {"idle", "inventory", "inspect", "publish", "export", "store", "look",
                       "artifact", "submit", "inbox", "write", "add", "commit", "send"}]
  /\ cmd \in [Procs -> Commands \cup {NoCommand}]
  /\ kp \in [Procs -> KeyPackages \cup {Nothing}]
  /\ invited \subseteq Conversations \X KeyPackages
  /\ overlapped \subseteq Devices \cup Conversations

\* Unless two add-members of a conversation overlap, the Welcome that a command finds
\* when it is about to send it is the one it has made for its KeyPackage, and all that
\* is ever sent of a conversation is one Welcome, although commands share conversations
\* and inboxes and stop anywhere.
WelcomeIsForMember ==
  \A c \in Conversations \ overlapped :
    /\ \A p \in Procs : pc[p] = "send" /\ cmd[p].conversation = c => welcome[c] = kp[p]
    /\ \A m \in mail : m.conversation = c => m.for = welcome[c]

\* Unless two exports of a device overlap, no retry posts a KeyPackage of it a second
\* time, whether the first envelope is still queued or has been acknowledged.
QueuedOnce == \A k \in KeyPackages : Owner[k] \notin overlapped => posted[k] \in {0, 1}

\* From KeyPackage to join, whoever sends what to whom, overlaps with whom, and
\* wherever commands stop, the devices implement Admission.
Handshake == INSTANCE Admission WITH
  offered <- {Owner[k] : k \in {l \in KeyPackages : posted[l] > 0}},
  admitted <- {<<i[1], Owner[i[2]]>> : i \in invited},
  entered <- joined

ImplementsAdmission == Handshake!Spec

\* "existing active KeyPackage generation ID": what publish sends is active when
\* it is sent.  Refuted by a retire between two sidecar runs (README).
PublishedIsActive ==
  [][\A g \in Generations : posted[g] = 0 /\ posted'[g] # 0 => status[g] = "active"]_vars

-----------------------------------------------------------------------------
(* The inductive invariant *)

Position(p) ==
  /\ pc[p] \in {"inventory", "inspect", "publish"} => cmd[p] \in PublishCommand
  /\ pc[p] \in {"inspect", "publish"} => kp[p] \in Generations
  /\ pc[p] \in {"export", "store", "look", "artifact", "submit"} => cmd[p] \in ExportCommand
  /\ Exporting(p) => kp[p] \in drawn /\ Owner[kp[p]] = cmd[p].device
  /\ pc[p] = "submit" => bundle[cmd[p].device] \in Bundles
  /\ pc[p] \in {"inbox", "write", "send"} => cmd[p] \in AddCommand
  /\ pc[p] \in {"add", "commit"} => cmd[p] \in AddCommand \cup FileCommand
  /\ pc[p] \in {"write", "add", "commit", "send"} => kp[p] \in KeyPackages /\ posted[kp[p]] > 0
  /\ pc[p] = "send" => welcome[cmd[p].conversation] # Nothing

InExport(p, d) ==
  pc[p] \in {"store", "look", "artifact", "submit"} /\ cmd[p].device = d

\* The export of a device that has built its KeyPackage is the only one, nothing has been
\* posted before it, and the storage it leaves refuses the next one.
ExportSafe(d) ==
  /\ \A p \in Procs : InExport(p, d) =>
       /\ \A q \in Procs : InExport(q, d) => p = q
       /\ pc[p] # "submit" => \A b \in Bundles : Owner[b] = d => posted[b] = 0
       /\ pc[p] = "submit" => posted[bundle[d]] = 0
       /\ pc[p] # "store" => Stored(d)
  /\ \A b \in Bundles : Owner[b] = d /\ posted[b] > 0 => Stored(d)

InCommit(p, c) == pc[p] = "commit" /\ cmd[p].conversation = c

\* The add-member of a conversation that is in its call is the only one, and no Welcome
\* has been made before it.
AddSafe(c) ==
  \A p \in Procs : InCommit(p, c) =>
    /\ welcome[c] = Nothing
    /\ \A q \in Procs : InCommit(q, c) => p = q

\* What has come later refers to what has come before.
Evidence ==
  /\ \A d \in Devices : bundle[d] # Nothing => Owner[bundle[d]] = d
  /\ \A k \in kept : posted[k] > 0
  /\ \A i \in invited : posted[i[2]] > 0
  /\ \A c \in Conversations : welcome[c] # Nothing => <<c, welcome[c]>> \in invited
  /\ \A m \in mail : <<m.conversation, m.for>> \in invited
  /\ \A j \in joined : \E k \in KeyPackages : <<j[1], k>> \in invited /\ Owner[k] = j[2]

IInv ==
  /\ TypeOK
  /\ \A p \in Procs : Position(p)
  /\ \A d \in Devices \ overlapped : ExportSafe(d)
  /\ \A c \in Conversations \ overlapped : AddSafe(c)
  /\ WelcomeIsForMember
  /\ QueuedOnce
  /\ Evidence
=============================================================================
