------------------------ MODULE GroupHandshakeProofs ------------------------
(***************************************************************************)
(* Machine-checked safety of the way into a conversation, for any number   *)
(* of processes, devices, KeyPackages and conversations: the inductive     *)
(* invariant IInv; one Welcome for a conversation and one post of a        *)
(* KeyPackage, as long as no two add-members or exports overlap on them;   *)
(* and the refinement of Admission, whatever overlaps.                     *)
(***************************************************************************)
EXTENDS GroupHandshake, TLAPS

ProcessStep(p) == Step(p) \/ Stop(p) \/ \E c \in Commands : Start(p, c)

\* The steps that are a whole command of their own.
CommandStep ==
  \/ \E g \in Generations : Generate(g) \/ Retire(g) \/ Expire(g)
  \/ \E k \in KeyPackages : WriteInbox(k) \/ Consume(k)
  \/ \E c \in Conversations : CreateConversation(c) \/ \E d \in Devices : SubmitWelcome(c, d)
  \/ \E d \in Devices, m \in mail : Join(d, m)

LEMMA NextParts == Next <=> CommandStep \/ \E p \in Procs : ProcessStep(p)
BY DEF Next, CommandStep, ProcessStep

-----------------------------------------------------------------------------
(* Types *)

Labels == {"idle", "inventory", "inspect", "publish", "export", "store", "look",
           "artifact", "submit", "inbox", "write", "add", "commit", "send"}

LEMMA CommandArguments ==
  /\ \A c \in PublishCommand : c.kind = "publish" /\ c.generation \in Generations
  /\ \A c \in ExportCommand : c.kind \in {"export", "submit"} /\ c.device \in Devices
  /\ \A c \in AddCommand : /\ c.kind = "add" /\ c.conversation \in Conversations
                           /\ c.to \in Devices \cup {Nothing}
  /\ \A c \in FileCommand : /\ c.kind = "file" /\ c.conversation \in Conversations
                            /\ c.file \in KeyPackages
BY DEF PublishCommand, ExportCommand, AddCommand, FileCommand

LEMMA CommandKinds ==
  ASSUME NEW c \in Commands
  PROVE  /\ c.kind = "publish" => c \in PublishCommand
         /\ c.kind \in {"export", "submit"} => c \in ExportCommand
         /\ c.kind = "add" => c \in AddCommand
         /\ c.kind = "file" => c \in FileCommand
         /\ c.kind \in {"publish", "export", "submit", "add", "file"}
BY CommandArguments DEF Commands

LEMMA KeyPackageKinds ==
  /\ Generations \subseteq KeyPackages /\ Bundles \subseteq KeyPackages
  /\ \A g \in Generations : g \notin Bundles
  /\ \A k \in KeyPackages : Owner[k] \in Devices
  /\ Nothing \notin KeyPackages
  /\ \A d \in Devices : d \notin Conversations
BY HandshakeAssumption DEF KeyPackages

LEMMA InitType == Init => TypeOK
<1> SUFFICES ASSUME Init PROVE TypeOK
  OBVIOUS
<1>1. /\ status \in [Generations -> {"none", "active", "retired"}]
      /\ current \in [Devices -> Generations \cup {Nothing}]
      /\ expired \subseteq Generations /\ keys \subseteq KeyPackages
      /\ bundle \in [Devices -> Bundles \cup {Nothing}]
      /\ drawn \subseteq Bundles
      /\ posted \in [KeyPackages -> Nat] /\ acked \in [KeyPackages -> Nat]
      /\ kept \subseteq KeyPackages /\ groups \subseteq Conversations
      /\ welcome \in [Conversations -> KeyPackages \cup {Nothing}]
      /\ mail \subseteq [conversation : Conversations, for : KeyPackages, to : Devices]
      /\ joined \subseteq Conversations \X Devices
      /\ invited \subseteq Conversations \X KeyPackages
      /\ overlapped \subseteq Devices \cup Conversations
  BY DEF Init
<1>2. /\ pc \in [Procs -> Labels]
      /\ cmd \in [Procs -> Commands \cup {NoCommand}]
      /\ kp \in [Procs -> KeyPackages \cup {Nothing}]
  BY DEF Init, Labels
<1>3. QED
  BY <1>1, <1>2 DEF TypeOK, Labels

LEMMA ProcessTypes ==
  ASSUME IInv, NEW p \in Procs, ProcessStep(p)
  PROVE  /\ pc' \in [Procs -> Labels]
         /\ cmd' \in [Procs -> Commands \cup {NoCommand}]
         /\ kp' \in [Procs -> KeyPackages \cup {Nothing}]
<1>0. TypeOK /\ Position(p)
  BY DEF IInv
<1>1. pc' \in [Procs -> Labels]
  <2>1. ASSUME NEW c \in Commands, Start(p, c) PROVE pc' \in [Procs -> Labels]
    BY <1>0, <2>1, CommandKinds DEF TypeOK, Labels, Start, Goto
  <2>2. \E l \in Labels : (\A c \in Commands : ~Start(p, c)) => pc' = [pc EXCEPT ![p] = l]
    BY DEF Labels, ProcessStep, Step, Stop, SelectGeneration, InspectGeneration,
      Publish, Export, Build, SaveStorage, SkipArtifact, CheckArtifact, WriteArtifact,
      SubmitKeyPackage, TakeKeyPackage, WriteKeyPackage, AddMember, BeginsCommit, WriteWelcome,
      SendWelcome, Forget, Goto
  <2>3. QED
    BY <1>0, <2>1, <2>2 DEF TypeOK, Labels
<1>2. cmd' \in [Procs -> Commands \cup {NoCommand}]
  BY <1>0
  DEF TypeOK, ProcessStep, Step, Stop, Start, SelectGeneration, InspectGeneration,
      Publish, Export, SaveStorage, SkipArtifact, CheckArtifact, WriteArtifact,
      SubmitKeyPackage, TakeKeyPackage, WriteKeyPackage, AddMember, WriteWelcome,
      SendWelcome, Forget
<1>3. kp' \in [Procs -> KeyPackages \cup {Nothing}]
  <2>1. CASE SelectGeneration(p)
    BY <1>0, <2>1, CommandArguments, KeyPackageKinds DEF TypeOK, SelectGeneration, Position
  <2>2. ASSUME NEW b \in Bundles, Build(p, b) PROVE kp' \in [Procs -> KeyPackages \cup {Nothing}]
    BY <1>0, <2>2, KeyPackageKinds DEF TypeOK, Build
  <2>3. ASSUME NEW c \in Commands, Start(p, c)
        PROVE  kp' \in [Procs -> KeyPackages \cup {Nothing}]
    BY <1>0, <2>3, CommandKinds, CommandArguments DEF TypeOK, Start
  <2>4. CASE ~SelectGeneration(p) /\ ~Export(p) /\ \A c \in Commands : ~Start(p, c)
    BY <1>0, <2>4
    DEF TypeOK, ProcessStep, Step, Stop, InspectGeneration, Publish, SaveStorage,
        SkipArtifact, CheckArtifact, WriteArtifact, SubmitKeyPackage, TakeKeyPackage,
        WriteKeyPackage, AddMember, WriteWelcome, SendWelcome, Forget
  <2>5. QED
    BY <2>1, <2>2, <2>3, <2>4 DEF Export
<1>4. QED
  BY <1>1, <1>2, <1>3

\* Of the steps of p, few change what the processes share.
LEMMA WhoWrites ==
  ASSUME NEW p \in Procs, ProcessStep(p)
  PROVE  /\ UNCHANGED <<generations, groups, acked, joined>>
         /\ keys' # keys => SaveStorage(p)
         /\ bundle' # bundle => WriteArtifact(p)
         /\ drawn' # drawn => Export(p)
         /\ posted' # posted => Publish(p) \/ SubmitKeyPackage(p)
         /\ kept' # kept => WriteKeyPackage(p)
         /\ welcome' # welcome \/ invited' # invited => WriteWelcome(p)
         /\ mail' # mail => SendWelcome(p)
         /\ overlapped' # overlapped => Export(p) \/ AddMember(p)
<1> USE DEF ProcessStep, Step, Stop, Start, SelectGeneration, InspectGeneration, Publish,
   Export, Build, SaveStorage, SkipArtifact, CheckArtifact, WriteArtifact, SubmitKeyPackage,
   TakeKeyPackage, WriteKeyPackage, AddMember, WriteWelcome, SendWelcome, conversations,
   exports, relay
<1>1. /\ UNCHANGED <<generations, groups, acked, joined>>
      /\ keys' # keys => SaveStorage(p)
      /\ bundle' # bundle => WriteArtifact(p)
      /\ drawn' # drawn => Export(p)
  OBVIOUS
<1>2. /\ posted' # posted => Publish(p) \/ SubmitKeyPackage(p)
      /\ kept' # kept => WriteKeyPackage(p)
      /\ welcome' # welcome \/ invited' # invited => WriteWelcome(p)
      /\ mail' # mail => SendWelcome(p)
      /\ overlapped' # overlapped => Export(p) \/ AddMember(p)
  OBVIOUS
<1>3. QED
  BY <1>1, <1>2

\* A command of its own changes no command, and none of these.
LEMMA CommandsWrite ==
  ASSUME CommandStep
  PROVE  /\ UNCHANGED <<process, overlapped, exports, posted, welcome, invited>>
         /\ keys \subseteq keys'
BY DEF CommandStep, Generate, Retire, Expire, WriteInbox, Consume, CreateConversation,
   SubmitWelcome, Join, conversations, relay

-----------------------------------------------------------------------------
LEMMA WelcomeType ==
  ASSUME TypeOK, NEW c \in Conversations, welcome[c] # Nothing, NEW d \in Devices
  PROVE  Welcome(c, d) \in [conversation : Conversations, for : KeyPackages, to : Devices]
BY DEF TypeOK, Welcome

LEMMA RecipientType ==
  ASSUME TypeOK, NEW p \in Procs, cmd[p] \in AddCommand, kp[p] \in KeyPackages
  PROVE  Recipient(p) \in Devices
BY CommandArguments, KeyPackageKinds DEF Recipient

LEMMA NextType == IInv /\ [Next]_vars => TypeOK'
<1> SUFFICES ASSUME IInv, [Next]_vars PROVE TypeOK'
  OBVIOUS
<1>0. TypeOK /\ \A p \in Procs : Position(p)
  BY DEF IInv
<1> USE DEF TypeOK, generations, exports, relay, conversations, process
<1>1. CASE UNCHANGED vars
  BY <1>0, <1>1 DEF vars
<1>2. CASE CommandStep
  <2>1. ASSUME NEW g \in Generations, Generate(g) \/ Retire(g) \/ Expire(g) PROVE TypeOK'
    BY <1>0, <2>1, KeyPackageKinds DEF Generate, Retire, Expire
  <2>2. ASSUME NEW k \in KeyPackages, WriteInbox(k) \/ Consume(k) PROVE TypeOK'
    BY <1>0, <2>2 DEF WriteInbox, Consume
  <2>3. ASSUME NEW c \in Conversations, CreateConversation(c) PROVE TypeOK'
    BY <1>0, <2>3 DEF CreateConversation
  <2>4. ASSUME NEW c \in Conversations, NEW d \in Devices, SubmitWelcome(c, d) PROVE TypeOK'
    BY <1>0, <2>4, WelcomeType DEF SubmitWelcome
  <2>5. ASSUME NEW d \in Devices, NEW m \in mail, Join(d, m) PROVE TypeOK'
    BY <1>0, <2>5 DEF Join
  <2>6. QED
    BY <1>2, <2>1, <2>2, <2>3, <2>4, <2>5 DEF CommandStep
<1>3. ASSUME NEW p \in Procs, ProcessStep(p) PROVE TypeOK'
  <2>1. /\ pc' \in [Procs -> Labels]
        /\ cmd' \in [Procs -> Commands \cup {NoCommand}]
        /\ kp' \in [Procs -> KeyPackages \cup {Nothing}]
    BY <1>3, ProcessTypes
  <2>2. UNCHANGED <<status, current, expired, groups, acked, joined>>
    BY <1>3, WhoWrites
  <2>3. keys' \subseteq KeyPackages
    <3>1. CASE SaveStorage(p)
      BY <1>0, <3>1, KeyPackageKinds DEF SaveStorage, Position, Exporting
    <3>2. QED
      BY <1>0, <1>3, <3>1, WhoWrites
  <2>4. drawn' \subseteq Bundles
    <3>1. CASE Export(p)
      BY <1>0, <3>1 DEF Export, Build
    <3>2. QED
      BY <1>0, <1>3, <3>1, WhoWrites
  <2>5. bundle' \in [Devices -> Bundles \cup {Nothing}]
    <3>1. CASE WriteArtifact(p)
      BY <1>0, <3>1 DEF WriteArtifact, Position, Exporting
    <3>2. QED
      BY <1>0, <1>3, <3>1, WhoWrites
  <2>6. posted' \in [KeyPackages -> Nat]
    <3>1. CASE Publish(p)
      BY <1>0, <3>1 DEF Publish
    <3>2. CASE SubmitKeyPackage(p)
      <4>1. PICK k \in KeyPackages : posted' = [posted EXCEPT ![k] = @ + 1]
        BY <1>0, <3>2, KeyPackageKinds DEF SubmitKeyPackage, Position
      <4>2. posted[k] + 1 \in Nat
        BY <1>0
      <4>3. QED
        BY <1>0, <4>1, <4>2
    <3>3. QED
      BY <1>0, <1>3, <3>1, <3>2, WhoWrites
  <2>7. kept' \subseteq KeyPackages
    <3>1. CASE WriteKeyPackage(p)
      BY <1>0, <3>1 DEF WriteKeyPackage, Position
    <3>2. QED
      BY <1>0, <1>3, <3>1, WhoWrites
  <2>8. /\ welcome' \in [Conversations -> KeyPackages \cup {Nothing}]
        /\ invited' \subseteq Conversations \X KeyPackages
    <3>1. CASE WriteWelcome(p)
      <4>1. cmd[p].conversation \in Conversations /\ kp[p] \in KeyPackages
        BY <1>0, <3>1, CommandArguments DEF WriteWelcome, Position
      <4>2. QED
        BY <1>0, <3>1, <4>1 DEF WriteWelcome
    <3>2. QED
      BY <1>0, <1>3, <3>1, WhoWrites
  <2>9. mail' \subseteq [conversation : Conversations, for : KeyPackages, to : Devices]
    <3>1. CASE SendWelcome(p)
      <4>1. cmd[p] \in AddCommand /\ kp[p] \in KeyPackages /\ welcome[cmd[p].conversation] # Nothing
        BY <1>0, <3>1 DEF SendWelcome, Position
      <4>2. cmd[p].conversation \in Conversations
        BY <4>1, CommandArguments
      <4>3. Recipient(p) \in Devices
        BY <1>0, <4>1, RecipientType
      <4>4. QED
        BY <1>0, <3>1, <4>1, <4>2, <4>3, WelcomeType DEF SendWelcome
    <3>2. QED
      BY <1>0, <1>3, <3>1, WhoWrites
  <2>10. overlapped' \subseteq Devices \cup Conversations
    <3>1. CASE Export(p)
      BY <1>0, <3>1, CommandArguments DEF Export, Build, Position
    <3>2. CASE AddMember(p)
      BY <1>0, <3>2, CommandArguments DEF AddMember, BeginsCommit, Position
    <3>3. QED
      BY <1>0, <1>3, <3>1, <3>2, WhoWrites
  <2>11. QED
    BY <1>0, <2>1, <2>2, <2>3, <2>4, <2>5, <2>6, <2>7, <2>8, <2>9, <2>10 DEF Labels
<1>4. QED
  BY <1>1, <1>2, <1>3, NextParts

-----------------------------------------------------------------------------
(* What a step does *)

\* A step of p leaves the position of the others alone.
LEMMA OthersUntouched ==
  ASSUME TypeOK, NEW p \in Procs, NEW q \in Procs, p # q, ProcessStep(p)
  PROVE  pc'[q] = pc[q] /\ cmd'[q] = cmd[q] /\ kp'[q] = kp[q]
<1> USE DEF TypeOK, ProcessStep, Step, Stop, Start, SelectGeneration, InspectGeneration,
   Publish, Export, Build, SaveStorage, SkipArtifact, CheckArtifact, WriteArtifact,
   SubmitKeyPackage, TakeKeyPackage, WriteKeyPackage, AddMember, BeginsCommit, WriteWelcome,
   SendWelcome, Forget
<1>1. pc'[q] = pc[q]
  BY DEF Goto
<1>2. cmd'[q] = cmd[q]
  OBVIOUS
<1>3. kp'[q] = kp[q]
  OBVIOUS
<1>4. QED
  BY <1>1, <1>2, <1>3

\* What is posted, drawn, exported, stored or invited stays so.
LEMMA FactsStay ==
  ASSUME IInv, [Next]_vars
  PROVE  /\ drawn \subseteq drawn' /\ invited \subseteq invited' /\ overlapped \subseteq overlapped'
         /\ \A k \in KeyPackages : posted[k] > 0 => posted'[k] > 0
         /\ \A d \in Devices : bundle[d] \in Bundles => bundle'[d] \in Bundles
         /\ \A c \in Conversations : welcome[c] # Nothing => welcome'[c] # Nothing
         /\ \A d \in Devices : Stored(d) => Stored(d)'
<1>0. TypeOK /\ (\A p \in Procs : Position(p)) /\ Nothing \notin KeyPackages
  BY KeyPackageKinds DEF IInv
<1>1. CASE UNCHANGED vars
  BY <1>1 DEF vars, exports, relay, conversations, Stored
<1>2. CASE CommandStep
  BY <1>2, CommandsWrite DEF exports, Stored
<1>3. ASSUME NEW p \in Procs, ProcessStep(p)
      PROVE  /\ drawn \subseteq drawn' /\ invited \subseteq invited'
             /\ overlapped \subseteq overlapped'
             /\ \A k \in KeyPackages : posted[k] > 0 => posted'[k] > 0
             /\ \A d \in Devices : bundle[d] \in Bundles => bundle'[d] \in Bundles
             /\ \A c \in Conversations : welcome[c] # Nothing => welcome'[c] # Nothing
             /\ \A d \in Devices : Stored(d) => Stored(d)'
  <2>1. drawn \subseteq drawn'
    BY <1>3, WhoWrites DEF Export, Build
  <2>2. invited \subseteq invited'
    BY <1>3, WhoWrites DEF WriteWelcome
  <2>3. overlapped \subseteq overlapped'
    BY <1>3, WhoWrites DEF Export, Build, AddMember, BeginsCommit
  <2>4. \A k \in KeyPackages : posted[k] > 0 => posted'[k] > 0
    <3>1. CASE Publish(p)
      BY <1>0, <3>1 DEF TypeOK, Publish
    <3>2. CASE SubmitKeyPackage(p)
      BY <1>0, <3>2 DEF TypeOK, SubmitKeyPackage
    <3>3. QED
      BY <1>3, <3>1, <3>2, WhoWrites
  <2>5. \A d \in Devices : bundle[d] \in Bundles => bundle'[d] \in Bundles
    <3>1. CASE WriteArtifact(p)
      BY <1>0, <3>1 DEF TypeOK, WriteArtifact, Position, Exporting
    <3>2. QED
      BY <1>3, <3>1, WhoWrites
  <2>6. \A c \in Conversations : welcome[c] # Nothing => welcome'[c] # Nothing
    <3>1. CASE WriteWelcome(p)
      BY <1>0, <3>1 DEF TypeOK, WriteWelcome, Position
    <3>2. QED
      BY <1>3, <3>1, WhoWrites
  <2>7. \A d \in Devices : Stored(d) => Stored(d)'
    <3>1. CASE SaveStorage(p)
      <4>1. Owner[kp[p]] = cmd[p].device
        BY <1>0, <3>1 DEF SaveStorage, Position, Exporting
      <4>2. QED
        BY <3>1, <4>1 DEF SaveStorage, Stored
    <3>2. CASE keys' = keys
      BY <3>2 DEF Stored
    <3>3. QED
      BY <1>3, <3>1, <3>2, WhoWrites
  <2>8. QED
    BY <2>1, <2>2, <2>3, <2>4, <2>5, <2>6, <2>7
<1>4. QED
  BY <1>1, <1>2, <1>3, NextParts

\* The command whose end a step is.
Ends(p) ==
  Publish(p) \/ SkipArtifact(p) \/ SubmitKeyPackage(p) \/ SendWelcome(p) \/ Stop(p)

LEMMA AfterEnd ==
  ASSUME TypeOK, NEW p \in Procs, Ends(p)
  PROVE  pc'[p] = "idle" /\ cmd'[p] = NoCommand
BY DEF TypeOK, Ends, Publish, SkipArtifact, SubmitKeyPackage, SendWelcome, Stop, Forget, Goto

LEMMA NextPosition == IInv /\ [Next]_vars => \A q \in Procs : Position(q)'
<1> SUFFICES ASSUME IInv, [Next]_vars, NEW q \in Procs PROVE Position(q)'
  OBVIOUS
<1>0. TypeOK /\ Position(q) /\ Evidence
  BY DEF IInv
<1>01. kp[q] \in KeyPackages /\ posted[kp[q]] > 0 => posted'[kp[q]] > 0
  BY FactsStay
<1>02. /\ drawn \subseteq drawn'
       /\ cmd[q] \in ExportCommand /\ bundle[cmd[q].device] \in Bundles =>
            bundle'[cmd[q].device] \in Bundles
       /\ cmd[q] \in AddCommand /\ welcome[cmd[q].conversation] # Nothing =>
            welcome'[cmd[q].conversation] # Nothing
  BY FactsStay, CommandArguments
<1>2. ASSUME pc'[q] = pc[q], cmd'[q] = cmd[q], kp'[q] = kp[q] PROVE Position(q)'
  BY <1>0, <1>01, <1>02, <1>2 DEF Position, Exporting
<1>3. CASE UNCHANGED vars \/ CommandStep
  BY <1>2, <1>3, CommandsWrite DEF vars, process
<1>4. ASSUME NEW p \in Procs, p # q, ProcessStep(p) PROVE Position(q)'
  BY <1>0, <1>2, <1>4, OthersUntouched
<1>5. ASSUME ProcessStep(q) PROVE Position(q)'
  <2>1. CASE Ends(q)
    BY <1>0, <2>1, AfterEnd DEF Position, Exporting
  <2>2. ASSUME NEW c \in Commands, Start(q, c) PROVE Position(q)'
    <3>1. /\ cmd'[q] = c /\ kp'[q] = (IF c.kind = "file" THEN c.file ELSE Nothing)
          /\ posted' = posted
          /\ pc'[q] = CASE c.kind = "publish" -> "inventory"
                        [] c.kind \in {"export", "submit"} -> "export"
                        [] c.kind = "add" -> "inbox"
                        [] c.kind = "file" -> "add"
      BY <1>0, <2>2 DEF TypeOK, Start, Goto, relay
    <3>2. CASE c.kind = "publish"
      BY <3>1, <3>2, CommandKinds DEF Position, Exporting
    <3>3. CASE c.kind \in {"export", "submit"}
      BY <3>1, <3>3, CommandKinds DEF Position, Exporting
    <3>4. CASE c.kind = "add"
      BY <3>1, <3>4, CommandKinds DEF Position, Exporting
    <3>5. CASE c.kind = "file"
      <4>1. c.file \in KeyPackages /\ posted[c.file] > 0 /\ c \in FileCommand
        BY <1>0, <2>2, <3>5, CommandKinds, CommandArguments DEF Evidence, Start
      <4>2. QED
        BY <3>1, <3>5, <4>1 DEF Position, Exporting
    <3>6. QED
      BY <3>2, <3>3, <3>4, <3>5, CommandKinds
  <2>3. CASE SelectGeneration(q)
    <3>1. pc'[q] = "inspect" /\ cmd'[q] \in PublishCommand /\ kp'[q] \in Generations
      BY <1>0, <2>3, CommandArguments DEF TypeOK, SelectGeneration, Goto, Position
    <3>2. QED
      BY <3>1 DEF Position, Exporting
  <2>4. CASE InspectGeneration(q)
    <3>1. pc'[q] = "publish" /\ cmd'[q] \in PublishCommand /\ kp'[q] \in Generations
      BY <1>0, <2>4 DEF TypeOK, InspectGeneration, Goto, Position
    <3>2. QED
      BY <3>1 DEF Position, Exporting
  <2>5. ASSUME NEW b \in Bundles, Build(q, b), cmd' = cmd, pc[q] = "export" PROVE Position(q)'
    <3>1. /\ pc'[q] = "store" /\ cmd'[q] \in ExportCommand /\ kp'[q] = b
          /\ b \in drawn' /\ Owner[b] = cmd'[q].device
      BY <1>0, <2>5 DEF TypeOK, Build, Goto, Position
    <3>2. QED
      BY <3>1 DEF Position, Exporting
  <2>6. CASE SaveStorage(q) \/ CheckArtifact(q)
    <3>1. /\ pc'[q] \in {"look", "artifact"} /\ cmd'[q] = cmd[q] /\ kp'[q] = kp[q]
          /\ pc[q] \in {"store", "look"}
      BY <1>0, <2>6 DEF TypeOK, SaveStorage, CheckArtifact, Goto
    <3>2. QED
      BY <1>0, <1>02, <3>1 DEF Position, Exporting
  <2>7. CASE WriteArtifact(q)
    <3>1. cmd[q] \in ExportCommand /\ kp[q] \in Bundles /\ cmd[q].device \in Devices
      BY <1>0, <2>7, CommandArguments DEF TypeOK, WriteArtifact, Position, Exporting
    <3>2. bundle'[cmd[q].device] = kp[q]
      BY <1>0, <2>7, <3>1 DEF TypeOK, WriteArtifact
    <3>3. CASE cmd[q].kind = "submit"
      <4>1. pc'[q] = "submit" /\ cmd'[q] = cmd[q]
        BY <1>0, <2>7, <3>3 DEF TypeOK, WriteArtifact, Goto
      <4>2. QED
        BY <3>1, <3>2, <4>1 DEF Position, Exporting
    <3>4. CASE cmd[q].kind # "submit"
      <4>1. pc'[q] = "idle"
        BY <1>0, <2>7, <3>4 DEF TypeOK, WriteArtifact, Forget, Goto
      <4>2. QED
        BY <4>1 DEF Position, Exporting
    <3>5. QED
      BY <3>3, <3>4
  <2>8. ASSUME NEW k \in KeyPackages, TakeKeyPackage(q, k) PROVE Position(q)'
    <3>1. posted[k] > 0
      BY <1>0, <2>8 DEF TypeOK, TakeKeyPackage, Inbox
    <3>2. /\ pc'[q] = "write" /\ cmd'[q] \in AddCommand /\ kp'[q] = k /\ posted' = posted
      BY <1>0, <2>8 DEF TypeOK, TakeKeyPackage, Goto, Position, relay
    <3>3. QED
      BY <3>1, <3>2 DEF Position, Exporting
  <2>9. CASE WriteKeyPackage(q) \/ AddMember(q)
    <3>1. /\ cmd'[q] = cmd[q] /\ kp'[q] = kp[q] /\ pc[q] \in {"write", "add"}
          /\ pc'[q] \in {"add", "commit"}
      BY <1>0, <2>9 DEF TypeOK, WriteKeyPackage, AddMember, BeginsCommit, Goto
    <3>2. QED
      BY <1>0, <1>01, <3>1 DEF Position, Exporting
  <2>10. CASE WriteWelcome(q)
    <3>1. /\ cmd[q] \in AddCommand \cup FileCommand /\ kp[q] \in KeyPackages
          /\ cmd[q].conversation \in Conversations
      BY <1>0, <2>10, CommandArguments DEF WriteWelcome, Position
    <3>2. welcome'[cmd[q].conversation] # Nothing
      BY <1>0, <2>10, <3>1, KeyPackageKinds DEF TypeOK, WriteWelcome
    <3>3. CASE cmd[q].kind = "add"
      <4>1. pc'[q] = "send" /\ cmd'[q] = cmd[q] /\ kp'[q] = kp[q] /\ pc[q] = "commit"
        BY <1>0, <2>10, <3>3 DEF TypeOK, WriteWelcome, Goto
      <4>2. cmd[q] \in AddCommand
        BY <3>1, <3>3, CommandArguments
      <4>3. QED
        BY <1>0, <1>01, <3>2, <4>1, <4>2 DEF Position, Exporting
    <3>4. CASE cmd[q].kind # "add"
      <4>1. pc'[q] = "idle"
        BY <1>0, <2>10, <3>4 DEF TypeOK, WriteWelcome, Forget, Goto
      <4>2. QED
        BY <4>1 DEF Position, Exporting
    <3>5. QED
      BY <3>3, <3>4
  <2>11. QED
    BY <1>5, <2>1, <2>2, <2>3, <2>4, <2>5, <2>6, <2>7, <2>8, <2>9, <2>10
    DEF ProcessStep, Step, Ends, Export
<1>6. QED
  BY <1>3, <1>4, <1>5, NextParts

-----------------------------------------------------------------------------
(* One export of a device *)

\* The process steps that a device's exports are about.
LEMMA ExportEnters ==
  ASSUME TypeOK, NEW p \in Procs, ProcessStep(p), NEW d \in Devices, InExport(p, d)'
  PROVE  Export(p) \/ SaveStorage(p) \/ CheckArtifact(p) \/ WriteArtifact(p)
<1>1. CASE Ends(p)
  BY <1>1, AfterEnd DEF InExport
<1>2. ASSUME NEW c \in Commands, Start(p, c) PROVE FALSE
  BY <1>2, CommandKinds DEF TypeOK, Start, Goto, InExport
<1>3. CASE WriteWelcome(p)
  BY <1>3 DEF TypeOK, WriteWelcome, Forget, Goto, InExport
<1>4. QED
  BY <1>1, <1>2, <1>3
  DEF TypeOK, InExport, ProcessStep, Step, Ends, SelectGeneration, InspectGeneration,
      TakeKeyPackage, WriteKeyPackage, AddMember, BeginsCommit, Goto

\* What is posted of a device's bundle, and its artifact, are written by its export.
LEMMA BundleWrites ==
  ASSUME IInv, NEW p \in Procs, ProcessStep(p), NEW d \in Devices, ~InExport(p, d)
  PROVE  /\ \A b \in Bundles : Owner[b] = d => posted'[b] = posted[b]
         /\ bundle'[d] = bundle[d]
<1>0. TypeOK /\ Position(p) /\ Evidence
  BY DEF IInv
<1>1. CASE Publish(p)
  BY <1>0, <1>1, WhoWrites, KeyPackageKinds DEF TypeOK, Publish, Position, exports
<1>2. CASE SubmitKeyPackage(p)
  <2>1. /\ cmd[p].device \in Devices /\ cmd[p].device # d
        /\ bundle[cmd[p].device] \in Bundles
    BY <1>0, <1>2, CommandArguments DEF SubmitKeyPackage, Position, InExport
  <2>2. Owner[bundle[cmd[p].device]] = cmd[p].device
    BY <1>0, <2>1, KeyPackageKinds DEF Evidence
  <2>3. QED
    BY <1>0, <1>2, <2>1, <2>2, KeyPackageKinds DEF TypeOK, SubmitKeyPackage, exports
<1>3. CASE WriteArtifact(p)
  <2>1. cmd[p].device # d
    BY <1>3 DEF WriteArtifact, InExport
  <2>2. QED
    BY <1>0, <1>3, <2>1 DEF TypeOK, WriteArtifact, relay
<1>4. QED
  BY <1>1, <1>2, <1>3, WhoWrites

\* A device's second clause: what has been posted has left a storage.
LEMMA PostedStored ==
  ASSUME IInv, [Next]_vars, NEW d \in Devices, ExportSafe(d),
         NEW b \in Bundles, Owner[b] = d, posted'[b] > 0
  PROVE  Stored(d)'
<1>0. TypeOK /\ \A p \in Procs : Position(p)
  BY DEF IInv
<1>1. CASE posted[b] > 0
  BY <1>1, FactsStay DEF ExportSafe
<1>2. CASE posted'[b] = posted[b]
  BY <1>1, <1>2
<1>3. ASSUME NEW p \in Procs, ProcessStep(p), posted'[b] # posted[b] PROVE Stored(d)'
  <2>1. InExport(p, d)
    BY <1>3, BundleWrites
  <2>2. Publish(p) \/ SubmitKeyPackage(p)
    BY <1>3, WhoWrites
  <2>3. pc[p] = "submit"
    BY <2>1, <2>2 DEF InExport, Publish, SubmitKeyPackage
  <2>4. QED
    BY <2>1, <2>3, FactsStay DEF ExportSafe
<1>4. QED
  BY <1>2, <1>3, NextParts, CommandsWrite DEF vars, relay

\* The exports of a device that a step of p leaves where they are.
LEMMA ExportOthers ==
  ASSUME IInv, [Next]_vars, NEW d \in Devices, ExportSafe(d),
         NEW p \in Procs, ProcessStep(p), ~InExport(p, d)',
         NEW q \in Procs, InExport(q, d)'
  PROVE  /\ \A r \in Procs : InExport(r, d)' => q = r
         /\ pc'[q] # "submit" => \A b \in Bundles : Owner[b] = d => posted'[b] = 0
         /\ pc'[q] = "submit" => posted'[bundle'[d]] = 0
         /\ pc'[q] # "store" => Stored(d)'
<1>0. TypeOK /\ Evidence
  BY DEF IInv
<1>1. \A r \in Procs : r # p => pc'[r] = pc[r] /\ cmd'[r] = cmd[r]
  BY <1>0, OthersUntouched
<1>2. \A r \in Procs : InExport(r, d)' => InExport(r, d) /\ pc'[r] = pc[r]
  BY <1>1 DEF InExport
<1>3. InExport(q, d) /\ pc'[q] = pc[q] /\ q # p
  BY <1>2
<1>4. \A r \in Procs : InExport(r, d)' => q = r
  BY <1>2, <1>3 DEF ExportSafe
<1>5. ~InExport(p, d)
  BY <1>3 DEF ExportSafe
<1>6. /\ \A b \in Bundles : Owner[b] = d => posted'[b] = posted[b]
      /\ bundle'[d] = bundle[d]
  BY <1>5, BundleWrites
<1>7. pc[q] = "submit" => bundle[d] \in Bundles /\ Owner[bundle[d]] = d
  BY <1>0, <1>3, KeyPackageKinds DEF IInv, Position, Evidence, InExport
<1>8. /\ pc[q] # "submit" => \A b \in Bundles : Owner[b] = d => posted[b] = 0
      /\ pc[q] = "submit" => posted[bundle[d]] = 0
      /\ pc[q] # "store" => Stored(d)
  BY <1>3 DEF ExportSafe
<1>9. QED
  BY <1>3, <1>4, <1>6, <1>7, <1>8, FactsStay

\* The steps of the one export.
LEMMA ExportOne ==
  ASSUME IInv, [Next]_vars, NEW d \in Devices \ overlapped', ExportSafe(d),
         NEW p \in Procs, ProcessStep(p), InExport(p, d)'
  PROVE  /\ \A r \in Procs : InExport(r, d)' => p = r
         /\ pc'[p] # "submit" => \A b \in Bundles : Owner[b] = d => posted'[b] = 0
         /\ pc'[p] = "submit" => posted'[bundle'[d]] = 0
         /\ pc'[p] # "store" => Stored(d)'
<1>0. TypeOK /\ Position(p)
  BY DEF IInv
<1>1. \A r \in Procs : r # p /\ InExport(r, d)' => InExport(r, d)
  BY <1>0, OthersUntouched DEF InExport
<1>2. ASSUME NEW b \in Bundles, Build(p, b), UNCHANGED <<cmd, posted>>, pc[p] = "export"
      PROVE  /\ \A r \in Procs : InExport(r, d)' => p = r
             /\ \A e \in Bundles : Owner[e] = d => posted'[e] = 0
             /\ pc'[p] = "store"
  <2>1. pc'[p] = "store" /\ cmd[p].device = d /\ ~Stored(d)
    BY <1>0, <1>2 DEF TypeOK, Build, Goto, InExport
  <2>2. ~\E q \in Procs \ {p} : Exporting(q) /\ cmd[q].device = d
    BY <1>2, <2>1 DEF Build
  <2>3. \A r \in Procs \ {p} : ~InExport(r, d)
    BY <2>1, <2>2 DEF ExportSafe, InExport, Exporting
  <2>4. \A e \in Bundles : Owner[e] = d => ~(posted[e] > 0) /\ posted[e] \in Nat
    BY <1>0, <2>1, KeyPackageKinds DEF TypeOK, ExportSafe
  <2>5. QED
    BY <1>1, <1>2, <2>1, <2>3, <2>4
<1>3. ASSUME SaveStorage(p) \/ CheckArtifact(p) \/ WriteArtifact(p)
      PROVE  /\ InExport(p, d) /\ pc[p] \in {"store", "look", "artifact"}
             /\ \A r \in Procs : InExport(r, d)' => p = r
             /\ \A b \in Bundles : Owner[b] = d => posted'[b] = 0
  <2>1. InExport(p, d) /\ pc[p] \in {"store", "look", "artifact"} /\ posted' = posted
    BY <1>0, <1>3 DEF TypeOK, SaveStorage, CheckArtifact, WriteArtifact, Forget, Goto, InExport, relay
  <2>2. QED
    BY <1>1, <2>1 DEF ExportSafe
<1>4. CASE SaveStorage(p)
  <2>1. pc'[p] = "look" /\ kp[p] \in keys' /\ Owner[kp[p]] = cmd[p].device /\ cmd[p].device = d
    BY <1>0, <1>3, <1>4 DEF TypeOK, SaveStorage, Goto, Position, Exporting, InExport
  <2>2. Stored(d)'
    BY <2>1 DEF Stored
  <2>3. QED
    BY <1>3, <1>4, <2>1, <2>2
<1>5. CASE CheckArtifact(p)
  <2>1. pc'[p] = "artifact" /\ pc[p] = "look"
    BY <1>0, <1>5 DEF TypeOK, CheckArtifact, Goto
  <2>2. Stored(d)'
    BY <1>3, <1>5, <2>1, FactsStay DEF ExportSafe
  <2>3. QED
    BY <1>3, <1>5, <2>1, <2>2
<1>6. CASE WriteArtifact(p)
  <2>1. kp[p] \in Bundles /\ Owner[kp[p]] = d /\ bundle'[d] = kp[p] /\ pc[p] = "artifact"
    BY <1>0, <1>3, <1>6 DEF TypeOK, WriteArtifact, Position, Exporting, InExport
  <2>2. Stored(d)'
    BY <1>3, <1>6, <2>1, FactsStay DEF ExportSafe
  <2>3. QED
    BY <1>3, <1>6, <2>1, <2>2
<1>7. CASE Export(p)
  <2>1. PICK b \in Bundles : Build(p, b)
    BY <1>7 DEF Export
  <2>2. UNCHANGED <<cmd, posted>> /\ pc[p] = "export"
    BY <1>7 DEF Export, relay
  <2>3. QED
    BY <1>2, <2>1, <2>2
<1>8. QED
  BY <1>0, <1>4, <1>5, <1>6, <1>7, ExportEnters

LEMMA NextExport == IInv /\ [Next]_vars => \A d \in Devices \ overlapped' : ExportSafe(d)'
<1> SUFFICES ASSUME IInv, [Next]_vars, NEW d \in Devices \ overlapped' PROVE ExportSafe(d)'
  OBVIOUS
<1>0. ExportSafe(d)
  BY FactsStay DEF IInv
<1>1. \A b \in Bundles : Owner[b] = d /\ posted'[b] > 0 => Stored(d)'
  BY <1>0, PostedStored
<1>2. ASSUME NEW q \in Procs, InExport(q, d)'
      PROVE  /\ \A r \in Procs : InExport(r, d)' => q = r
             /\ pc'[q] # "submit" => \A b \in Bundles : Owner[b] = d => posted'[b] = 0
             /\ pc'[q] = "submit" => posted'[bundle'[d]] = 0
             /\ pc'[q] # "store" => Stored(d)'
  <2>1. CASE UNCHANGED vars \/ CommandStep
    <3>1. UNCHANGED <<pc, cmd, posted, bundle>>
      BY <2>1, CommandsWrite DEF vars, process, exports, relay
    <3>2. \A r \in Procs : InExport(r, d)' <=> InExport(r, d)
      BY <3>1 DEF InExport
    <3>3. /\ \A r \in Procs : InExport(r, d) => q = r
          /\ pc[q] # "submit" => \A b \in Bundles : Owner[b] = d => posted[b] = 0
          /\ pc[q] = "submit" => posted[bundle[d]] = 0
          /\ pc[q] # "store" => Stored(d)
      BY <1>0, <1>2, <3>2 DEF ExportSafe
    <3>4. QED
      BY <3>1, <3>2, <3>3, FactsStay
  <2>2. ASSUME NEW p \in Procs, ProcessStep(p), InExport(p, d)'
        PROVE  /\ \A r \in Procs : InExport(r, d)' => q = r
               /\ pc'[q] # "submit" => \A b \in Bundles : Owner[b] = d => posted'[b] = 0
               /\ pc'[q] = "submit" => posted'[bundle'[d]] = 0
               /\ pc'[q] # "store" => Stored(d)'
    <3>1. p = q
      BY <1>0, <1>2, <2>2, ExportOne
    <3>2. QED
      BY <1>0, <2>2, <3>1, ExportOne
  <2>3. ASSUME NEW p \in Procs, ProcessStep(p), ~InExport(p, d)'
        PROVE  /\ \A r \in Procs : InExport(r, d)' => q = r
               /\ pc'[q] # "submit" => \A b \in Bundles : Owner[b] = d => posted'[b] = 0
               /\ pc'[q] = "submit" => posted'[bundle'[d]] = 0
               /\ pc'[q] # "store" => Stored(d)'
    BY <1>0, <1>2, <2>3, ExportOthers
  <2>4. QED
    BY <2>1, <2>2, <2>3, NextParts
<1>3. QED
  BY <1>1, <1>2 DEF ExportSafe

LEMMA NextQueued == IInv /\ [Next]_vars => QueuedOnce'
<1> SUFFICES ASSUME IInv, [Next]_vars, NEW k \in KeyPackages, Owner[k] \notin overlapped'
             PROVE  posted'[k] \in {0, 1}
  BY DEF QueuedOnce
<1>0. TypeOK /\ Evidence /\ \A p \in Procs : Position(p)
  BY DEF IInv
<1>1. Owner[k] \in Devices \ overlapped /\ posted[k] \in {0, 1}
  BY FactsStay, KeyPackageKinds DEF IInv, QueuedOnce
<1>2. CASE UNCHANGED vars \/ CommandStep
  BY <1>1, <1>2, CommandsWrite DEF vars, relay
<1>3. ASSUME NEW p \in Procs, Publish(p) PROVE posted'[k] \in {0, 1}
  BY <1>0, <1>1, <1>3 DEF TypeOK, Publish
<1>4. ASSUME NEW p \in Procs, SubmitKeyPackage(p) PROVE posted'[k] \in {0, 1}
  <2>1. /\ cmd[p].device \in Devices /\ pc[p] = "submit"
        /\ bundle[cmd[p].device] \in Bundles /\ InExport(p, cmd[p].device)
    BY <1>0, <1>4, CommandArguments DEF SubmitKeyPackage, Position, InExport
  <2>2. Owner[bundle[cmd[p].device]] = cmd[p].device
    BY <1>0, <2>1, KeyPackageKinds DEF Evidence
  <2>3. CASE bundle[cmd[p].device] = k
    <3>1. ExportSafe(Owner[k])
      BY <1>1 DEF IInv
    <3>2. posted[k] = 0
      BY <2>1, <2>2, <2>3, <3>1 DEF ExportSafe
    <3>3. QED
      BY <1>0, <1>4, <2>3, <3>2 DEF TypeOK, SubmitKeyPackage
  <2>4. CASE bundle[cmd[p].device] # k
    BY <1>0, <1>1, <1>4, <2>4 DEF TypeOK, SubmitKeyPackage
  <2>5. QED
    BY <2>3, <2>4
<1>5. QED
  BY <1>1, <1>2, <1>3, <1>4, NextParts, WhoWrites

-----------------------------------------------------------------------------
(* One add-member of a conversation *)

LEMMA CommitEnters ==
  ASSUME TypeOK, NEW p \in Procs, ProcessStep(p), NEW c \in Conversations, InCommit(p, c)'
  PROVE  AddMember(p) /\ cmd[p].conversation = c
<1>1. CASE Ends(p)
  BY <1>1, AfterEnd DEF InCommit
<1>2. ASSUME NEW e \in Commands, Start(p, e) PROVE FALSE
  BY <1>2, CommandKinds DEF TypeOK, Start, Goto, InCommit
<1>3. CASE WriteWelcome(p)
  BY <1>3 DEF TypeOK, WriteWelcome, Forget, Goto, InCommit
<1>4. CASE WriteArtifact(p)
  BY <1>4 DEF TypeOK, WriteArtifact, Forget, Goto, InCommit
<1>5. QED
  BY <1>1, <1>2, <1>3, <1>4
  DEF TypeOK, InCommit, ProcessStep, Step, Ends, SelectGeneration, InspectGeneration,
      Export, Build, SaveStorage, CheckArtifact, TakeKeyPackage, WriteKeyPackage, AddMember,
      Goto

\* The Welcome of a conversation that no add-members overlap on is written while there is
\* none, none has been sent, and no command is about to send one.
LEMMA FirstWelcome ==
  ASSUME IInv, NEW p \in Procs, WriteWelcome(p), cmd[p].conversation \notin overlapped
  PROVE  /\ cmd[p].conversation \in Conversations /\ kp[p] \in KeyPackages
         /\ welcome[cmd[p].conversation] = Nothing
         /\ \A q \in Procs : pc[q] = "send" => cmd[q].conversation # cmd[p].conversation
         /\ \A m \in mail : m.conversation # cmd[p].conversation
<1>0. TypeOK /\ \A q \in Procs : Position(q)
  BY DEF IInv
<1>1. cmd[p].conversation \in Conversations /\ kp[p] \in KeyPackages
  BY <1>0, CommandArguments DEF WriteWelcome, Position
<1>2. AddSafe(cmd[p].conversation)
  BY <1>1 DEF IInv
<1>3. welcome[cmd[p].conversation] = Nothing
  BY <1>2 DEF AddSafe, InCommit, WriteWelcome
<1>4. \A q \in Procs : pc[q] = "send" => cmd[q].conversation # cmd[p].conversation
  BY <1>0, <1>3 DEF Position
<1>5. ASSUME NEW m \in mail, m.conversation = cmd[p].conversation PROVE FALSE
  <2>1. m.for = Nothing
    BY <1>1, <1>3, <1>5 DEF IInv, WelcomeIsForMember
  <2>2. QED
    BY <1>0, <2>1, KeyPackageKinds DEF TypeOK
<1>6. QED
  BY <1>1, <1>3, <1>4, <1>5

LEMMA NextAdd == IInv /\ [Next]_vars => \A c \in Conversations \ overlapped' : AddSafe(c)'
<1> SUFFICES ASSUME IInv, [Next]_vars, NEW c \in Conversations \ overlapped' PROVE AddSafe(c)'
  OBVIOUS
<1>0. TypeOK /\ AddSafe(c) /\ \A p \in Procs : Position(p)
  BY FactsStay DEF IInv
<1>1. CASE UNCHANGED vars \/ CommandStep
  BY <1>0, <1>1, CommandsWrite DEF vars, process, conversations, AddSafe, InCommit
<1>2. ASSUME NEW p \in Procs, ProcessStep(p) PROVE AddSafe(c)'
  <2>1. \A r \in Procs : r # p /\ InCommit(r, c)' => InCommit(r, c)
    BY <1>0, <1>2, OthersUntouched DEF InCommit
  <2>2. CASE InCommit(p, c)'
    <3>1. AddMember(p) /\ cmd[p].conversation = c
      BY <1>0, <1>2, <2>2, CommitEnters
    <3>2. /\ welcome[c] = Nothing /\ welcome' = welcome
          /\ ~\E q \in Procs \ {p} : pc[q] = "commit" /\ cmd[q].conversation = c
      BY <3>1 DEF AddMember, BeginsCommit, conversations
    <3>3. \A r \in Procs : InCommit(r, c)' => r = p
      BY <2>1, <3>2 DEF InCommit
    <3>4. QED
      BY <3>2, <3>3 DEF AddSafe
  <2>3. CASE ~InCommit(p, c)'
    <3>1. \A r \in Procs : InCommit(r, c)' => InCommit(r, c) /\ r # p
      BY <2>1, <2>3
    <3>2. \A r \in Procs : InCommit(r, c)' => welcome'[c] = Nothing
      <4>1. CASE WriteWelcome(p)
        <5>1. ASSUME NEW r \in Procs, InCommit(r, c)' PROVE cmd[p].conversation # c
          BY <1>0, <3>1, <4>1, <5>1 DEF AddSafe, InCommit, WriteWelcome
        <5>2. QED
          BY <1>0, <3>1, <4>1, <5>1 DEF TypeOK, WriteWelcome, AddSafe
      <4>2. CASE welcome' = welcome
        BY <1>0, <3>1, <4>2 DEF AddSafe
      <4>3. QED
        BY <1>2, <4>1, <4>2, WhoWrites
    <3>3. QED
      BY <1>0, <3>1, <3>2 DEF AddSafe
  <2>4. QED
    BY <2>2, <2>3
<1>3. QED
  BY <1>1, <1>2, NextParts

LEMMA NextWelcome == IInv /\ [Next]_vars => WelcomeIsForMember'
<1> SUFFICES ASSUME IInv, [Next]_vars, NEW c \in Conversations \ overlapped'
             PROVE  /\ \A q \in Procs : pc'[q] = "send" /\ cmd'[q].conversation = c =>
                         welcome'[c] = kp'[q]
                    /\ \A m \in mail' : m.conversation = c => m.for = welcome'[c]
  BY DEF WelcomeIsForMember
<1>0. TypeOK /\ c \notin overlapped /\ \A p \in Procs : Position(p)
  BY FactsStay DEF IInv
<1>1. /\ \A q \in Procs : pc[q] = "send" /\ cmd[q].conversation = c => welcome[c] = kp[q]
      /\ \A m \in mail : m.conversation = c => m.for = welcome[c]
  BY <1>0 DEF IInv, WelcomeIsForMember
<1>2. CASE UNCHANGED vars \/ CommandStep
  <2>1. UNCHANGED <<pc, cmd, kp, welcome>>
    BY <1>2, CommandsWrite DEF vars, process, conversations
  <2>2. mail' = mail \/ \E e \in Conversations, d \in Devices : mail' = mail \cup {Welcome(e, d)}
    BY <1>2 DEF vars, CommandStep, Generate, Retire, Expire, WriteInbox, Consume,
       CreateConversation, SubmitWelcome, Join
  <2>3. QED
    BY <1>1, <2>1, <2>2 DEF Welcome
<1>3. ASSUME NEW p \in Procs, ProcessStep(p)
      PROVE  /\ \A q \in Procs : pc'[q] = "send" /\ cmd'[q].conversation = c =>
                  welcome'[c] = kp'[q]
             /\ \A m \in mail' : m.conversation = c => m.for = welcome'[c]
  <2>1. CASE WriteWelcome(p) /\ cmd[p].conversation = c
    <3>1. /\ kp[p] \in KeyPackages /\ welcome'[c] = kp[p] /\ mail' = mail
          /\ \A q \in Procs : pc[q] = "send" => cmd[q].conversation # c
          /\ \A m \in mail : m.conversation # c
      BY <1>0, <2>1, FirstWelcome DEF TypeOK, WriteWelcome
    <3>2. pc'[p] = "send" => kp'[p] = kp[p]
      BY <1>0, <2>1 DEF TypeOK, WriteWelcome, Forget, Goto
    <3>3. QED
      BY <1>0, <1>3, <3>1, <3>2, OthersUntouched
  <2>2. CASE ~(WriteWelcome(p) /\ cmd[p].conversation = c)
    <3>1. welcome'[c] = welcome[c]
      <4>1. CASE WriteWelcome(p)
        BY <1>0, <2>2, <4>1 DEF TypeOK, WriteWelcome
      <4>2. QED
        BY <1>3, <4>1, WhoWrites
    <3>2. pc'[p] = "send" => cmd'[p].conversation # c
      <4>1. CASE Ends(p)
        BY <1>0, <4>1, AfterEnd
      <4>2. ASSUME NEW e \in Commands, Start(p, e) PROVE pc'[p] # "send"
        BY <1>0, <4>2, CommandKinds DEF TypeOK, Start, Goto
      <4>3. CASE WriteWelcome(p)
        BY <1>0, <2>2, <4>3 DEF TypeOK, WriteWelcome, Forget, Goto
      <4>4. CASE WriteArtifact(p)
        BY <1>0, <4>4 DEF TypeOK, WriteArtifact, Forget, Goto
      <4>5. QED
        BY <1>0, <1>3, <4>1, <4>2, <4>3, <4>4
        DEF TypeOK, ProcessStep, Step, Ends, SelectGeneration, InspectGeneration, Export,
            Build, SaveStorage, CheckArtifact, TakeKeyPackage, WriteKeyPackage, AddMember,
            BeginsCommit, Goto
    <3>3. \A q \in Procs : pc'[q] = "send" /\ cmd'[q].conversation = c => welcome'[c] = kp'[q]
      BY <1>0, <1>1, <1>3, <3>1, <3>2, OthersUntouched
    <3>4. mail' = mail \/ mail' = mail \cup {Welcome(cmd[p].conversation, Recipient(p))}
      BY <1>3, WhoWrites DEF SendWelcome
    <3>5. \A m \in mail' : m.conversation = c => m.for = welcome[c]
      BY <1>1, <3>4 DEF Welcome
    <3>6. QED
      BY <3>1, <3>3, <3>5
  <2>3. QED
    BY <2>1, <2>2
<1>4. QED
  BY <1>2, <1>3, NextParts

-----------------------------------------------------------------------------
(* The chain of evidence *)

LEMMA NextEvidence == IInv /\ [Next]_vars => Evidence'
<1> SUFFICES ASSUME IInv, [Next]_vars PROVE Evidence'
  OBVIOUS
<1>0. TypeOK /\ Evidence /\ \A p \in Procs : Position(p)
  BY DEF IInv
<1>1. \A d \in Devices : bundle'[d] # Nothing => Owner[bundle'[d]] = d
  <2>1. ASSUME NEW p \in Procs, WriteArtifact(p), NEW d \in Devices, bundle'[d] # Nothing
        PROVE  Owner[bundle'[d]] = d
    BY <1>0, <2>1 DEF TypeOK, WriteArtifact, Position, Exporting, Evidence
  <2>2. CASE bundle' = bundle
    BY <1>0, <2>2 DEF Evidence
  <2>3. QED
    BY <2>1, <2>2, NextParts, WhoWrites, CommandsWrite DEF vars, exports
<1>2. \A k \in kept' : posted'[k] > 0
  <2>1. ASSUME NEW k \in KeyPackages, WriteInbox(k) \/ Consume(k)
        PROVE  kept' = kept \cup {k} /\ posted[k] > 0
    BY <1>0, <2>1 DEF TypeOK, WriteInbox, Consume, Inbox
  <2>2. ASSUME NEW p \in Procs, WriteKeyPackage(p)
        PROVE  kept' = kept \cup {kp[p]} /\ posted[kp[p]] > 0 /\ kp[p] \in KeyPackages
    BY <1>0, <2>2 DEF WriteKeyPackage, Position
  <2>3. kept' = kept \/ \E k \in KeyPackages : kept' = kept \cup {k} /\ posted[k] > 0
    <3>1. CASE UNCHANGED vars
      BY <3>1 DEF vars
    <3>2. CASE CommandStep
      BY <2>1, <3>2 DEF CommandStep, Generate, Retire, Expire, CreateConversation,
         SubmitWelcome, Join
    <3>3. ASSUME NEW p \in Procs, ProcessStep(p)
          PROVE  kept' = kept \/ \E k \in KeyPackages : kept' = kept \cup {k} /\ posted[k] > 0
      BY <2>2, <3>3, WhoWrites
    <3>4. QED
      BY <3>1, <3>2, <3>3, NextParts
  <2>4. QED
    BY <1>0, <2>3, FactsStay DEF TypeOK, Evidence
<1>3. ASSUME NEW p \in Procs, WriteWelcome(p)
      PROVE  /\ \A i \in invited' : posted'[i[2]] > 0
             /\ \A c \in Conversations : welcome'[c] # Nothing => <<c, welcome'[c]>> \in invited'
  <2>1. /\ cmd[p].conversation \in Conversations /\ kp[p] \in KeyPackages
        /\ posted[kp[p]] > 0 /\ posted' = posted
    BY <1>0, <1>3, CommandArguments DEF WriteWelcome, Position, relay
  <2>2. \A c \in Conversations :
          welcome'[c] = IF c = cmd[p].conversation THEN kp[p] ELSE welcome[c]
    BY <1>0, <1>3 DEF TypeOK, WriteWelcome
  <2>3. invited' = invited \cup {<<cmd[p].conversation, kp[p]>>}
    BY <1>3 DEF WriteWelcome
  <2>4. QED
    BY <1>0, <2>1, <2>2, <2>3 DEF Evidence
<1>4. /\ \A i \in invited' : posted'[i[2]] > 0
      /\ \A c \in Conversations : welcome'[c] # Nothing => <<c, welcome'[c]>> \in invited'
  <2>1. CASE UNCHANGED <<welcome, invited>>
    <3>1. \A i \in invited : i[2] \in KeyPackages /\ posted[i[2]] > 0
      BY <1>0 DEF TypeOK, Evidence
    <3>2. QED
      BY <1>0, <2>1, <3>1, FactsStay DEF Evidence
  <2>2. QED
    BY <1>3, <2>1, NextParts, WhoWrites, CommandsWrite DEF vars, conversations
<1>5. \A m \in mail' : <<m.conversation, m.for>> \in invited'
  <2>1. ASSUME NEW c \in Conversations, NEW d, welcome[c] # Nothing,
               mail' = mail \cup {Welcome(c, d)}
        PROVE  \A m \in mail' : <<m.conversation, m.for>> \in invited'
    <3>1. invited \subseteq invited'
      BY FactsStay
    <3>2. <<c, welcome[c]>> \in invited'
      BY <1>0, <2>1, <3>1 DEF Evidence
    <3>3. \A m \in mail : <<m.conversation, m.for>> \in invited'
      BY <1>0, <3>1 DEF Evidence
    <3>4. Welcome(c, d).conversation = c /\ Welcome(c, d).for = welcome[c]
      BY DEF Welcome
    <3>5. QED
      BY <2>1, <3>2, <3>3, <3>4
  <2>2. CASE mail' = mail
    BY <1>0, <2>2, FactsStay DEF Evidence
  <2>3. ASSUME NEW p \in Procs, SendWelcome(p)
        PROVE  \A m \in mail' : <<m.conversation, m.for>> \in invited'
    <3>1. cmd[p].conversation \in Conversations /\ welcome[cmd[p].conversation] # Nothing
      BY <1>0, <2>3, CommandArguments DEF SendWelcome, Position
    <3>2. QED
      BY <2>1, <2>3, <3>1 DEF SendWelcome
  <2>4. CASE CommandStep
    BY <2>1, <2>2, <2>4
    DEF CommandStep, Generate, Retire, Expire, WriteInbox, Consume, CreateConversation,
        SubmitWelcome, Join
  <2>5. QED
    BY <2>2, <2>3, <2>4, NextParts, WhoWrites DEF vars
<1>6. \A j \in joined' : \E k \in KeyPackages : <<j[1], k>> \in invited' /\ Owner[k] = j[2]
  <2>1. ASSUME NEW d \in Devices, NEW m \in mail, Join(d, m)
        PROVE  \A j \in joined' : \E k \in KeyPackages : <<j[1], k>> \in invited' /\ Owner[k] = j[2]
    <3>1. m.for \in KeyPackages /\ <<m.conversation, m.for>> \in invited'
      BY <1>0, <2>1, FactsStay DEF TypeOK, Evidence
    <3>2. QED
      BY <1>0, <2>1, <3>1, FactsStay DEF Join, Evidence
  <2>2. CASE joined' = joined
    BY <1>0, <2>2, FactsStay DEF Evidence
  <2>3. CASE CommandStep
    BY <2>1, <2>2, <2>3
    DEF CommandStep, Generate, Retire, Expire, WriteInbox, Consume, CreateConversation,
        SubmitWelcome
  <2>4. QED
    BY <2>2, <2>3, NextParts, WhoWrites DEF vars
<1>7. QED
  BY <1>1, <1>2, <1>4, <1>5, <1>6 DEF Evidence

-----------------------------------------------------------------------------
(* The theorems *)

LEMMA InitIInv == Init => IInv
<1> SUFFICES ASSUME Init PROVE IInv
  OBVIOUS
<1>1. TypeOK
  BY InitType
<1>2. \A p \in Procs : pc[p] = "idle"
  BY DEF Init
<1>3. \A k \in KeyPackages : posted[k] = 0
  BY DEF Init
<1>4. \A p \in Procs : Position(p)
  BY <1>2 DEF Position, Exporting
<1>5. \A d \in Devices : ExportSafe(d)
  BY <1>2, <1>3, KeyPackageKinds DEF ExportSafe, InExport
<1>6. \A c \in Conversations : AddSafe(c)
  BY <1>2 DEF AddSafe, InCommit
<1>7. WelcomeIsForMember
  BY <1>2 DEF WelcomeIsForMember, Init
<1>8. QueuedOnce
  BY <1>3 DEF QueuedOnce
<1>9. Evidence
  BY DEF Evidence, Init
<1>10. QED
  BY <1>1, <1>4, <1>5, <1>6, <1>7, <1>8, <1>9 DEF IInv

\* The chain of evidence from a KeyPackage to a joined group, and the uniqueness of an
\* export and an add-member that nothing overlaps, hold in every reachable state.
THEOREM Inductive == Spec => []IInv
<1>1. Init => IInv
  BY InitIInv
<1>2. IInv /\ [Next]_vars => IInv'
  BY NextType, NextPosition, NextExport, NextAdd, NextWelcome, NextQueued, NextEvidence DEF IInv
<1>3. QED
  BY <1>1, <1>2, PTL DEF Spec

\* Unless two add-members of a conversation overlap, a command sends the Welcome it has
\* made, and one Welcome is all that is sent of the conversation.
THEOREM WelcomeGoesToMember == Spec => []WelcomeIsForMember
<1>1. IInv => WelcomeIsForMember
  BY DEF IInv
<1>2. QED
  BY <1>1, Inductive, PTL

\* Unless two exports of a device overlap, a KeyPackage of it is posted at most once.
THEOREM KeyPackageQueuedOnce == Spec => []QueuedOnce
<1>1. IInv => QueuedOnce
  BY DEF IInv
<1>2. QED
  BY <1>1, Inductive, PTL

-----------------------------------------------------------------------------
(* Refinement of Admission *)

Offered == {Owner[k] : k \in {l \in KeyPackages : posted[l] > 0}}
Admitted == {<<i[1], Owner[i[2]]>> : i \in invited}

LEMMA InitAdmission == Init => Handshake!Init
BY DEF Init, Handshake!Init

\* Posting a KeyPackage offers its owner.
LEMMA Offers ==
  ASSUME IInv, [Next]_vars, NEW k \in KeyPackages, posted'[k] > 0,
         \A l \in KeyPackages : l # k => posted'[l] = posted[l],
         UNCHANGED <<invited, joined>>
  PROVE  Handshake!Next
<1>1. {l \in KeyPackages : posted'[l] > 0} = {l \in KeyPackages : posted[l] > 0} \cup {k}
  BY FactsStay
<1>2. Offered' = Offered \cup {Owner[k]}
  BY <1>1 DEF Offered
<1>3. Admitted' = Admitted
  BY DEF Admitted
<1>4. Handshake!Offer(Owner[k])
  BY <1>2, <1>3 DEF Handshake!Offer, Offered, Admitted
<1>5. QED
  BY <1>4, KeyPackageKinds DEF Handshake!Next

\* Writing a Welcome for a posted KeyPackage admits its owner.
LEMMA Admits ==
  ASSUME IInv, NEW p \in Procs, WriteWelcome(p)
  PROVE  Handshake!Next
<1>1. cmd[p].conversation \in Conversations /\ kp[p] \in KeyPackages /\ posted[kp[p]] > 0
  BY CommandArguments DEF IInv, Position, WriteWelcome
<1>2. posted' = posted /\ joined' = joined
  BY DEF WriteWelcome, relay
<1>3. Offered' = Offered /\ Owner[kp[p]] \in Offered
  BY <1>1, <1>2 DEF Offered
<1>4. Admitted' = Admitted \cup {<<cmd[p].conversation, Owner[kp[p]]>>}
  <2>1. PICK i : i = <<cmd[p].conversation, kp[p]>>
    OBVIOUS
  <2>2. i[1] = cmd[p].conversation /\ i[2] = kp[p] /\ invited' = invited \cup {i}
    BY <2>1 DEF WriteWelcome
  <2>3. Admitted' = Admitted \cup {<<i[1], Owner[i[2]]>>}
    BY <2>2 DEF Admitted
  <2>4. QED
    BY <2>2, <2>3
<1>5. PICK c \in Conversations, d \in Devices : c = cmd[p].conversation /\ d = Owner[kp[p]]
  BY <1>1, KeyPackageKinds
<1>6. Handshake!Admit(c, d)
  BY <1>2, <1>3, <1>4, <1>5 DEF Handshake!Admit, Offered, Admitted
<1>7. QED
  BY <1>6 DEF Handshake!Next

LEMMA Enters ==
  ASSUME IInv, NEW d \in Devices, NEW m \in mail, Join(d, m)
  PROVE  Handshake!Next
<1>1. /\ <<m.conversation, m.for>> \in invited /\ Owner[m.for] = d
      /\ m.conversation \in Conversations
  BY DEF IInv, TypeOK, Evidence, Join
<1>2. <<m.conversation, d>> \in Admitted
  BY <1>1 DEF Admitted
<1>3. UNCHANGED <<Offered, Admitted>>
  BY DEF Join, Offered, Admitted, relay, conversations
<1>4. Handshake!Enter(m.conversation, d)
  BY <1>2, <1>3 DEF Handshake!Enter, Offered, Admitted, Join
<1>5. QED
  BY <1>1, <1>4 DEF Handshake!Next

LEMMA NextAdmission ==
  IInv /\ [Next]_vars => [Handshake!Next]_<<Offered, Admitted, joined>>
<1> SUFFICES ASSUME IInv, [Next]_vars
             PROVE  [Handshake!Next]_<<Offered, Admitted, joined>>
  OBVIOUS
<1>0. TypeOK /\ \A p \in Procs : Position(p)
  BY DEF IInv
<1>1. ASSUME UNCHANGED <<posted, invited, joined>>
      PROVE  UNCHANGED <<Offered, Admitted, joined>>
  BY <1>1 DEF Offered, Admitted
<1>2. CASE UNCHANGED vars
  BY <1>1, <1>2 DEF vars, relay, conversations
<1>3. CASE CommandStep
  <2>1. ASSUME NEW d \in Devices, NEW m \in mail, Join(d, m) PROVE Handshake!Next
    BY <2>1, Enters
  <2>2. joined' = joined \/ \E d \in Devices, m \in mail : Join(d, m)
    BY <1>3 DEF CommandStep, Generate, Retire, Expire, WriteInbox, Consume,
       CreateConversation, SubmitWelcome
  <2>3. QED
    BY <1>1, <1>3, <2>1, <2>2, CommandsWrite
<1>4. ASSUME NEW p \in Procs, ProcessStep(p)
      PROVE  [Handshake!Next]_<<Offered, Admitted, joined>>
  <2>1. CASE WriteWelcome(p)
    BY <2>1, Admits
  <2>2. CASE Publish(p)
    <3>1. kp[p] \in KeyPackages
      BY <1>0, <2>2, KeyPackageKinds DEF Publish, Position
    <3>2. /\ posted'[kp[p]] > 0 /\ UNCHANGED <<invited, joined>>
          /\ \A l \in KeyPackages : l # kp[p] => posted'[l] = posted[l]
      BY <1>0, <2>2, <3>1 DEF TypeOK, Publish, conversations
    <3>3. QED
      BY <3>1, <3>2, Offers
  <2>3. CASE SubmitKeyPackage(p)
    <3>1. PICK k \in KeyPackages : posted' = [posted EXCEPT ![k] = @ + 1]
      BY <1>0, <2>3, KeyPackageKinds DEF SubmitKeyPackage, Position
    <3>2. posted[k] \in Nat /\ posted'[k] = posted[k] + 1
      BY <1>0, <3>1 DEF TypeOK
    <3>3. \A l \in KeyPackages : l # k => posted'[l] = posted[l]
      BY <1>0, <3>1 DEF TypeOK
    <3>4. UNCHANGED <<invited, joined>>
      BY <2>3 DEF SubmitKeyPackage, conversations
    <3>5. posted'[k] > 0
      BY <3>2
    <3>6. QED
      BY <3>3, <3>4, <3>5, Offers
  <2>4. CASE UNCHANGED <<posted, invited>>
    BY <1>1, <1>4, <2>4, WhoWrites
  <2>5. QED
    BY <1>4, <2>1, <2>2, <2>3, <2>4, WhoWrites
<1>5. QED
  BY <1>2, <1>3, <1>4, NextParts

\* Whatever overlaps, a device is in a conversation only after a Welcome has been made for
\* it, and that only with a KeyPackage it has posted.
THEOREM AdmissionRefinement == Spec => ImplementsAdmission
<1>1. Init => Handshake!Init
  BY InitAdmission
<1>2. IInv /\ [Next]_vars => [Handshake!Next]_<<Offered, Admitted, joined>>
  BY NextAdmission
<1>3. QED
  BY <1>1, <1>2, Inductive, PTL
  DEF Spec, ImplementsAdmission, Handshake!Spec, Offered, Admitted
=============================================================================
