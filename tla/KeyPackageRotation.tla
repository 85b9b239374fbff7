------------------------ MODULE KeyPackageRotation ------------------------
(***************************************************************************)
(* KeyPackage generations of one sidecar device: keypackage-generate and   *)
(* keypackage-retire of keypackage_rotation.rs.  Every command is an       *)
(* operating system process of its own; the only shared state is the file  *)
(* system below the device directory.  An action is one file-system effect *)
(* of a command together with the reads that lead to it, so that another   *)
(* command, an I/O error or a crash can come between any two effects.      *)
(*                                                                         *)
(*   lock          the directory .lifecycle-lock exists                    *)
(*   providerFile  provider storage: absent, stored, or torn (a write that *)
(*                 was not atomic stopped half way)                        *)
(*   providerKeys  the private KeyPackage keys the provider storage holds  *)
(*   legacy        the three fixed files of public-bundle-export           *)
(*   generations   the published directories generations/kp-N-ref, each    *)
(*                 with its artifact and manifest (immutable)              *)
(*   inventory     inventory.json                                          *)
(*   minted        every key ever built (a fresh key is a new key)         *)
(*   replies       the generations a successful generate has returned      *)
(*   pc, cmd       position and arguments of each process                  *)
(*   view, draft,  its memory: the inventory, the generation it is about   *)
(*   keyring       to publish, and the provider storage                    *)
(***************************************************************************)
EXTENDS Integers, FiniteSets

CONSTANTS
  Procs,          \* the processes that run sidecar commands
  Requests,       \* the --request-id values callers use
  LegacyRequest,  \* the request id of the legacy import
  Keys,           \* the KeyPackage keys the builder can draw (bounds the model)
  MaxSequence,    \* the last sequence number (bounds the model)
  Absent, Torn,   \* a legacy file that does not exist, or is half written
  NoGeneration    \* no generation in a process's memory

ASSUME RequestAssumption == LegacyRequest \notin Requests
ASSUME SequenceAssumption == MaxSequence \in Nat \ {0}
ASSUME NullAssumption ==
  /\ Absent \notin Keys
  /\ Torn \notin Keys

VARIABLES lock, providerFile, providerKeys, legacy, generations, inventory,
          minted, replies, pc, cmd, view, draft, keyring

memory == <<view, draft, keyring>>
device == <<providerFile, providerKeys, legacy, generations, inventory>>
vars == <<lock, providerFile, providerKeys, legacy, generations, inventory,
          minted, replies, pc, cmd, memory>>

LegacyFiles == {"artifact", "manifest", "summary"}

\* A generation manifest; its generation id kp-N is its sequence number.
Generation == [seq : 1..MaxSequence, req : Requests \cup {LegacyRequest},
               key : Keys, origin : {"generated", "legacy_import"}]

\* inventory.json; current is the sequence of the current generation, 0 for
\* none.  A record is active unless it is in retired.  The file is never
\* written empty, so the empty inventory stands for a missing file.
Inventory == [next : 1..(MaxSequence + 1), current : 0..MaxSequence,
              indexed : SUBSET Generation, retired : SUBSET Generation]

EmptyInventory == [next |-> 1, current |-> 0, indexed |-> {}, retired |-> {}]

Command == [kind : {"none"}]
           \cup [kind : {"generate"}, req : Requests]
           \cup [kind : {"retire"}, seq : 1..MaxSequence]

NoCommand == [kind |-> "none"]

\* The positions at which a process holds the lifecycle lock.
Locked == {"load", "adopt", "initialize", "lookup", "save", "publish",
           "index", "retire", "release"}

-----------------------------------------------------------------------------
(* Helpers *)

\* validate_inventory: records are unique, their directories are there, and
\* a non-empty inventory has a current generation that is active.
ValidInventory(inv, dirs) ==
  /\ \A g, h \in inv.indexed : g.seq = h.seq \/ g.req = h.req => g = h
  /\ inv.indexed \subseteq dirs
  /\ inv.indexed # {} =>
       \E g \in inv.indexed \ inv.retired : g.seq = inv.current

\* scan_generation_records refuses directories that share an identity.
ScanSucceeds(dirs) ==
  \A g, h \in dirs : g.seq = h.seq \/ g.req = h.req => g = h

\* next_available_sequence: max(next_sequence, 1 + the largest sequence of
\* the inventory and of the manifests on disk).
IsNextAvailable(n, inv, dirs) ==
  LET used == {g.seq : g \in inv.indexed \cup dirs}
  IN  /\ n >= inv.next
      /\ \A s \in used : s < n
      /\ n = inv.next \/ n - 1 \in used

\* Mutant: the new record replaces the earlier ones.
IndexOnly(inv, g) ==
  [next |-> g.seq + 1, current |-> g.seq, indexed |-> {g}, retired |-> {}]

\* Push a record and make it current.
Index(inv, g) ==
  [next |-> g.seq + 1, current |-> g.seq,
   indexed |-> inv.indexed \cup {g}, retired |-> inv.retired]

\* Mark a record retired.
MarkRetired(inv, g) ==
  [next |-> inv.next, current |-> inv.current,
   indexed |-> inv.indexed, retired |-> inv.retired \cup {g}]

Requested(p) == cmd[p].req

Present(f) == legacy[f] # Absent

LegacyCount == Cardinality({f \in LegacyFiles : Present(f)})

Missing(inv) == inv = EmptyInventory

\* A process replaces the inventory in its memory.
Views(p, inv) ==
  /\ view' = [view EXCEPT ![p] = inv]
  /\ UNCHANGED <<draft, keyring>>

Goto(p, label) == pc' = [pc EXCEPT ![p] = label]

\* The memory of a process is gone when it ends.
Forget(p) ==
  /\ view' = [view EXCEPT ![p] = EmptyInventory]
  /\ draft' = [draft EXCEPT ![p] = NoGeneration]
  /\ keyring' = [keyring EXCEPT ![p] = {}]

\* A return with an error: Drop of the lifecycle lock runs next.
Refuse(p) == Goto(p, "release") /\ UNCHANGED memory

-----------------------------------------------------------------------------
(* The device a command can find: no export yet, or one public-bundle-export *)
(* that finished, stopped after any of its writes, or wrote no artifact.     *)

\* The files an export has created, and the one it was writing when it stopped.
ExportProgress == {<<{}, "none">>, <<{"artifact"}, "artifact">>,
                   <<{"artifact", "manifest"}, "manifest">>,
                   <<LegacyFiles, "summary">>, <<{"summary"}, "summary">>}

LegacyState(files, k, torn) ==
  [f \in LegacyFiles |->
     IF f \notin files THEN Absent ELSE IF f = torn THEN Torn ELSE k]

FreshDevice ==
  /\ providerFile = "absent"
  /\ providerKeys = {}
  /\ legacy = [f \in LegacyFiles |-> Absent]
  /\ minted = {}

ExportedDevice ==
  \E k \in Keys :
    /\ minted = {k}
    /\ \/ /\ providerFile = "torn"
          /\ providerKeys = {}
          /\ legacy = [f \in LegacyFiles |-> Absent]
       \/ /\ providerFile = "stored"
          /\ providerKeys = {k}
          /\ \E e \in ExportProgress : \E torn \in {"none", e[2]} :
               legacy = LegacyState(e[1], k, torn)

CommandsIdle ==
  /\ lock = FALSE
  /\ generations = {}
  /\ inventory = EmptyInventory
  /\ replies = {}
  /\ pc = [p \in Procs |-> "idle"]
  /\ cmd = [p \in Procs |-> NoCommand]
  /\ view = [p \in Procs |-> EmptyInventory]
  /\ draft = [p \in Procs |-> NoGeneration]
  /\ keyring = [p \in Procs |-> {}]

Init == (FreshDevice \/ ExportedDevice) /\ CommandsIdle

-----------------------------------------------------------------------------
(* A command starts, takes the lock or gives up, and returns. *)

StartGenerate(p, r) ==
  /\ pc[p] = "idle"
  /\ cmd' = [cmd EXCEPT ![p] = [kind |-> "generate", req |-> r]]
  /\ Goto(p, "acquire")
  /\ UNCHANGED <<lock, device, minted, replies, memory>>

StartRetire(p, n) ==
  /\ pc[p] = "idle"
  /\ cmd' = [cmd EXCEPT ![p] = [kind |-> "retire", seq |-> n]]
  /\ Goto(p, "acquire")
  /\ UNCHANGED <<lock, device, minted, replies, memory>>

\* create_dir succeeds for one process only.
AcquireLock(p) ==
  /\ pc[p] = "acquire"
  /\ ~lock
  /\ lock' = TRUE
  /\ Goto(p, IF cmd[p].kind = "generate" THEN "load" ELSE "retire")
  /\ UNCHANGED <<device, minted, replies, cmd, memory>>

\* Mutant: create_dir is tried again without a limit.
LockSpins(p) == pc[p] = "acquire" /\ lock /\ UNCHANGED vars

\* keypackage_lifecycle_busy after LOCK_RETRIES attempts.
LockBusy(p) ==
  /\ pc[p] = "acquire"
  /\ lock
  /\ Goto(p, "idle")
  /\ cmd' = [cmd EXCEPT ![p] = NoCommand]
  /\ UNCHANGED <<lock, device, minted, replies, memory>>

\* Drop of LifecycleLock: every return path removes the directory.
Release(p) ==
  /\ pc[p] = "release"
  /\ lock' = FALSE
  /\ Goto(p, "idle")
  /\ cmd' = [cmd EXCEPT ![p] = NoCommand]
  /\ Forget(p)
  /\ UNCHANGED <<device, minted, replies>>

-----------------------------------------------------------------------------
(* load_or_initialize_inventory *)

LoadInventory(p) ==
  /\ pc[p] = "load"
  /\ ~Missing(inventory)
  /\ ValidInventory(inventory, generations)
  /\ Views(p, inventory)
  /\ Goto(p, "lookup")
  /\ UNCHANGED <<lock, device, minted, replies, cmd>>

\* A single first generation is indexed without its inventory.
RecoverFirst(p) ==
  /\ pc[p] = "load"
  /\ Missing(inventory)
  /\ ScanSucceeds(generations)
  /\ providerFile # "absent"
  /\ LegacyCount = 0
  /\ \E g \in generations :
       /\ generations = {g}
       /\ g.seq = 1
       /\ g.origin = "generated"
       /\ Views(p, Index(EmptyInventory, g))
  /\ Goto(p, "initialize")
  /\ UNCHANGED <<lock, device, minted, replies, cmd>>

LegacyGeneration(k) == [seq |-> 1, req |-> LegacyRequest, key |-> k,
                        origin |-> "legacy_import"]

\* The three legacy files exist and describe one KeyPackage, next to provider
\* storage.
LegacyComplete(k) ==
  /\ Missing(inventory)
  /\ ScanSucceeds(generations)
  /\ providerFile # "absent"
  /\ \A f \in LegacyFiles : legacy[f] = k

\* adopt_legacy with its directory published by an earlier attempt.
AdoptPublished(p) ==
  /\ pc[p] = "load"
  /\ \E k \in Keys :
       /\ LegacyComplete(k)
       /\ LegacyGeneration(k) \in generations
       /\ Views(p, Index(EmptyInventory, LegacyGeneration(k)))
  /\ Goto(p, "initialize")
  /\ UNCHANGED <<lock, device, minted, replies, cmd>>

\* adopt_legacy up to the rename of its staging directory.  A directory
\* kp-000001-ref of the same key with another origin is legacy_import_conflict.
AdoptStage(p) ==
  /\ pc[p] = "load"
  /\ \E k \in Keys :
       /\ LegacyComplete(k)
       /\ \A g \in generations : g.seq = 1 => g.key # k
       /\ draft' = [draft EXCEPT ![p] = LegacyGeneration(k)]
  /\ Goto(p, "adopt")
  /\ UNCHANGED <<lock, device, minted, replies, cmd, view, keyring>>

AdoptPublish(p) ==
  /\ pc[p] = "adopt"
  /\ generations' = generations \cup {draft[p]}
  /\ view' = [view EXCEPT ![p] = Index(EmptyInventory, draft[p])]
  /\ draft' = [draft EXCEPT ![p] = NoGeneration]
  /\ Goto(p, "initialize")
  /\ UNCHANGED <<lock, providerFile, providerKeys, legacy, inventory, minted,
                 replies, cmd, keyring>>

\* The recovered or adopted inventory is written before the request is looked
\* up.
WriteInitialInventory(p) ==
  /\ pc[p] = "initialize"
  /\ ValidInventory(view[p], generations)
  /\ inventory' = view[p]
  /\ Goto(p, "lookup")
  /\ UNCHANGED <<lock, providerFile, providerKeys, legacy, generations,
                 minted, replies, cmd, memory>>

\* Nothing on disk: an empty inventory, in memory only.
StartEmpty(p) ==
  /\ pc[p] = "load"
  /\ Missing(inventory)
  /\ providerFile = "absent"
  /\ LegacyCount = 0
  /\ generations = {}
  /\ Views(p, EmptyInventory)
  /\ Goto(p, "lookup")
  /\ UNCHANGED <<lock, device, minted, replies, cmd>>

\* incomplete_keypackage_state, incomplete_legacy_keypackage_state,
\* keypackage_inventory_recovery_ambiguous, generation_state_invalid,
\* legacy_import_conflict and the legacy consistency checks: whatever no other
\* action of this section accepts.
LoadRefused(p) ==
  /\ pc[p] = "load"
  /\ IF Missing(inventory)
       THEN \/ ~ScanSucceeds(generations)
            \/ /\ providerFile = "absent"
               /\ generations # {} \/ LegacyCount # 0
            \/ /\ providerFile # "absent"
               /\ LegacyCount = 0
               /\ ~\E g \in generations : generations = {g} /\ g.seq = 1
                                          /\ g.origin = "generated"
            \/ providerFile # "absent" /\ LegacyCount \in {1, 2}
            \/ /\ providerFile # "absent"
               /\ LegacyCount = 3
               /\ ~\E k \in Keys :
                     /\ \A f \in LegacyFiles : legacy[f] = k
                     /\ \A g \in generations :
                          g.seq = 1 /\ g.key = k => g = LegacyGeneration(k)
       ELSE ~ValidInventory(inventory, generations)
  /\ Refuse(p)
  /\ UNCHANGED <<lock, device, minted, replies, cmd>>

-----------------------------------------------------------------------------
(* generate_keypackage, with the inventory in memory *)

Replay(p) ==
  /\ pc[p] = "lookup"
  /\ \E g \in view[p].indexed :
       /\ g.req = Requested(p)
       /\ g \in generations
       /\ replies' = replies \cup {g}
  /\ Goto(p, "release")
  /\ UNCHANGED <<lock, device, minted, cmd, memory>>

Unindexed(p) == \A g \in view[p].indexed : g.req # Requested(p)

\* Mutant: the directory is indexed although a later one has been.
RecoverAnyRequest(p) ==
  /\ pc[p] = "lookup"
  /\ Unindexed(p)
  /\ ScanSucceeds(generations)
  /\ \E g \in generations : g.req = Requested(p) /\ Views(p, Index(view[p], g))
  /\ Goto(p, "index")
  /\ UNCHANGED <<lock, device, minted, replies, cmd>>

\* recover_request_from_generation_dirs: the directory of this request was
\* published, its inventory entry was not written.
RecoverRequest(p) ==
  /\ pc[p] = "lookup"
  /\ Unindexed(p)
  /\ ScanSucceeds(generations)
  /\ \E g \in generations :
       /\ g.req = Requested(p)
       /\ g.seq >= view[p].next
       /\ Views(p, Index(view[p], g))
  /\ Goto(p, "index")
  /\ UNCHANGED <<lock, device, minted, replies, cmd>>

\* generation_recovery_conflict: a later generation has been indexed since.
RecoveryConflict(p) ==
  /\ pc[p] = "lookup"
  /\ Unindexed(p)
  /\ \/ ~ScanSucceeds(generations)
     \/ \E g \in generations :
          g.req = Requested(p) /\ g.seq < view[p].next
  /\ Refuse(p)
  /\ UNCHANGED <<lock, device, minted, replies, cmd>>

\* Mutant: the KeyPackage is built in an empty provider storage.
BuildInNewProvider(p) ==
  /\ pc[p] = "lookup"
  /\ Unindexed(p)
  /\ ScanSucceeds(generations)
  /\ \A g \in generations : g.req # Requested(p)
  /\ \E n \in 1..MaxSequence, k \in Keys \ minted :
       /\ IsNextAvailable(n, view[p], generations)
       /\ minted' = minted \cup {k}
       /\ draft' = [draft EXCEPT ![p] =
                      [seq |-> n, req |-> Requested(p), key |-> k,
                       origin |-> "generated"]]
       /\ keyring' = [keyring EXCEPT ![p] = {k}]
  /\ Goto(p, "save")
  /\ UNCHANGED <<lock, device, replies, cmd, view>>

\* Read the provider storage again, build a KeyPackage in memory, and stage
\* its artifact and manifest.
Build(p) ==
  /\ pc[p] = "lookup"
  /\ Unindexed(p)
  /\ ScanSucceeds(generations)
  /\ \A g \in generations : g.req # Requested(p)
  /\ providerFile # "torn"
  /\ \E n \in 1..MaxSequence, k \in Keys \ minted :
       /\ IsNextAvailable(n, view[p], generations)
       /\ minted' = minted \cup {k}
       /\ draft' = [draft EXCEPT ![p] =
                      [seq |-> n, req |-> Requested(p), key |-> k,
                       origin |-> "generated"]]
       /\ keyring' = [keyring EXCEPT ![p] = providerKeys \cup {k}]
  /\ Goto(p, "save")
  /\ UNCHANGED <<lock, device, replies, cmd, view>>

\* save_provider_atomic: a temporary sibling, then rename.
SaveProvider(p) ==
  /\ pc[p] = "save"
  /\ providerFile' = "stored"
  /\ providerKeys' = keyring[p]
  /\ Goto(p, "publish")
  /\ UNCHANGED <<lock, legacy, generations, inventory, minted, replies, cmd,
                 memory>>

\* Mutant: the reply is sent before the inventory is written.
PublishAndReply(p) ==
  /\ pc[p] = "publish"
  /\ generations' = generations \cup {draft[p]}
  /\ replies' = replies \cup {draft[p]}
  /\ view' = [view EXCEPT ![p] = Index(view[p], draft[p])]
  /\ draft' = [draft EXCEPT ![p] = NoGeneration]
  /\ Goto(p, "index")
  /\ UNCHANGED <<lock, providerFile, providerKeys, legacy, inventory, minted,
                 cmd, keyring>>

\* Rename of the staging directory.
Publish(p) ==
  /\ pc[p] = "publish"
  /\ generations' = generations \cup {draft[p]}
  /\ view' = [view EXCEPT ![p] = Index(view[p], draft[p])]
  /\ draft' = [draft EXCEPT ![p] = NoGeneration]
  /\ Goto(p, "index")
  /\ UNCHANGED <<lock, providerFile, providerKeys, legacy, inventory, minted,
                 replies, cmd, keyring>>

\* write_inventory_atomic, then the reply of a generate.
WriteInventory(p) ==
  /\ pc[p] = "index"
  /\ ValidInventory(view[p], generations)
  /\ inventory' = view[p]
  /\ replies' = IF cmd[p].kind = "generate"
                  THEN replies \cup {g \in view[p].indexed :
                                       g.req = Requested(p)}
                  ELSE replies
  /\ Goto(p, "release")
  /\ UNCHANGED <<lock, providerFile, providerKeys, legacy, generations,
                 minted, cmd, memory>>

-----------------------------------------------------------------------------
(* retire_keypackage: metadata only, artifact and key are kept. *)

Retire(p) ==
  /\ pc[p] = "retire"
  /\ ~Missing(inventory)
  /\ ValidInventory(inventory, generations)
  /\ cmd[p].seq # inventory.current
  /\ \E g \in inventory.indexed \ inventory.retired :
       /\ g.seq = cmd[p].seq
       /\ Views(p, MarkRetired(inventory, g))
  /\ Goto(p, "index")
  /\ UNCHANGED <<lock, device, minted, replies, cmd>>

\* No inventory, an invalid one, the current generation, an unknown one, or
\* one that is retired already (an idempotent replay).
RetireNothing(p) ==
  /\ pc[p] = "retire"
  /\ \/ Missing(inventory)
     \/ ~ValidInventory(inventory, generations)
     \/ cmd[p].seq = inventory.current
     \/ \A g \in inventory.indexed : g.seq # cmd[p].seq
     \/ \E g \in inventory.retired : g.seq = cmd[p].seq
  /\ Refuse(p)
  /\ UNCHANGED <<lock, device, minted, replies, cmd>>

-----------------------------------------------------------------------------
(* Failures *)

\* An error at any step (a failed write, provider storage that does not parse,
\* a validation that refuses): the ? operator returns, staging is removed,
\* nothing else is undone.
IOFailure(p) ==
  /\ pc[p] \in Locked \ {"release"}
  /\ Refuse(p)
  /\ UNCHANGED <<lock, device, minted, replies, cmd>>

\* The process dies: Drop does not run and the lock directory stays.
Crash(p) ==
  /\ pc[p] # "idle"
  /\ Goto(p, "idle")
  /\ cmd' = [cmd EXCEPT ![p] = NoCommand]
  /\ Forget(p)
  /\ UNCHANGED <<lock, device, minted, replies>>

\* No code removes a stale lock; an operator does, with no command running.
RemoveStaleLock ==
  /\ lock
  /\ \A p \in Procs : pc[p] \notin Locked
  /\ lock' = FALSE
  /\ UNCHANGED <<device, minted, replies, pc, cmd, memory>>

-----------------------------------------------------------------------------
Step(p) ==
  \/ AcquireLock(p) \/ LockBusy(p) \/ Release(p)
  \/ LoadInventory(p) \/ RecoverFirst(p) \/ AdoptPublished(p)
  \/ AdoptStage(p) \/ AdoptPublish(p) \/ WriteInitialInventory(p)
  \/ StartEmpty(p) \/ LoadRefused(p)
  \/ Replay(p) \/ RecoverRequest(p) \/ RecoveryConflict(p)
  \/ Build(p) \/ SaveProvider(p) \/ Publish(p)
  \/ WriteInventory(p)
  \/ Retire(p) \/ RetireNothing(p)
  \/ IOFailure(p)

Next ==
  \/ \E p \in Procs :
       \/ \E r \in Requests : StartGenerate(p, r)
       \/ \E n \in 1..MaxSequence : StartRetire(p, n)
       \/ Step(p)
       \/ Crash(p)
  \/ RemoveStaleLock

Spec == Init /\ [][Next]_vars

\* The operating system keeps running every process that has not died.
FairSpec == Spec /\ \A p \in Procs : WF_vars(Step(p))
-----------------------------------------------------------------------------
(* Properties *)

\* Each position of a command has the arguments and the memory it needs.
PositionOK(p) ==
  /\ pc[p] \in {"load", "adopt", "initialize", "lookup", "save", "publish"}
       => cmd[p].kind = "generate"
  /\ pc[p] = "retire" => cmd[p].kind = "retire"
  /\ pc[p] \in {"acquire", "index"} => cmd[p].kind \in {"generate", "retire"}
  /\ pc[p] \in {"adopt", "save", "publish"} => draft[p] \in Generation

\* The variables range over what the files and the process memory can hold.
TypeOK ==
  /\ lock \in BOOLEAN
  /\ providerFile \in {"absent", "stored", "torn"}
  /\ providerKeys \in SUBSET Keys
  /\ legacy \in [LegacyFiles -> Keys \cup {Absent, Torn}]
  /\ generations \in SUBSET Generation
  /\ inventory \in Inventory
  /\ minted \in SUBSET Keys
  /\ replies \in SUBSET Generation
  /\ pc \in [Procs -> {"idle", "acquire"} \cup Locked]
  /\ cmd \in [Procs -> Command]
  /\ view \in [Procs -> Inventory]
  /\ draft \in [Procs -> Generation \cup {NoGeneration}]
  /\ keyring \in [Procs -> SUBSET Keys]
  /\ \A p \in Procs : PositionOK(p)

\* acquire_lock and Drop: at most one command is inside the lifecycle, and the
\* lock directory exists as long as one is.
LockExclusive ==
  /\ \A p \in Procs : pc[p] \in Locked => lock
  /\ \A p, q \in Procs : pc[p] \in Locked /\ pc[q] \in Locked => p = q

\* Across crashes, failed writes, retries and recoveries a request id and a
\* sequence number name at most one published directory: a retry never builds
\* a second KeyPackage for its request, an unindexed one is never overlooked.
OneGenerationPerRequest ==
  \A g, h \in generations : g.seq = h.seq \/ g.req = h.req => g = h

\* Nobody can be handed a KeyPackage whose private key is gone: the provider
\* storage on disk holds the key of every published generation, whatever a
\* crash or a failure interrupted.
PublishedKeysStored == \A g \in generations : g.key \in providerKeys

\* inventory.json never refers to a directory that is not published, and its
\* current generation is the newest indexed one and is not retired.
CurrentIsNewest ==
  /\ inventory.indexed \subseteq generations
  /\ \A g \in inventory.indexed :
       g.seq <= inventory.current /\ g.seq < inventory.next
  /\ inventory.indexed # {} =>
       \E g \in inventory.indexed \ inventory.retired : g.seq = inventory.current

\* The idempotency key: two successful replies to one request name the same
\* generation, and what was replied is durably indexed.
RepliesAgree ==
  /\ \A g, h \in replies : g.req = h.req => g = h
  /\ replies \subseteq inventory.indexed

\* Every command returns, also behind a lock that a crash left behind: the
\* retry loop of acquire_lock is bounded.
CommandsReturn == \A p \in Procs : pc[p] # "idle" ~> pc[p] = "idle"

\* The lifecycle is the ledger of KeyPackageLedger: every write of
\* inventory.json appends one generation or retires one, no other step shows.
Ledger == INSTANCE KeyPackageLedger WITH
  Entry <- Generation,
  ledger <- inventory.indexed,
  current <- inventory.current,
  retired <- inventory.retired

ImplementsLedger == Ledger!Spec

-----------------------------------------------------------------------------
(* The inductive invariant behind the safety properties *)

\* Keys on disk were minted, belong to one generation, and the legacy key is in
\* provider storage, which exists if any legacy file does.
KeysAccounted ==
  /\ providerKeys \subseteq minted
  /\ \A g \in generations : g.key \in minted
  /\ \A g, h \in generations : g.key = h.key => g = h
  /\ \A f \in LegacyFiles : legacy[f] \in Keys => legacy[f] \in providerKeys
  /\ providerFile = "absent" => \A f \in LegacyFiles : legacy[f] = Absent

\* Until the legacy KeyPackage is indexed it is the only one published, and no
\* command gets past the import.
LegacyFirst ==
  \A k \in Keys :
    (Missing(inventory) /\ \A f \in LegacyFiles : legacy[f] = k)
      => /\ generations \subseteq {LegacyGeneration(k)}
         /\ \A p \in Procs : pc[p] \notin {"lookup", "save", "publish", "index"}

\* A generation in memory that is about to be published is new on disk.
NewGeneration(g) ==
  /\ \A h \in generations : h.seq # g.seq /\ h.req # g.req /\ h.key # g.key
  /\ g.seq >= inventory.next
  /\ g.key \in minted

\* What the memory of the lock holder says about the disk, position by position.
MemoryMatchesDisk(p) ==
  /\ pc[p] \in {"lookup", "save", "publish"} => view[p] = inventory
  /\ pc[p] = "adopt" =>
       /\ Missing(inventory)
       /\ generations = {}
       /\ \E k \in Keys : /\ draft[p] = LegacyGeneration(k)
                          /\ \A f \in LegacyFiles : legacy[f] = k
  /\ pc[p] = "initialize" =>
       /\ Missing(inventory)
       /\ \E g \in generations : view[p] = Index(EmptyInventory, g)
  /\ pc[p] \in {"save", "publish"} =>
       /\ NewGeneration(draft[p])
       /\ draft[p].req = Requested(p)
       /\ keyring[p] \subseteq minted
  /\ pc[p] = "save" => providerKeys \cup {draft[p].key} \subseteq keyring[p]
  /\ pc[p] = "publish" => draft[p].key \in providerKeys
  /\ pc[p] = "index" /\ cmd[p].kind = "generate" =>
       \E g \in generations :
         /\ view[p] = Index(inventory, g)
         /\ g.seq >= inventory.next
         /\ g.req = Requested(p)
         /\ \A h \in inventory.indexed : h.req # g.req
  /\ pc[p] = "index" /\ cmd[p].kind # "generate" =>
       \E g \in inventory.indexed \ inventory.retired :
         /\ g.seq # inventory.current
         /\ view[p] = MarkRetired(inventory, g)

\* Everything a step needs to preserve the safety properties.
IInv ==
  /\ TypeOK
  /\ LockExclusive
  /\ OneGenerationPerRequest
  /\ PublishedKeysStored
  /\ CurrentIsNewest
  /\ RepliesAgree
  /\ inventory.retired \subseteq inventory.indexed
  /\ KeysAccounted
  /\ LegacyFirst
  /\ \A p \in Procs : MemoryMatchesDisk(p)
===========================================================================
