--------------------- MODULE KeyPackageRotationProofs ---------------------
(***************************************************************************)
(* Machine-checked safety of the KeyPackage lifecycle, for any number of   *)
(* processes, requests, keys and sequence numbers: type correctness, the   *)
(* inductive invariant IInv with the safety properties it contains, and    *)
(* the refinement of KeyPackageLedger; then what is left of them beside    *)
(* public-bundle-export, which takes no lock.                              *)
(***************************************************************************)
EXTENDS KeyPackageExport, TLAPS

-----------------------------------------------------------------------------
(* Type correctness *)

LEMMA IndexType ==
  ASSUME NEW inv \in Inventory, NEW g \in Generation
  PROVE  Index(inv, g) \in Inventory
<1>1. g.seq \in 1..MaxSequence
  BY DEF Generation
<1>2. g.seq + 1 \in 1..(MaxSequence + 1) /\ g.seq \in 0..MaxSequence
  BY <1>1, SequenceAssumption
<1>3. QED
  BY <1>2 DEF Index, Inventory

LEMMA RetiredType ==
  ASSUME NEW inv \in Inventory, NEW g \in Generation
  PROVE  MarkRetired(inv, g) \in Inventory
BY DEF MarkRetired, Inventory

LEMMA EmptyType == EmptyInventory \in Inventory
<1>1. 1 \in 1..(MaxSequence + 1) /\ 0 \in 0..MaxSequence
  BY SequenceAssumption
<1>2. QED
  BY <1>1 DEF EmptyInventory, Inventory

LEMMA LegacyType ==
  ASSUME NEW k \in Keys
  PROVE  LegacyGeneration(k) \in Generation
<1>1. 1 \in 1..MaxSequence
  BY SequenceAssumption
<1>2. QED
  BY <1>1 DEF LegacyGeneration, Generation

LEMMA GenerateCommand ==
  ASSUME NEW c \in Command, c.kind = "generate"
  PROVE  c.req \in Requests
BY DEF Command

LEMMA NoCommandType == NoCommand \in Command
BY DEF NoCommand, Command

LEMMA InitType == Init => TypeOK
<1> SUFFICES ASSUME Init PROVE TypeOK
  OBVIOUS
<1> USE DEF TypeOK
<1>1. CommandsIdle
  BY DEF Init
<1>2. /\ lock \in BOOLEAN /\ generations \in SUBSET Generation
      /\ inventory \in Inventory /\ replies \in SUBSET Generation
  BY <1>1, EmptyType DEF CommandsIdle
<1>3. /\ pc \in [Procs -> {"idle", "acquire"} \cup Locked]
      /\ cmd \in [Procs -> Command]
      /\ view \in [Procs -> Inventory]
      /\ draft \in [Procs -> Generation \cup {NoGeneration}]
      /\ keyring \in [Procs -> SUBSET Keys]
      /\ \A p \in Procs : PositionOK(p)
  BY <1>1, EmptyType DEF CommandsIdle, Command, NoCommand, PositionOK
<1>4. CASE FreshDevice
  BY <1>2, <1>3, <1>4 DEF FreshDevice
<1>5. CASE ExportedDevice
  BY <1>2, <1>3, <1>5 DEF ExportedDevice, LegacyState
<1>6. QED
  BY <1>4, <1>5 DEF Init

\* TypeOK is split: the range of every variable, then the positions.
DataTypes ==
  /\ lock \in BOOLEAN
  /\ providerFile \in {"absent", "stored", "torn"}
  /\ providerKeys \in SUBSET Keys
  /\ legacy \in [LegacyFiles -> Keys \cup {Absent, Torn}]
  /\ generations \in SUBSET Generation
  /\ inventory \in Inventory
  /\ minted \in SUBSET Keys
  /\ replies \in SUBSET Generation
  /\ pc \in [Procs -> {"idle", "acquire"} \cup Locked]
  /\ cmd \in [Procs -> Command]
  /\ view \in [Procs -> Inventory]
  /\ draft \in [Procs -> Generation \cup {NoGeneration}]
  /\ keyring \in [Procs -> SUBSET Keys]

LEMMA NextDataTypes == TypeOK /\ [Next]_vars => DataTypes'
<1> SUFFICES ASSUME TypeOK, [Next]_vars PROVE DataTypes'
  OBVIOUS
<1>0. DataTypes /\ \A p \in Procs : PositionOK(p)
  BY DEF TypeOK, DataTypes
<1> USE DEF DataTypes, device, memory
<1>1. CASE UNCHANGED vars
  BY <1>0, <1>1 DEF vars
<1>2. ASSUME NEW p \in Procs, NEW r \in Requests, StartGenerate(p, r)
      PROVE  DataTypes'
  BY <1>0, <1>2 DEF StartGenerate, Goto, Command
<1>3. ASSUME NEW p \in Procs, NEW n \in 1..MaxSequence, StartRetire(p, n)
      PROVE  DataTypes'
  BY <1>0, <1>3 DEF StartRetire, Goto, Command
<1>4. ASSUME NEW p \in Procs, AcquireLock(p) \/ LockBusy(p)
      PROVE  DataTypes'
  BY <1>0, <1>4, NoCommandType DEF AcquireLock, LockBusy, Goto, Locked
<1>5. ASSUME NEW p \in Procs, Release(p) \/ Crash(p)
      PROVE  DataTypes'
  <2>1. /\ view' \in [Procs -> Inventory]
        /\ draft' \in [Procs -> Generation \cup {NoGeneration}]
        /\ keyring' \in [Procs -> SUBSET Keys]
    BY <1>0, <1>5, EmptyType DEF Release, Crash, Forget
  <2>2. QED
    BY <1>0, <1>5, <2>1, NoCommandType DEF Release, Crash, Goto
<1>6. ASSUME NEW p \in Procs, LoadInventory(p) \/ StartEmpty(p)
      PROVE  DataTypes'
  BY <1>0, <1>6, EmptyType DEF LoadInventory, StartEmpty, Views, Goto, Locked
<1>7. ASSUME NEW p \in Procs, RecoverFirst(p)
      PROVE  DataTypes'
  BY <1>0, <1>7, IndexType, EmptyType DEF RecoverFirst, Views, Goto, Locked
<1>8. ASSUME NEW p \in Procs, AdoptPublished(p) \/ AdoptStage(p)
      PROVE  DataTypes'
  BY <1>0, <1>8, IndexType, EmptyType, LegacyType
  DEF AdoptPublished, AdoptStage, Views, Goto, Locked
<1>9. ASSUME NEW p \in Procs, WriteInitialInventory(p)
      PROVE  DataTypes'
  BY <1>0, <1>9 DEF WriteInitialInventory, Goto, Locked
<1>10. ASSUME NEW p \in Procs, WriteInventory(p)
      PROVE  DataTypes'
  <2>1. view[p].indexed \in SUBSET Generation
    BY <1>0 DEF Inventory
  <2>2. QED
    BY <1>0, <1>10, <2>1 DEF WriteInventory, Goto, Locked
<1>11. ASSUME NEW p \in Procs,
              LoadRefused(p) \/ RecoveryConflict(p) \/ RetireNothing(p) \/ IOFailure(p)
      PROVE  DataTypes'
  BY <1>0, <1>11
  DEF LoadRefused, RecoveryConflict, RetireNothing, IOFailure, Refuse, Goto, Locked
<1>12. ASSUME NEW p \in Procs, Replay(p)
      PROVE  DataTypes'
  BY <1>0, <1>12 DEF Replay, Goto, Locked
<1>13. ASSUME NEW p \in Procs, RecoverRequest(p)
      PROVE  DataTypes'
  BY <1>0, <1>13, IndexType DEF RecoverRequest, Views, Goto, Locked
<1>14. ASSUME NEW p \in Procs, Build(p)
      PROVE  DataTypes'
  <2>1. Requested(p) \in Requests
    BY <1>0, <1>14, GenerateCommand DEF Build, PositionOK, Requested
  <2>2. QED
    BY <1>0, <1>14, <2>1 DEF Build, Goto, Locked, Generation
<1>15. ASSUME NEW p \in Procs, SaveProvider(p)
      PROVE  DataTypes'
  BY <1>0, <1>15 DEF SaveProvider, Goto, Locked
<1>16. ASSUME NEW p \in Procs, Publish(p) \/ AdoptPublish(p)
      PROVE  DataTypes'
  <2>1. draft[p] \in Generation
    BY <1>0, <1>16 DEF PositionOK, Publish, AdoptPublish
  <2>2. QED
    BY <1>0, <1>16, <2>1, IndexType, EmptyType DEF Publish, AdoptPublish, Goto, Locked
<1>17. ASSUME NEW p \in Procs, Retire(p)
      PROVE  DataTypes'
  BY <1>0, <1>17, RetiredType DEF Retire, Views, Inventory, Goto, Locked
<1>18. CASE RemoveStaleLock
  BY <1>0, <1>18 DEF RemoveStaleLock
<1>19. QED
  BY <1>1, <1>2, <1>3, <1>4, <1>5, <1>6, <1>7, <1>8, <1>9, <1>10, <1>11, <1>12,
     <1>13, <1>14, <1>15, <1>16, <1>17, <1>18
  DEF Next, Step

\* The positions: the command that moves brings its arguments and memory along,
\* the others are untouched.
LEMMA NextPositions == TypeOK /\ [Next]_vars => \A q \in Procs : PositionOK(q)'
<1> SUFFICES ASSUME TypeOK, [Next]_vars, NEW q \in Procs PROVE PositionOK(q)'
  OBVIOUS
<1>0. DataTypes /\ PositionOK(q) /\ \A p \in Procs : PositionOK(p)
  BY DEF TypeOK, DataTypes
<1> USE DEF DataTypes, PositionOK, device, memory
<1>1. CASE UNCHANGED vars
  BY <1>0, <1>1 DEF vars
<1>2. ASSUME NEW p \in Procs, NEW r \in Requests, StartGenerate(p, r)
      PROVE  PositionOK(q)'
  BY <1>0, <1>2 DEF StartGenerate, Goto
<1>3. ASSUME NEW p \in Procs, NEW n \in 1..MaxSequence, StartRetire(p, n)
      PROVE  PositionOK(q)'
  BY <1>0, <1>3 DEF StartRetire, Goto
<1>4. ASSUME NEW p \in Procs, AcquireLock(p) \/ LockBusy(p)
      PROVE  PositionOK(q)'
  BY <1>0, <1>4 DEF AcquireLock, LockBusy, Goto
<1>5. ASSUME NEW p \in Procs, Release(p) \/ Crash(p)
      PROVE  PositionOK(q)'
  BY <1>0, <1>5 DEF Release, Crash, Forget, Goto
<1>6. ASSUME NEW p \in Procs,
             LoadInventory(p) \/ StartEmpty(p) \/ RecoverFirst(p) \/ AdoptPublished(p)
             \/ RecoverRequest(p)
      PROVE  PositionOK(q)'
  BY <1>0, <1>6
  DEF LoadInventory, StartEmpty, RecoverFirst, AdoptPublished, RecoverRequest, Views, Goto
<1>7. ASSUME NEW p \in Procs, AdoptStage(p)
      PROVE  PositionOK(q)'
  BY <1>0, <1>7, LegacyType DEF AdoptStage, Goto
<1>8. ASSUME NEW p \in Procs, WriteInitialInventory(p) \/ WriteInventory(p)
      PROVE  PositionOK(q)'
  BY <1>0, <1>8 DEF WriteInitialInventory, WriteInventory, Goto
<1>9. ASSUME NEW p \in Procs,
             LoadRefused(p) \/ RecoveryConflict(p) \/ RetireNothing(p) \/ IOFailure(p)
      PROVE  PositionOK(q)'
  BY <1>0, <1>9
  DEF LoadRefused, RecoveryConflict, RetireNothing, IOFailure, Refuse, Goto
<1>10. ASSUME NEW p \in Procs, Replay(p)
      PROVE  PositionOK(q)'
  BY <1>0, <1>10 DEF Replay, Goto
<1>11. ASSUME NEW p \in Procs, Build(p)
      PROVE  PositionOK(q)'
  <2>1. Requested(p) \in Requests
    BY <1>0, <1>11, GenerateCommand DEF Build, Requested
  <2>2. PICK n \in 1..MaxSequence, k \in Keys :
          draft' = [draft EXCEPT ![p] = [seq |-> n, req |-> Requested(p), key |-> k,
                                         origin |-> "generated"]]
    BY <1>11 DEF Build
  <2>3. [seq |-> n, req |-> Requested(p), key |-> k, origin |-> "generated"]
          \in Generation
    BY <2>1 DEF Generation
  <2>4. pc' = [pc EXCEPT ![p] = "save"] /\ cmd' = cmd /\ pc[p] = "lookup"
    BY <1>11 DEF Build, Goto
  <2>5. QED
    BY <1>0, <2>2, <2>3, <2>4
<1>12. ASSUME NEW p \in Procs, SaveProvider(p)
      PROVE  PositionOK(q)'
  BY <1>0, <1>12 DEF SaveProvider, Goto
<1>13. ASSUME NEW p \in Procs, Publish(p) \/ AdoptPublish(p)
      PROVE  PositionOK(q)'
  BY <1>0, <1>13 DEF Publish, AdoptPublish, Goto
<1>14. ASSUME NEW p \in Procs, Retire(p)
      PROVE  PositionOK(q)'
  BY <1>0, <1>14 DEF Retire, Views, Goto
<1>15. CASE RemoveStaleLock
  BY <1>0, <1>15 DEF RemoveStaleLock
<1>16. QED
  BY <1>1, <1>2, <1>3, <1>4, <1>5, <1>6, <1>7, <1>8, <1>9, <1>10, <1>11, <1>12,
     <1>13, <1>14, <1>15
  DEF Next, Step

\* Every variable, position and memory of the lifecycle has its type in every
\* reachable state, for any number of processes and requests.
THEOREM TypeCorrect == Spec => []TypeOK
<1>1. Init => TypeOK
  BY InitType
<1>2. TypeOK /\ [Next]_vars => TypeOK'
  BY NextDataTypes, NextPositions DEF TypeOK, DataTypes
<1>3. QED
  BY <1>1, <1>2, PTL DEF Spec

-----------------------------------------------------------------------------
(* The lock *)

LEMMA NextLock == TypeOK /\ LockExclusive /\ [Next]_vars => LockExclusive'
<1> SUFFICES ASSUME TypeOK, LockExclusive, [Next]_vars PROVE LockExclusive'
  OBVIOUS
<1>0. pc \in [Procs -> {"idle", "acquire"} \cup Locked]
  BY DEF TypeOK
<1> USE DEF LockExclusive, Locked
<1>1. CASE UNCHANGED vars
  BY <1>0, <1>1 DEF vars
<1>2. ASSUME NEW p \in Procs,
             (\E r \in Requests : StartGenerate(p, r))
             \/ (\E n \in 1..MaxSequence : StartRetire(p, n))
             \/ LockBusy(p) \/ Crash(p)
      PROVE  LockExclusive'
  <2>1. lock' = lock /\ pc' \in {[pc EXCEPT ![p] = "idle"], [pc EXCEPT ![p] = "acquire"]}
    BY <1>2 DEF StartGenerate, StartRetire, LockBusy, Crash, Goto
  <2>2. QED
    BY <1>0, <2>1
<1>3. ASSUME NEW p \in Procs, AcquireLock(p)
      PROVE  LockExclusive'
  <2>1. ~lock /\ lock' /\ \A q \in Procs : q # p => pc'[q] = pc[q]
    BY <1>0, <1>3 DEF AcquireLock, Goto
  <2>2. QED
    BY <1>0, <2>1
<1>4. ASSUME NEW p \in Procs, Release(p)
      PROVE  LockExclusive'
  BY <1>0, <1>4 DEF Release, Goto
<1>5. ASSUME NEW p \in Procs, Step(p), ~AcquireLock(p), ~LockBusy(p), ~Release(p)
      PROVE  LockExclusive'
  <2>1. lock' = lock /\ pc[p] \in Locked
    BY <1>5
    DEF Step, LoadInventory, RecoverFirst, AdoptPublished, AdoptStage, AdoptPublish,
        WriteInitialInventory, StartEmpty, LoadRefused, Replay, RecoverRequest,
        RecoveryConflict, Build, SaveProvider, Publish, WriteInventory, Retire,
        RetireNothing, IOFailure
  <2>2. \A q \in Procs : q # p => pc'[q] = pc[q]
    BY <1>0, <1>5
    DEF Step, LoadInventory, RecoverFirst, AdoptPublished, AdoptStage, AdoptPublish,
        WriteInitialInventory, StartEmpty, LoadRefused, Replay, RecoverRequest,
        RecoveryConflict, Build, SaveProvider, Publish, WriteInventory, Retire,
        RetireNothing, IOFailure, Refuse, Goto
  <2>3. QED
    BY <1>0, <2>1, <2>2
<1>6. CASE RemoveStaleLock
  BY <1>0, <1>6 DEF RemoveStaleLock
<1>7. QED
  BY <1>1, <1>2, <1>3, <1>4, <1>5, <1>6 DEF Next, Step

-----------------------------------------------------------------------------
(* The disk *)

\* The conjuncts of the invariant that speak of the disk alone.
DiskOK ==
  /\ OneGenerationPerRequest
  /\ PublishedKeysStored
  /\ CurrentIsNewest
  /\ RepliesAgree
  /\ inventory.retired \subseteq inventory.indexed
  /\ KeysAccounted

\* What an action that writes no file leaves as it was.
LEMMA QuietDisk ==
  ASSUME DiskOK, UNCHANGED <<device, minted, replies>>
  PROVE  DiskOK'
BY DEF DiskOK, OneGenerationPerRequest, PublishedKeysStored, CurrentIsNewest,
       RepliesAgree, KeysAccounted, device

LEMMA DiskAdoptPublish ==
  ASSUME IInv, NEW p \in Procs, AdoptPublish(p)
  PROVE  DiskOK'
<1>1. PICK k \in Keys : /\ Missing(inventory) /\ generations = {}
                        /\ draft[p] = LegacyGeneration(k)
                        /\ \A f \in LegacyFiles : legacy[f] = k
  BY DEF IInv, MemoryMatchesDisk, AdoptPublish
<1>2. generations' = {LegacyGeneration(k)}
  BY <1>1 DEF AdoptPublish
<1>3. UNCHANGED <<providerFile, providerKeys, legacy, inventory, minted, replies>>
  BY DEF AdoptPublish
<1>4. k \in providerKeys /\ k \in minted
  BY <1>1 DEF IInv, KeysAccounted, LegacyFiles
<1>5. inventory.indexed = {} /\ replies = {}
  BY <1>1 DEF IInv, Missing, EmptyInventory, RepliesAgree
<1>6. QED
  BY <1>2, <1>3, <1>4, <1>5
  DEF IInv, DiskOK, OneGenerationPerRequest, PublishedKeysStored, CurrentIsNewest,
      RepliesAgree, KeysAccounted, LegacyGeneration

LEMMA DiskWriteInitial ==
  ASSUME IInv, NEW p \in Procs, WriteInitialInventory(p)
  PROVE  DiskOK'
<1>1. PICK g \in generations : view[p] = Index(EmptyInventory, g)
  BY DEF IInv, MemoryMatchesDisk, WriteInitialInventory
<1>2. inventory' = Index(EmptyInventory, g)
  BY <1>1 DEF WriteInitialInventory
<1>3. UNCHANGED <<providerFile, providerKeys, legacy, generations, minted, replies>>
  BY DEF WriteInitialInventory
<1>4. replies = {}
  BY DEF IInv, MemoryMatchesDisk, WriteInitialInventory, Missing, EmptyInventory, RepliesAgree
<1>5. g.seq \in Nat
  BY SequenceAssumption DEF IInv, TypeOK, Generation
<1>6. CurrentIsNewest' /\ (inventory.retired \subseteq inventory.indexed)'
  BY <1>2, <1>3, <1>5 DEF CurrentIsNewest, Index, EmptyInventory
<1>7. QED
  BY <1>3, <1>4, <1>6
  DEF IInv, DiskOK, OneGenerationPerRequest, PublishedKeysStored, RepliesAgree, KeysAccounted

LEMMA DiskSaveProvider ==
  ASSUME IInv, NEW p \in Procs, SaveProvider(p)
  PROVE  DiskOK'
<1>1. providerKeys \subseteq providerKeys' /\ providerKeys' \subseteq minted
  BY DEF IInv, MemoryMatchesDisk, SaveProvider
<1>2. providerFile' = "stored"
      /\ UNCHANGED <<legacy, generations, inventory, minted, replies>>
  BY DEF SaveProvider
<1>3. QED
  BY <1>1, <1>2
  DEF IInv, DiskOK, OneGenerationPerRequest, PublishedKeysStored, CurrentIsNewest,
      RepliesAgree, KeysAccounted

LEMMA DiskPublish ==
  ASSUME IInv, NEW p \in Procs, Publish(p)
  PROVE  DiskOK'
<1>1. NewGeneration(draft[p]) /\ draft[p].key \in providerKeys
  BY DEF IInv, MemoryMatchesDisk, Publish
<1>2. generations' = generations \cup {draft[p]}
      /\ UNCHANGED <<providerFile, providerKeys, legacy, inventory, minted, replies>>
  BY DEF Publish
<1>3. QED
  BY <1>1, <1>2
  DEF IInv, DiskOK, OneGenerationPerRequest, PublishedKeysStored, CurrentIsNewest,
      RepliesAgree, KeysAccounted, NewGeneration

LEMMA DiskWriteInventory ==
  ASSUME IInv, NEW p \in Procs, WriteInventory(p)
  PROVE  DiskOK'
<1>1. UNCHANGED <<providerFile, providerKeys, legacy, generations, minted>>
      /\ inventory' = view[p]
  BY DEF WriteInventory
<1>2. OneGenerationPerRequest' /\ PublishedKeysStored' /\ KeysAccounted'
  BY <1>1 DEF IInv, OneGenerationPerRequest, PublishedKeysStored, KeysAccounted
<1>3. \A g \in generations : g.seq \in Nat
  BY SequenceAssumption DEF IInv, TypeOK, Generation
<1>4. inventory.next \in Nat /\ inventory.current \in Nat
  BY SequenceAssumption DEF IInv, TypeOK, Inventory
<1>5. CASE cmd[p].kind = "generate"
  <2>1. PICK g \in generations : view[p] = Index(inventory, g) /\ g.seq >= inventory.next
    BY <1>5 DEF IInv, MemoryMatchesDisk, WriteInventory
  <2>2. inventory.indexed \subseteq inventory'.indexed
        /\ inventory'.indexed \subseteq generations'
    BY <1>1, <2>1 DEF IInv, CurrentIsNewest, Index
  <2>3. replies' \subseteq inventory'.indexed
    BY <1>1, <2>2 DEF IInv, RepliesAgree, WriteInventory
  <2>4. /\ inventory' = [next |-> g.seq + 1, current |-> g.seq,
                         indexed |-> inventory.indexed \cup {g},
                         retired |-> inventory.retired]
        /\ \A h \in inventory.indexed : h.seq < inventory.next /\ h \in generations
        /\ inventory.retired \subseteq inventory.indexed
    BY <1>1, <2>1 DEF Index, IInv, CurrentIsNewest
  <2>5. \A h \in inventory'.indexed : h.seq <= g.seq /\ h.seq < g.seq + 1
    BY <1>3, <1>4, <2>1, <2>4
  <2>6. g \in inventory'.indexed \ inventory'.retired
    BY <1>3, <1>4, <2>1, <2>4
  <2>7. CurrentIsNewest'
    BY <2>2, <2>4, <2>5, <2>6 DEF CurrentIsNewest
  <2>8. RepliesAgree'
    BY <1>2, <2>2, <2>3 DEF RepliesAgree, OneGenerationPerRequest
  <2>9. QED
    BY <1>2, <2>4, <2>7, <2>8 DEF DiskOK
<1>6. CASE cmd[p].kind # "generate"
  <2>1. PICK g \in inventory.indexed \ inventory.retired :
          g.seq # inventory.current /\ view[p] = MarkRetired(inventory, g)
    BY <1>6 DEF IInv, MemoryMatchesDisk, WriteInventory
  <2>2. /\ inventory'.next = inventory.next /\ inventory'.current = inventory.current
        /\ inventory'.indexed = inventory.indexed
        /\ inventory'.retired = inventory.retired \cup {g}
        /\ replies' = replies
    BY <1>1, <1>6, <2>1 DEF MarkRetired, WriteInventory
  <2>3. CurrentIsNewest'
    BY <1>1, <2>1, <2>2 DEF IInv, CurrentIsNewest
  <2>4. RepliesAgree' /\ (inventory.retired \subseteq inventory.indexed)'
    BY <2>1, <2>2 DEF IInv, RepliesAgree
  <2>5. QED
    BY <1>2, <2>3, <2>4 DEF DiskOK
<1>7. QED
  BY <1>5, <1>6

LEMMA DiskBuild ==
  ASSUME IInv, NEW p \in Procs, Build(p)
  PROVE  DiskOK'
<1>1. minted \subseteq minted'
      /\ UNCHANGED <<providerFile, providerKeys, legacy, generations, inventory, replies>>
  BY DEF Build, device
<1>2. QED
  BY <1>1
  DEF IInv, DiskOK, OneGenerationPerRequest, PublishedKeysStored, CurrentIsNewest,
      RepliesAgree, KeysAccounted

LEMMA DiskReplay ==
  ASSUME IInv, NEW p \in Procs, Replay(p)
  PROVE  DiskOK'
<1>1. UNCHANGED <<providerFile, providerKeys, legacy, generations, inventory, minted>>
  BY DEF Replay, device
<1>2. view[p] = inventory
  BY DEF IInv, MemoryMatchesDisk, Replay
<1>3. replies' \subseteq inventory.indexed
  BY <1>2 DEF IInv, RepliesAgree, Replay
<1>4. inventory.indexed \subseteq generations
  BY DEF IInv, CurrentIsNewest
<1>5. RepliesAgree'
  BY <1>1, <1>3, <1>4 DEF IInv, RepliesAgree, OneGenerationPerRequest
<1>6. QED
  BY <1>1, <1>5
  DEF IInv, DiskOK, OneGenerationPerRequest, PublishedKeysStored, CurrentIsNewest,
      KeysAccounted

\* The actions that write no file and mint no key.
LEMMA QuietActions ==
  ASSUME NEW p \in Procs,
         \/ (\E r \in Requests : StartGenerate(p, r))
         \/ (\E n \in 1..MaxSequence : StartRetire(p, n))
         \/ AcquireLock(p) \/ LockBusy(p) \/ Release(p) \/ Crash(p)
         \/ LoadInventory(p) \/ RecoverFirst(p) \/ AdoptPublished(p) \/ AdoptStage(p)
         \/ StartEmpty(p) \/ LoadRefused(p) \/ RecoverRequest(p) \/ RecoveryConflict(p)
         \/ Retire(p) \/ RetireNothing(p) \/ IOFailure(p)
  PROVE  UNCHANGED <<device, minted, replies>>
BY DEF StartGenerate, StartRetire, AcquireLock, LockBusy, Release, Crash, LoadInventory,
       RecoverFirst, AdoptPublished, AdoptStage, StartEmpty, LoadRefused, RecoverRequest,
       RecoveryConflict, Retire, RetireNothing, IOFailure

LEMMA NextDisk == IInv /\ [Next]_vars => DiskOK'
<1> SUFFICES ASSUME IInv, [Next]_vars PROVE DiskOK'
  OBVIOUS
<1>0. DiskOK
  BY DEF IInv, DiskOK
<1>1. CASE UNCHANGED vars
  BY <1>0, <1>1, QuietDisk DEF vars, device
<1>2. CASE RemoveStaleLock
  BY <1>0, <1>2, QuietDisk DEF RemoveStaleLock
<1>3. ASSUME NEW p \in Procs,
             \/ (\E r \in Requests : StartGenerate(p, r))
             \/ (\E n \in 1..MaxSequence : StartRetire(p, n))
             \/ Crash(p) \/ Step(p)
      PROVE  DiskOK'
  BY <1>0, <1>3, QuietDisk, QuietActions, DiskAdoptPublish, DiskWriteInitial, DiskReplay,
     DiskBuild, DiskSaveProvider, DiskPublish, DiskWriteInventory
  DEF Step
<1>4. QED
  BY <1>1, <1>2, <1>3 DEF Next
-----------------------------------------------------------------------------
(* The legacy import comes first *)

LEMMA IndexedNotMissing ==
  ASSUME NEW inv, inv.indexed # {}
  PROVE  ~Missing(inv)
BY DEF Missing, EmptyInventory

LEMMA IndexNotMissing ==
  ASSUME NEW inv, NEW g
  PROVE  ~Missing(Index(inv, g))
BY IndexedNotMissing DEF Index

LEMMA LegacyUnchanged == [Next]_vars => legacy' = legacy
BY DEF Next, Step, vars, device, StartGenerate, StartRetire, AcquireLock, LockBusy, Release,
       Crash, LoadInventory, RecoverFirst, AdoptPublished, AdoptStage, AdoptPublish,
       WriteInitialInventory, StartEmpty, LoadRefused, Replay, RecoverRequest,
       RecoveryConflict, Build, SaveProvider, Publish, WriteInventory, Retire,
       RetireNothing, IOFailure, RemoveStaleLock

\* Positions a command reaches past the import.
Imported == {"lookup", "save", "publish", "index"}

LEMMA NextLegacyFirst == IInv /\ [Next]_vars => LegacyFirst'
<1> SUFFICES ASSUME IInv, [Next]_vars,
                    NEW k \in Keys, Missing(inventory)',
                    \A f \in LegacyFiles : legacy'[f] = k
             PROVE  /\ generations' \subseteq {LegacyGeneration(k)}
                    /\ \A q \in Procs : pc'[q] \notin Imported
  BY DEF LegacyFirst, Imported, LegacyGeneration
<1>1. \A f \in LegacyFiles : legacy[f] = k
  BY LegacyUnchanged
<1>2. Missing(inventory) => /\ generations \subseteq {LegacyGeneration(k)}
                            /\ \A q \in Procs : pc[q] \notin Imported
  BY <1>1 DEF IInv, LegacyFirst, Imported
<1>3. pc \in [Procs -> {"idle", "acquire"} \cup Locked]
  BY DEF IInv, TypeOK
<1>4. CASE UNCHANGED vars
  BY <1>2, <1>4 DEF vars, Missing
<1>5. CASE RemoveStaleLock
  BY <1>2, <1>5 DEF RemoveStaleLock, device, Missing
<1>6. ASSUME NEW p \in Procs,
             \/ (\E r \in Requests : StartGenerate(p, r))
             \/ (\E n \in 1..MaxSequence : StartRetire(p, n))
             \/ AcquireLock(p) \/ LockBusy(p) \/ Release(p) \/ Crash(p)
             \/ RecoverFirst(p) \/ AdoptPublished(p) \/ AdoptStage(p)
             \/ LoadRefused(p) \/ RecoveryConflict(p) \/ Replay(p)
             \/ RetireNothing(p) \/ IOFailure(p)
      PROVE  /\ generations' \subseteq {LegacyGeneration(k)}
             /\ \A q \in Procs : pc'[q] \notin Imported
  <2>1. UNCHANGED <<generations, inventory>>
    BY <1>6, QuietActions DEF device, Replay
  <2>2. \E label \in {"idle", "acquire", "load", "retire", "initialize", "adopt", "release"} :
          pc' = [pc EXCEPT ![p] = label]
    BY <1>6
    DEF StartGenerate, StartRetire, AcquireLock, LockBusy, Release, Crash, RecoverFirst,
        AdoptPublished, AdoptStage, LoadRefused, RecoveryConflict, Replay, RetireNothing,
        IOFailure, Refuse, Goto
  <2>3. QED
    BY <1>2, <1>3, <2>1, <2>2 DEF Missing, Imported
<1>7. ASSUME NEW p \in Procs, LoadInventory(p) \/ Retire(p)
      PROVE  FALSE
  BY <1>7 DEF LoadInventory, Retire, device, Missing
<1>8. ASSUME NEW p \in Procs, StartEmpty(p)
      PROVE  FALSE
  BY <1>1, <1>8, NullAssumption DEF StartEmpty, IInv, KeysAccounted, LegacyFiles
<1>9. ASSUME NEW p \in Procs,
             RecoverRequest(p) \/ Build(p) \/ SaveProvider(p) \/ Publish(p)
      PROVE  FALSE
  <2>1. inventory' = inventory /\ pc[p] \in Imported
    BY <1>9 DEF RecoverRequest, Build, SaveProvider, Publish, device, Imported
  <2>2. QED
    BY <1>2, <2>1 DEF Missing
<1>10. ASSUME NEW p \in Procs, WriteInitialInventory(p)
       PROVE  FALSE
  <2>1. PICK g \in generations : inventory' = Index(EmptyInventory, g)
    BY <1>10 DEF IInv, MemoryMatchesDisk, WriteInitialInventory
  <2>2. QED
    BY <2>1, IndexNotMissing DEF Missing
<1>11. ASSUME NEW p \in Procs, WriteInventory(p)
       PROVE  FALSE
  <2>1. CASE cmd[p].kind = "generate"
    <3>1. PICK g \in generations : inventory' = Index(inventory, g)
      BY <1>11, <2>1 DEF IInv, MemoryMatchesDisk, WriteInventory
    <3>2. QED
      BY <3>1, IndexNotMissing DEF Missing
  <2>2. CASE cmd[p].kind # "generate"
    <3>1. PICK g \in inventory.indexed : inventory' = MarkRetired(inventory, g)
      BY <1>11, <2>2 DEF IInv, MemoryMatchesDisk, WriteInventory
    <3>2. inventory'.indexed # {}
      BY <3>1 DEF MarkRetired
    <3>3. QED
      BY <3>2, IndexedNotMissing DEF Missing
  <2>3. QED
    BY <2>1, <2>2
<1>12. ASSUME NEW p \in Procs, AdoptPublish(p)
       PROVE  /\ generations' \subseteq {LegacyGeneration(k)}
              /\ \A q \in Procs : pc'[q] \notin Imported
  <2>1. Missing(inventory) /\ pc' = [pc EXCEPT ![p] = "initialize"]
        /\ generations' = generations \cup {draft[p]}
    BY <1>12 DEF AdoptPublish, Missing, Goto
  <2>2. generations = {} /\ draft[p] = LegacyGeneration(k)
    BY <1>1, <1>12 DEF IInv, MemoryMatchesDisk, AdoptPublish, LegacyFiles
  <2>3. QED
    BY <1>2, <1>3, <2>1, <2>2 DEF Imported
<1>13. QED
  BY <1>4, <1>5, <1>6, <1>7, <1>8, <1>9, <1>10, <1>11, <1>12 DEF Next, Step
-----------------------------------------------------------------------------
(* The memory of the lock holder *)

\* A step of another process that leaves the disk alone leaves q's memory true.
LEMMA Unmoved ==
  ASSUME NEW q \in Procs, MemoryMatchesDisk(q),
         UNCHANGED <<device, minted>>,
         pc'[q] = pc[q], cmd'[q] = cmd[q],
         view'[q] = view[q], draft'[q] = draft[q], keyring'[q] = keyring[q]
  PROVE  MemoryMatchesDisk(q)'
<1>1. UNCHANGED <<providerFile, providerKeys, legacy, generations, inventory, minted>>
  BY DEF device
<1>2. QED
  BY <1>1 DEF MemoryMatchesDisk, NewGeneration, Missing, Requested

\* Positions at which the memory of a process says nothing of the disk.
Blank == {"idle", "acquire", "load", "retire", "release"}

LEMMA BlankMemory ==
  ASSUME NEW q \in Procs, pc[q] \in Blank
  PROVE  MemoryMatchesDisk(q)
BY DEF MemoryMatchesDisk, Blank

\* The other processes keep their position, arguments and memory.
LEMMA OthersStill ==
  ASSUME TypeOK, NEW p \in Procs, NEW q \in Procs, p # q,
         \/ (\E r \in Requests : StartGenerate(p, r))
         \/ (\E n \in 1..MaxSequence : StartRetire(p, n))
         \/ Crash(p) \/ Step(p)
  PROVE  /\ pc'[q] = pc[q] /\ cmd'[q] = cmd[q]
         /\ view'[q] = view[q] /\ draft'[q] = draft[q] /\ keyring'[q] = keyring[q]
<1>1. /\ pc \in [Procs -> {"idle", "acquire"} \cup Locked]
      /\ cmd \in [Procs -> Command]
      /\ view \in [Procs -> Inventory]
      /\ draft \in [Procs -> Generation \cup {NoGeneration}]
      /\ keyring \in [Procs -> SUBSET Keys]
  BY DEF TypeOK
<1>2. pc'[q] = pc[q] /\ cmd'[q] = cmd[q]
  BY <1>1
  DEF Step, StartGenerate, StartRetire, AcquireLock, LockBusy, Release, Crash,
      LoadInventory, RecoverFirst, AdoptPublished, AdoptStage, AdoptPublish,
      WriteInitialInventory, StartEmpty, LoadRefused, Replay, RecoverRequest,
      RecoveryConflict, Build, SaveProvider, Publish, WriteInventory, Retire,
      RetireNothing, IOFailure, Refuse, Goto
<1>3. view'[q] = view[q] /\ draft'[q] = draft[q] /\ keyring'[q] = keyring[q]
  BY <1>1
  DEF Step, StartGenerate, StartRetire, AcquireLock, LockBusy, Release, Crash, Forget,
      LoadInventory, RecoverFirst, AdoptPublished, AdoptStage, AdoptPublish,
      WriteInitialInventory, StartEmpty, LoadRefused, Replay, RecoverRequest,
      RecoveryConflict, Build, SaveProvider, Publish, WriteInventory, Retire,
      RetireNothing, IOFailure, Refuse, Views, memory
<1>4. QED
  BY <1>2, <1>3

\* While one process is inside the lock the others write nothing.
LEMMA OthersQuiet ==
  ASSUME LockExclusive, NEW p \in Procs, NEW q \in Procs, p # q, pc[q] \in Locked,
         \/ (\E r \in Requests : StartGenerate(p, r))
         \/ (\E n \in 1..MaxSequence : StartRetire(p, n))
         \/ Crash(p) \/ Step(p)
  PROVE  UNCHANGED <<device, minted, replies>>
<1>1. lock /\ pc[p] \notin Locked
  BY DEF LockExclusive
<1>2. \/ (\E r \in Requests : StartGenerate(p, r))
      \/ (\E n \in 1..MaxSequence : StartRetire(p, n))
      \/ Crash(p) \/ LockBusy(p)
  BY <1>1
  DEF Step, Locked, AcquireLock, Release,
      LoadInventory, RecoverFirst, AdoptPublished, AdoptStage, AdoptPublish,
      WriteInitialInventory, StartEmpty, LoadRefused, Replay, RecoverRequest,
      RecoveryConflict, Build, SaveProvider, Publish, WriteInventory, Retire,
      RetireNothing, IOFailure
<1>3. QED
  BY <1>2, QuietActions

\* The other processes: they are outside the lock while one is inside.
LEMMA OthersMemory ==
  ASSUME IInv, NEW p \in Procs, NEW q \in Procs, p # q,
         \/ (\E r \in Requests : StartGenerate(p, r))
         \/ (\E n \in 1..MaxSequence : StartRetire(p, n))
         \/ Crash(p) \/ Step(p)
  PROVE  MemoryMatchesDisk(q)'
<1>1. /\ pc'[q] = pc[q] /\ cmd'[q] = cmd[q]
      /\ view'[q] = view[q] /\ draft'[q] = draft[q] /\ keyring'[q] = keyring[q]
  BY OthersStill DEF IInv
<1>2. CASE pc[q] \notin Locked
  <2>1. pc'[q] \in Blank
    BY <1>1, <1>2 DEF IInv, TypeOK, Blank
  <2>2. QED
    BY <2>1 DEF MemoryMatchesDisk, Blank
<1>3. CASE pc[q] \in Locked
  BY <1>1, <1>3, OthersQuiet, Unmoved DEF IInv
<1>4. QED
  BY <1>2, <1>3

\* The process that moves, position by position.
LEMMA ActorMemory ==
  ASSUME IInv, NEW p \in Procs,
         \/ (\E r \in Requests : StartGenerate(p, r))
         \/ (\E n \in 1..MaxSequence : StartRetire(p, n))
         \/ Crash(p) \/ Step(p)
  PROVE  MemoryMatchesDisk(p)'
<1>0. /\ pc \in [Procs -> {"idle", "acquire"} \cup Locked]
      /\ cmd \in [Procs -> Command]
      /\ view \in [Procs -> Inventory]
      /\ draft \in [Procs -> Generation \cup {NoGeneration}]
      /\ keyring \in [Procs -> SUBSET Keys]
      /\ MemoryMatchesDisk(p) /\ PositionOK(p)
  BY DEF IInv, TypeOK
<1>1. CASE \/ (\E r \in Requests : StartGenerate(p, r))
           \/ (\E n \in 1..MaxSequence : StartRetire(p, n))
           \/ AcquireLock(p) \/ LockBusy(p) \/ Release(p) \/ Crash(p)
           \/ LoadRefused(p) \/ Replay(p) \/ RecoveryConflict(p)
           \/ WriteInventory(p) \/ RetireNothing(p) \/ IOFailure(p)
  <2>1. pc'[p] \in Blank
    BY <1>0, <1>1
    DEF Blank, StartGenerate, StartRetire, AcquireLock, LockBusy, Release, Crash,
        LoadRefused, Replay, RecoveryConflict, WriteInventory, RetireNothing, IOFailure,
        Refuse, Goto
  <2>2. QED
    BY <2>1 DEF Blank, MemoryMatchesDisk
<1>2. CASE LoadInventory(p) \/ StartEmpty(p)
  <2>1. pc'[p] = "lookup" /\ view'[p] = inventory'
    BY <1>0, <1>2 DEF LoadInventory, StartEmpty, Goto, Views, Missing, device
  <2>2. QED
    BY <2>1 DEF MemoryMatchesDisk
<1>3. CASE RecoverFirst(p) \/ AdoptPublished(p)
  <2>1. /\ pc'[p] = "initialize"
        /\ Missing(inventory)' /\ generations' = generations
        /\ \E g \in generations : view'[p] = Index(EmptyInventory, g)
    BY <1>0, <1>3
    DEF RecoverFirst, AdoptPublished, LegacyComplete, Goto, Views, Missing, device
  <2>2. QED
    BY <2>1 DEF MemoryMatchesDisk, Index, EmptyInventory
<1>4. CASE AdoptStage(p)
  <2>1. PICK k \in Keys : /\ LegacyComplete(k)
                          /\ \A g \in generations : g.seq = 1 => g.key # k
                          /\ draft'[p] = LegacyGeneration(k)
    BY <1>0, <1>4 DEF AdoptStage
  <2>2. Missing(inventory) /\ \A f \in LegacyFiles : legacy[f] = k
    BY <2>1 DEF LegacyComplete
  <2>3. generations \subseteq {LegacyGeneration(k)}
    BY <2>2 DEF IInv, LegacyFirst
  <2>4. generations = {}
    BY <2>1, <2>3 DEF LegacyGeneration
  <2>5. pc'[p] = "adopt" /\ UNCHANGED <<inventory, generations, legacy>>
    BY <1>0, <1>4 DEF AdoptStage, Goto, device
  <2>6. QED
    BY <2>1, <2>2, <2>4, <2>5 DEF MemoryMatchesDisk, Missing, LegacyGeneration
<1>5. CASE AdoptPublish(p)
  <2>1. /\ pc'[p] = "initialize" /\ inventory' = inventory
        /\ draft[p] \in generations'
        /\ view'[p] = Index(EmptyInventory, draft[p])
        /\ Missing(inventory)
    BY <1>0, <1>5 DEF AdoptPublish, Goto, MemoryMatchesDisk
  <2>2. QED
    BY <2>1 DEF MemoryMatchesDisk, Missing, Index, EmptyInventory
<1>6. CASE WriteInitialInventory(p)
  <2>1. pc'[p] = "lookup" /\ view'[p] = inventory'
    BY <1>0, <1>6 DEF WriteInitialInventory, Goto, memory
  <2>2. QED
    BY <2>1 DEF MemoryMatchesDisk
<1>7. CASE RecoverRequest(p)
  <2>1. view[p] = inventory /\ cmd[p].kind = "generate"
    BY <1>0, <1>7 DEF RecoverRequest, MemoryMatchesDisk, PositionOK
  <2>2. PICK g \in generations : /\ g.req = Requested(p) /\ g.seq >= inventory.next
                                 /\ view'[p] = Index(inventory, g)
    BY <1>0, <1>7, <2>1 DEF RecoverRequest, Views
  <2>3. \A h \in inventory.indexed : h.req # g.req
    BY <1>7, <2>1, <2>2 DEF RecoverRequest, Unindexed
  <2>4. pc'[p] = "index" /\ UNCHANGED <<generations, inventory, cmd>>
    BY <1>0, <1>7 DEF RecoverRequest, Goto, device
  <2>5. QED
    BY <2>1, <2>2, <2>3, <2>4 DEF MemoryMatchesDisk, Requested, Index
<1>8. CASE Build(p)
  <2>1. PICK n \in 1..MaxSequence, k \in Keys \ minted :
          /\ IsNextAvailable(n, view[p], generations)
          /\ minted' = minted \cup {k}
          /\ draft'[p] = [seq |-> n, req |-> Requested(p), key |-> k, origin |-> "generated"]
          /\ keyring'[p] = providerKeys \cup {k}
    BY <1>0, <1>8 DEF Build
  <2>2. /\ pc'[p] = "save" /\ cmd' = cmd /\ view' = view
        /\ UNCHANGED <<providerKeys, generations, inventory>>
    BY <1>0, <1>8 DEF Build, Goto, device
  <2>3. view[p] = inventory
    BY <1>0, <1>8 DEF Build, MemoryMatchesDisk
  <2>4. \A h \in generations : h.seq # n
    BY <2>1, SequenceAssumption DEF IsNextAvailable, IInv, TypeOK, Generation
  <2>5. \A h \in generations : h.req # Requested(p) /\ h.key # k
    BY <1>8, <2>1 DEF Build, IInv, KeysAccounted
  <2>6. n >= inventory.next
    BY <2>1, <2>3 DEF IsNextAvailable
  <2>7. NewGeneration(draft[p])'
    BY <2>1, <2>2, <2>4, <2>5, <2>6 DEF NewGeneration
  <2>8. keyring'[p] \subseteq minted' /\ providerKeys' \cup {draft'[p].key} \subseteq keyring'[p]
    BY <2>1, <2>2 DEF IInv, KeysAccounted
  <2>9. QED
    BY <2>1, <2>2, <2>3, <2>7, <2>8 DEF MemoryMatchesDisk, Requested
<1>9. CASE SaveProvider(p)
  <2>1. /\ pc'[p] = "publish" /\ providerKeys' = keyring[p]
        /\ UNCHANGED <<generations, inventory, minted, cmd, view, draft, keyring>>
    BY <1>0, <1>9 DEF SaveProvider, Goto, memory
  <2>2. QED
    BY <1>0, <1>9, <2>1 DEF SaveProvider, MemoryMatchesDisk, NewGeneration, Requested
<1>10. CASE Publish(p)
  <2>1. /\ pc'[p] = "index" /\ generations' = generations \cup {draft[p]}
        /\ view'[p] = Index(view[p], draft[p])
        /\ UNCHANGED <<inventory, cmd>>
        /\ cmd[p].kind = "generate"
    BY <1>0, <1>10 DEF Publish, Goto, PositionOK
  <2>2. /\ view[p] = inventory /\ NewGeneration(draft[p])
        /\ draft[p].req = Requested(p)
    BY <1>0, <1>10 DEF Publish, MemoryMatchesDisk
  <2>3. \A h \in inventory.indexed : h.req # draft[p].req
    BY <2>2 DEF IInv, CurrentIsNewest, NewGeneration
  <2>4. draft[p] \in generations' /\ draft[p].seq >= inventory.next
    BY <2>1, <2>2 DEF NewGeneration
  <2>5. QED
    BY <2>1, <2>2, <2>3, <2>4 DEF MemoryMatchesDisk, Requested
<1>11. CASE Retire(p)
  <2>1. /\ pc'[p] = "index" /\ UNCHANGED <<inventory, cmd>>
        /\ cmd[p].kind = "retire"
    BY <1>0, <1>11 DEF Retire, Goto, device, PositionOK
  <2>2. \E g \in inventory.indexed \ inventory.retired :
          g.seq # inventory.current /\ view'[p] = MarkRetired(inventory, g)
    BY <1>0, <1>11 DEF Retire, Views
  <2>3. QED
    BY <2>1, <2>2 DEF MemoryMatchesDisk, MarkRetired
<1>12. QED
  BY <1>1, <1>2, <1>3, <1>4, <1>5, <1>6, <1>7, <1>8, <1>9, <1>10, <1>11 DEF Step

LEMMA NextMemory == IInv /\ [Next]_vars => \A q \in Procs : MemoryMatchesDisk(q)'
<1> SUFFICES ASSUME IInv, [Next]_vars, NEW q \in Procs PROVE MemoryMatchesDisk(q)'
  OBVIOUS
<1>1. CASE UNCHANGED vars
  BY <1>1, Unmoved DEF vars, device, memory, IInv
<1>2. CASE RemoveStaleLock
  BY <1>2, Unmoved DEF RemoveStaleLock, memory, IInv
<1>3. QED
  BY <1>1, <1>2, ActorMemory, OthersMemory DEF Next
-----------------------------------------------------------------------------
(* The inductive invariant and what it contains *)

LEMMA InitInv == Init => IInv
<1> SUFFICES ASSUME Init PROVE IInv
  OBVIOUS
<1>1. /\ lock = FALSE /\ generations = {} /\ replies = {}
      /\ inventory = EmptyInventory /\ pc = [p \in Procs |-> "idle"]
  BY DEF Init, CommandsIdle
<1>2. LockExclusive
  BY <1>1 DEF LockExclusive, Locked
<1>3. OneGenerationPerRequest /\ PublishedKeysStored /\ RepliesAgree /\ CurrentIsNewest
      /\ inventory.retired \subseteq inventory.indexed
  BY <1>1
  DEF OneGenerationPerRequest, PublishedKeysStored, RepliesAgree, CurrentIsNewest,
      EmptyInventory
<1>4. /\ providerKeys \subseteq minted
      /\ \A f \in LegacyFiles : legacy[f] \in Keys => legacy[f] \in providerKeys
      /\ providerFile = "absent" => \A f \in LegacyFiles : legacy[f] = Absent
  <2>1. CASE FreshDevice
    BY <2>1, NullAssumption DEF FreshDevice
  <2>2. CASE ExportedDevice
    BY <2>2, NullAssumption DEF ExportedDevice, LegacyState
  <2>3. QED
    BY <2>1, <2>2 DEF Init
<1>5. KeysAccounted
  BY <1>1, <1>4 DEF KeysAccounted
<1>6. LegacyFirst
  BY <1>1 DEF LegacyFirst
<1>7. \A p \in Procs : MemoryMatchesDisk(p)
  BY <1>1, BlankMemory DEF Blank
<1>8. QED
  BY InitType, <1>2, <1>3, <1>5, <1>6, <1>7 DEF IInv

LEMMA NextInv == IInv /\ [Next]_vars => IInv'
<1> SUFFICES ASSUME IInv, [Next]_vars PROVE IInv'
  OBVIOUS
<1>1. TypeOK'
  BY NextDataTypes, NextPositions DEF IInv, TypeOK, DataTypes
<1>2. LockExclusive'
  BY NextLock DEF IInv
<1>3. DiskOK'
  BY NextDisk
<1>4. LegacyFirst' /\ \A q \in Procs : MemoryMatchesDisk(q)'
  BY NextLegacyFirst, NextMemory
<1>5. QED
  BY <1>1, <1>2, <1>3, <1>4 DEF IInv, DiskOK

\* The strengthened invariant holds in every reachable state.
THEOREM Inductive == Spec => []IInv
BY InitInv, NextInv, PTL DEF Spec

\* At most one command is inside the lifecycle lock.
THEOREM LockIsExclusive == Spec => []LockExclusive
<1>1. IInv => LockExclusive
  BY DEF IInv
<1>2. QED
  BY <1>1, Inductive, PTL

\* Crashes, failures and retries never publish a second generation for a request
\* or a sequence number.
THEOREM RequestsAreIdempotent == Spec => []OneGenerationPerRequest
<1>1. IInv => OneGenerationPerRequest
  BY DEF IInv
<1>2. QED
  BY <1>1, Inductive, PTL

\* The private key of every published generation is on disk.
THEOREM KeysArePersisted == Spec => []PublishedKeysStored
<1>1. IInv => PublishedKeysStored
  BY DEF IInv
<1>2. QED
  BY <1>1, Inductive, PTL

\* The inventory is consistent: published records, newest current, not retired.
THEOREM InventoryIsCurrent == Spec => []CurrentIsNewest
<1>1. IInv => CurrentIsNewest
  BY DEF IInv
<1>2. QED
  BY <1>1, Inductive, PTL

\* Two replies to one request name one generation, which stays indexed.
THEOREM RepliesAreStable == Spec => []RepliesAgree
<1>1. IInv => RepliesAgree
  BY DEF IInv
<1>2. QED
  BY <1>1, Inductive, PTL

-----------------------------------------------------------------------------
(* The lifecycle implements the ledger *)

\* A write of inventory.json by a generate issues the generation it indexes.
LEMMA IndexIssues ==
  ASSUME IInv, NEW g \in generations, inventory' = Index(inventory, g),
         g.seq >= inventory.next, \A h \in inventory.indexed : h.req # g.req
  PROVE  Ledger!Next
<1>1. g \in Generation
  BY DEF IInv, TypeOK
<1>2. \A h \in inventory.indexed : h \in generations /\ h.seq < inventory.next
  BY DEF IInv, CurrentIsNewest
<1>3. \A h \in inventory.indexed : h.seq < g.seq
  BY <1>1, <1>2, SequenceAssumption DEF IInv, TypeOK, Generation, Inventory
<1>4. \A h \in inventory.indexed : h.key # g.key
  BY <1>2 DEF IInv, KeysAccounted
<1>5. Ledger!Issue(g)
  BY <1>3, <1>4 DEF Ledger!Issue, Index
<1>6. QED
  BY <1>1, <1>5 DEF Ledger!Next

LEMMA LedgerStep == IInv /\ [Next]_vars => [Ledger!Next]_(Ledger!vars)
<1> SUFFICES ASSUME IInv, [Next]_vars PROVE [Ledger!Next]_(Ledger!vars)
  OBVIOUS
<1>1. CASE inventory' = inventory
  BY <1>1 DEF Ledger!vars
<1>2. ASSUME NEW p \in Procs, WriteInitialInventory(p) PROVE Ledger!Next
  <2>1. PICK g \in generations : inventory' = Index(inventory, g)
    BY <1>2 DEF IInv, MemoryMatchesDisk, WriteInitialInventory, Missing
  <2>2. inventory = EmptyInventory
    BY <1>2 DEF IInv, MemoryMatchesDisk, WriteInitialInventory, Missing
  <2>3. g.seq >= inventory.next /\ \A h \in inventory.indexed : h.req # g.req
    BY <2>2, SequenceAssumption DEF EmptyInventory, IInv, TypeOK, Generation
  <2>4. QED
    BY <2>1, <2>3, IndexIssues
<1>3. ASSUME NEW p \in Procs, WriteInventory(p) PROVE Ledger!Next
  <2>1. CASE cmd[p].kind = "generate"
    <3>1. PICK g \in generations :
            /\ inventory' = Index(inventory, g) /\ g.seq >= inventory.next
            /\ g.req = Requested(p)
            /\ \A h \in inventory.indexed : h.req # g.req
      BY <1>3, <2>1 DEF IInv, MemoryMatchesDisk, WriteInventory
    <3>2. QED
      BY <3>1, IndexIssues
  <2>2. CASE cmd[p].kind # "generate"
    <3>1. PICK g \in inventory.indexed \ inventory.retired :
            g.seq # inventory.current /\ inventory' = MarkRetired(inventory, g)
      BY <1>3, <2>2 DEF IInv, MemoryMatchesDisk, WriteInventory
    <3>2. g \in Generation
      BY <3>1 DEF IInv, TypeOK, Inventory
    <3>3. Ledger!Retire(g)
      BY <3>1 DEF Ledger!Retire, MarkRetired
    <3>4. QED
      BY <3>2, <3>3 DEF Ledger!Next
  <2>3. QED
    BY <2>1, <2>2
<1>4. ASSUME NEW p \in Procs, ~WriteInitialInventory(p), ~WriteInventory(p),
             \/ (\E r \in Requests : StartGenerate(p, r))
             \/ (\E n \in 1..MaxSequence : StartRetire(p, n))
             \/ Crash(p) \/ Step(p)
      PROVE  inventory' = inventory
  BY <1>4, QuietActions
  DEF Step, device, Replay, Build, SaveProvider, Publish, AdoptPublish
<1>5. RemoveStaleLock \/ UNCHANGED vars => inventory' = inventory
  BY DEF RemoveStaleLock, device, vars
<1>6. QED
  BY <1>1, <1>2, <1>3, <1>4, <1>5 DEF Next

\* Every behaviour of the lifecycle, with its crashes, failures and recoveries,
\* is a behaviour of the append-only ledger.
THEOREM LedgerRefinement == Spec => ImplementsLedger
<1>1. Init => Ledger!Init
  BY DEF Init, CommandsIdle, EmptyInventory, Ledger!Init
<1>2. QED
  BY <1>1, LedgerStep, Inductive, PTL DEF Spec, ImplementsLedger, Ledger!Spec

-----------------------------------------------------------------------------
(* Beside an export: the inventory *)

\* The conjuncts of ExportIInv about inventory.json and the replies.
InventoryOK ==
  /\ CurrentIsNewest
  /\ IndexedOnce
  /\ replies \subseteq inventory.indexed
  /\ inventory.retired \subseteq inventory.indexed

LEMMA Numbers ==
  ASSUME TypeOK
  PROVE  /\ inventory.next \in Nat /\ inventory.current \in Nat
         /\ \A g \in generations : g \in Generation /\ g.seq \in 1..MaxSequence /\ g.seq \in Nat
BY SequenceAssumption DEF TypeOK, Inventory, Generation

\* A step that writes neither the inventory nor a reply; directories may be added.
LEMMA SameInventory ==
  ASSUME InventoryOK, UNCHANGED <<inventory, replies>>, generations \subseteq generations'
  PROVE  InventoryOK'
BY DEF InventoryOK, CurrentIsNewest, IndexedOnce

\* The inventory after a generate has indexed its generation.
LEMMA IndexedInventory ==
  ASSUME TypeOK, InventoryOK, NEW g \in generations,
         inventory' = Index(inventory, g), g.seq >= inventory.next,
         \A h \in inventory.indexed : h.req # g.req,
         generations' = generations, replies' \subseteq inventory'.indexed
  PROVE  InventoryOK'
<1>1. /\ inventory'.next = g.seq + 1 /\ inventory'.current = g.seq
      /\ inventory'.indexed = inventory.indexed \cup {g}
      /\ inventory'.retired = inventory.retired
  BY DEF Index
<1>2. \A h \in inventory.indexed : h \in generations /\ h.seq < inventory.next
  BY DEF InventoryOK, CurrentIsNewest
<1>3. \A h \in inventory.indexed : h.seq < g.seq
  BY <1>2, Numbers
<1>4. IndexedOnce'
  <2> SUFFICES ASSUME NEW x \in inventory'.indexed, NEW y \in inventory'.indexed,
                      x.seq = y.seq \/ x.req = y.req
               PROVE  x = y
    BY DEF IndexedOnce
  <2>1. x.seq \in Nat /\ y.seq \in Nat /\ g.seq \in Nat
    BY <1>1, <1>2, Numbers
  <2>2. CASE x \in inventory.indexed /\ y \in inventory.indexed
    BY <2>2 DEF InventoryOK, IndexedOnce
  <2>3. CASE x = g \/ y = g
    BY <1>1, <1>3, <2>1, <2>3
  <2>4. QED
    BY <1>1, <2>2, <2>3
<1>5. CurrentIsNewest'
  <2>1. inventory'.indexed \subseteq generations'
    BY <1>1, <1>2
  <2>2. \A h \in inventory'.indexed : h.seq <= g.seq /\ h.seq < g.seq + 1
    BY <1>1, <1>2, <1>3, Numbers
  <2>3. g \in inventory'.indexed \ inventory'.retired
    BY <1>1 DEF InventoryOK
  <2>4. QED
    BY <1>1, <2>1, <2>2, <2>3 DEF CurrentIsNewest
<1>6. QED
  BY <1>1, <1>4, <1>5 DEF InventoryOK

\* The inventory after a retire has marked a generation.
LEMMA RetiredInventory ==
  ASSUME InventoryOK, NEW g \in inventory.indexed, g.seq # inventory.current,
         inventory' = MarkRetired(inventory, g), UNCHANGED <<generations, replies>>
  PROVE  InventoryOK'
<1>1. /\ inventory'.next = inventory.next /\ inventory'.current = inventory.current
      /\ inventory'.indexed = inventory.indexed
      /\ inventory'.retired = inventory.retired \cup {g}
  BY DEF MarkRetired
<1>2. CurrentIsNewest' /\ IndexedOnce'
  BY <1>1 DEF InventoryOK, CurrentIsNewest, IndexedOnce
<1>3. QED
  BY <1>1, <1>2 DEF InventoryOK

LEMMA BesideInventory ==
  ASSUME ExportIInv, [Next]_vars
  PROVE  InventoryOK'
<1>0. InventoryOK /\ TypeOK /\ \A p \in Procs : MemoryMatchesInventory(p)
  BY DEF ExportIInv, ExportTypeOK, InventoryOK
<1>1. CASE UNCHANGED vars \/ RemoveStaleLock
  BY <1>0, <1>1, SameInventory DEF vars, device, RemoveStaleLock
<1>2. ASSUME NEW p \in Procs,
             \/ (\E r \in Requests : StartGenerate(p, r))
             \/ (\E n \in 1..MaxSequence : StartRetire(p, n))
             \/ AcquireLock(p) \/ LockBusy(p) \/ Release(p) \/ Crash(p)
             \/ LoadInventory(p) \/ RecoverFirst(p) \/ AdoptPublished(p) \/ AdoptStage(p)
             \/ StartEmpty(p) \/ LoadRefused(p) \/ RecoverRequest(p) \/ RecoveryConflict(p)
             \/ Retire(p) \/ RetireNothing(p) \/ IOFailure(p)
      PROVE  InventoryOK'
  BY <1>0, <1>2, QuietActions, SameInventory DEF device
<1>3. ASSUME NEW p \in Procs, AdoptPublish(p) \/ Build(p) \/ SaveProvider(p) \/ Publish(p)
      PROVE  InventoryOK'
  BY <1>0, <1>3, SameInventory DEF AdoptPublish, Build, SaveProvider, Publish, device
<1>4. ASSUME NEW p \in Procs, Replay(p)
      PROVE  InventoryOK'
  <2>1. view[p] = inventory
    BY <1>0, <1>4 DEF MemoryMatchesInventory, Replay
  <2>2. UNCHANGED <<inventory, generations>> /\ replies' \subseteq inventory.indexed
    BY <1>0, <1>4, <2>1 DEF Replay, device, InventoryOK
  <2>3. QED
    BY <1>0, <2>2 DEF InventoryOK, CurrentIsNewest, IndexedOnce
<1>5. ASSUME NEW p \in Procs, WriteInitialInventory(p)
      PROVE  InventoryOK'
  <2>1. PICK g \in generations : view[p] = Index(EmptyInventory, g)
    BY <1>0, <1>5 DEF MemoryMatchesInventory, WriteInitialInventory
  <2>2. inventory = EmptyInventory
    BY <1>0, <1>5 DEF MemoryMatchesInventory, WriteInitialInventory, Missing
  <2>3. inventory' = Index(inventory, g) /\ UNCHANGED <<generations, replies>>
    BY <1>5, <2>1, <2>2 DEF WriteInitialInventory
  <2>4. g.seq >= inventory.next /\ \A h \in inventory.indexed : h.req # g.req
    BY <1>0, <2>2, Numbers DEF EmptyInventory
  <2>5. replies' \subseteq inventory'.indexed
    BY <1>0, <2>3 DEF InventoryOK, Index
  <2>6. QED
    BY <1>0, <2>3, <2>4, <2>5, IndexedInventory
<1>6. ASSUME NEW p \in Procs, WriteInventory(p)
      PROVE  InventoryOK'
  <2>1. inventory' = view[p] /\ generations' = generations
    BY <1>6 DEF WriteInventory
  <2>2. CASE cmd[p].kind = "generate"
    <3>1. PICK g \in generations :
            /\ view[p] = Index(inventory, g) /\ g.seq >= inventory.next
            /\ \A h \in inventory.indexed : h.req # g.req
      BY <1>0, <1>6, <2>2 DEF MemoryMatchesInventory, WriteInventory
    <3>2. replies' \subseteq inventory'.indexed
      BY <1>0, <1>6, <2>1, <3>1 DEF InventoryOK, WriteInventory, Index
    <3>3. QED
      BY <1>0, <2>1, <3>1, <3>2, IndexedInventory
  <2>3. CASE cmd[p].kind # "generate"
    <3>1. PICK g \in inventory.indexed \ inventory.retired :
            g.seq # inventory.current /\ view[p] = MarkRetired(inventory, g)
      BY <1>0, <1>6, <2>3 DEF MemoryMatchesInventory, WriteInventory
    <3>2. replies' = replies
      BY <1>6, <2>3 DEF WriteInventory
    <3>3. QED
      BY <1>0, <2>1, <3>1, <3>2, RetiredInventory
  <2>4. QED
    BY <2>2, <2>3
<1>7. QED
  BY <1>1, <1>2, <1>3, <1>4, <1>5, <1>6 DEF Next, Step

-----------------------------------------------------------------------------
(* Beside an export: the keys *)

\* A generation may be published when it was imported, or its key is its own.
LEMMA PublishKeepsKeysApart ==
  ASSUME KeysApart, NEW g, g.key \in minted,
         \A h \in generations : h.key = g.key => h = g,
         \/ g = LegacyGeneration(g.key)
         \/ g.key # exportKey /\ \A f \in LegacyFiles : legacy[f] # g.key,
         generations' = generations \cup {g},
         UNCHANGED <<minted, legacy, exporter, exportKey>>
  PROVE  KeysApart'
BY DEF KeysApart, LegacyGeneration

LEMMA BesideKeys ==
  ASSUME ExportIInv, [Next]_vars, UNCHANGED exportVars
  PROVE  KeysApart'
<1>0. /\ KeysApart /\ TypeOK /\ \A p \in Procs : MemoryMatchesInventory(p)
      /\ UNCHANGED <<exporter, exportKey, legacy>>
  BY LegacyUnchanged DEF ExportIInv, ExportTypeOK, exportVars
<1> USE DEF KeysApart
<1>1. CASE UNCHANGED vars \/ RemoveStaleLock
  BY <1>0, <1>1 DEF vars, device, RemoveStaleLock
<1>2. ASSUME NEW p \in Procs,
             \/ (\E r \in Requests : StartGenerate(p, r))
             \/ (\E n \in 1..MaxSequence : StartRetire(p, n))
             \/ AcquireLock(p) \/ LockBusy(p) \/ Release(p) \/ Crash(p)
             \/ LoadInventory(p) \/ RecoverFirst(p) \/ AdoptPublished(p) \/ AdoptStage(p)
             \/ StartEmpty(p) \/ LoadRefused(p) \/ RecoverRequest(p) \/ RecoveryConflict(p)
             \/ Retire(p) \/ RetireNothing(p) \/ IOFailure(p)
      PROVE  KeysApart'
  BY <1>0, <1>2, QuietActions DEF device
<1>3. ASSUME NEW p \in Procs,
             SaveProvider(p) \/ WriteInitialInventory(p) \/ WriteInventory(p) \/ Replay(p)
      PROVE  KeysApart'
  BY <1>0, <1>3 DEF SaveProvider, WriteInitialInventory, WriteInventory, Replay, device
<1>4. ASSUME NEW p \in Procs, Build(p)
      PROVE  KeysApart'
  BY <1>0, <1>4 DEF Build, device
<1>5. ASSUME NEW p \in Procs, Publish(p)
      PROVE  KeysApart'
  <2>1. generations' = generations \cup {draft[p]} /\ minted' = minted
    BY <1>5 DEF Publish
  <2>2. /\ draft[p].key \in minted /\ draft[p].key # exportKey
        /\ \A f \in LegacyFiles : legacy[f] # draft[p].key
        /\ \A g \in generations : g.key # draft[p].key
    BY <1>0, <1>5 DEF MemoryMatchesInventory, Publish
  <2>3. QED
    BY <1>0, <2>1, <2>2, PublishKeepsKeysApart
<1>6. ASSUME NEW p \in Procs, AdoptPublish(p)
      PROVE  KeysApart'
  <2>1. generations' = generations \cup {draft[p]} /\ minted' = minted
    BY <1>6 DEF AdoptPublish
  <2>2. /\ draft[p] = LegacyGeneration(draft[p].key) /\ draft[p].key \in minted
        /\ \A g \in generations : g.key = draft[p].key => g = draft[p]
    BY <1>0, <1>6 DEF MemoryMatchesInventory, AdoptPublish
  <2>3. QED
    BY <1>0, <2>1, <2>2, PublishKeepsKeysApart
<1>7. QED
  BY <1>1, <1>2, <1>3, <1>4, <1>5, <1>6 DEF Next, Step

-----------------------------------------------------------------------------
(* Beside an export: the memory of the lock holder *)

LEMMA BesideUnmoved ==
  ASSUME NEW q \in Procs, MemoryMatchesInventory(q),
         UNCHANGED <<generations, inventory, minted, legacy, exportKey>>,
         pc'[q] = pc[q], cmd'[q] = cmd[q], view'[q] = view[q], draft'[q] = draft[q]
  PROVE  MemoryMatchesInventory(q)'
BY DEF MemoryMatchesInventory, Missing, Requested

LEMMA BesideBlank ==
  ASSUME NEW q \in Procs, pc[q] \in Blank
  PROVE  MemoryMatchesInventory(q)
BY DEF MemoryMatchesInventory, Blank

LEMMA BesideOthers ==
  ASSUME ExportIInv, UNCHANGED exportVars, NEW p \in Procs, NEW q \in Procs, p # q,
         \/ (\E r \in Requests : StartGenerate(p, r))
         \/ (\E n \in 1..MaxSequence : StartRetire(p, n))
         \/ Crash(p) \/ Step(p)
  PROVE  MemoryMatchesInventory(q)'
<1>0. TypeOK /\ LockExclusive /\ MemoryMatchesInventory(q)
  BY DEF ExportIInv, ExportTypeOK
<1>1. /\ pc'[q] = pc[q] /\ cmd'[q] = cmd[q]
      /\ view'[q] = view[q] /\ draft'[q] = draft[q] /\ keyring'[q] = keyring[q]
  BY <1>0, OthersStill
<1>2. CASE pc[q] \notin Locked
  <2>1. pc'[q] \in Blank
    BY <1>0, <1>1, <1>2 DEF TypeOK, Blank
  <2>2. QED
    BY <2>1 DEF MemoryMatchesInventory, Blank
<1>3. CASE pc[q] \in Locked
  <2>1. UNCHANGED <<generations, inventory, minted, legacy, exportKey>>
    BY <1>0, <1>3, OthersQuiet DEF device, exportVars
  <2>2. QED
    BY <1>0, <1>1, <2>1, BesideUnmoved
<1>4. QED
  BY <1>2, <1>3

LEMMA BesideActor ==
  ASSUME ExportIInv, UNCHANGED exportVars, NEW p \in Procs,
         \/ (\E r \in Requests : StartGenerate(p, r))
         \/ (\E n \in 1..MaxSequence : StartRetire(p, n))
         \/ Crash(p) \/ Step(p)
  PROVE  MemoryMatchesInventory(p)'
<1>0. /\ pc \in [Procs -> {"idle", "acquire"} \cup Locked]
      /\ cmd \in [Procs -> Command]
      /\ view \in [Procs -> Inventory]
      /\ draft \in [Procs -> Generation \cup {NoGeneration}]
      /\ TypeOK /\ InventoryOK /\ KeysApart
      /\ MemoryMatchesInventory(p) /\ PositionOK(p)
      /\ UNCHANGED <<exporter, exportKey>>
  BY DEF ExportIInv, ExportTypeOK, TypeOK, InventoryOK, exportVars
<1>1. CASE \/ (\E r \in Requests : StartGenerate(p, r))
           \/ (\E n \in 1..MaxSequence : StartRetire(p, n))
           \/ AcquireLock(p) \/ LockBusy(p) \/ Release(p) \/ Crash(p)
           \/ LoadRefused(p) \/ Replay(p) \/ RecoveryConflict(p)
           \/ WriteInventory(p) \/ RetireNothing(p) \/ IOFailure(p)
  <2>1. pc'[p] \in Blank
    BY <1>0, <1>1
    DEF Blank, StartGenerate, StartRetire, AcquireLock, LockBusy, Release, Crash,
        LoadRefused, Replay, RecoveryConflict, WriteInventory, RetireNothing, IOFailure,
        Refuse, Goto
  <2>2. QED
    BY <2>1 DEF Blank, MemoryMatchesInventory
<1>2. CASE LoadInventory(p) \/ StartEmpty(p) \/ WriteInitialInventory(p)
  <2>1. pc'[p] = "lookup" /\ view'[p] = inventory'
    BY <1>0, <1>2
    DEF LoadInventory, StartEmpty, WriteInitialInventory, Goto, Views, Missing, device, memory
  <2>2. QED
    BY <2>1 DEF MemoryMatchesInventory
<1>3. CASE RecoverFirst(p) \/ AdoptPublished(p)
  <2>1. /\ pc'[p] = "initialize"
        /\ Missing(inventory)'
        /\ \E g \in generations' : view'[p] = Index(EmptyInventory, g)
    BY <1>0, <1>3
    DEF RecoverFirst, AdoptPublished, LegacyComplete, Goto, Views, Missing, device
  <2>2. QED
    BY <2>1 DEF MemoryMatchesInventory, Index, EmptyInventory
<1>4. CASE AdoptStage(p)
  <2>1. PICK k \in Keys : /\ LegacyComplete(k)
                          /\ \A g \in generations : g.seq = 1 => g.key # k
                          /\ draft'[p] = LegacyGeneration(k)
    BY <1>0, <1>4 DEF AdoptStage
  <2>2. Missing(inventory) /\ \A f \in LegacyFiles : legacy[f] = k
    BY <2>1 DEF LegacyComplete
  <2>3. k \in minted
    BY <1>0, <2>2 DEF KeysApart, LegacyFiles
  <2>4. ASSUME NEW g \in generations, g.key = k PROVE FALSE
    <3>1. g = LegacyGeneration(k)
      BY <1>0, <2>2, <2>4 DEF KeysApart, LegacyFiles
    <3>2. QED
      BY <2>1, <2>4, <3>1 DEF LegacyGeneration
  <2>5. pc'[p] = "adopt" /\ UNCHANGED <<inventory, generations, legacy, minted>>
    BY <1>0, <1>4 DEF AdoptStage, Goto, device
  <2>6. draft'[p].key = k
    BY <2>1 DEF LegacyGeneration
  <2>7. QED
    BY <2>1, <2>2, <2>3, <2>4, <2>5, <2>6 DEF MemoryMatchesInventory, Missing, LegacyGeneration
<1>5. CASE AdoptPublish(p)
  <2>1. /\ pc'[p] = "initialize" /\ inventory' = inventory
        /\ draft[p] \in generations'
        /\ view'[p] = Index(EmptyInventory, draft[p])
        /\ Missing(inventory)
    BY <1>0, <1>5 DEF AdoptPublish, Goto, MemoryMatchesInventory
  <2>2. QED
    BY <2>1 DEF MemoryMatchesInventory, Missing, Index, EmptyInventory
<1>6. CASE RecoverRequest(p)
  <2>1. view[p] = inventory /\ cmd[p].kind = "generate"
    BY <1>0, <1>6 DEF RecoverRequest, MemoryMatchesInventory, PositionOK
  <2>2. PICK g \in generations : /\ g.req = Requested(p) /\ g.seq >= inventory.next
                                 /\ view'[p] = Index(inventory, g)
    BY <1>0, <1>6, <2>1 DEF RecoverRequest, Views
  <2>3. \A h \in inventory.indexed : h.req # g.req
    BY <1>6, <2>1, <2>2 DEF RecoverRequest, Unindexed
  <2>4. pc'[p] = "index" /\ UNCHANGED <<generations, inventory, cmd>>
    BY <1>0, <1>6 DEF RecoverRequest, Goto, device
  <2>5. QED
    BY <2>1, <2>2, <2>3, <2>4 DEF MemoryMatchesInventory, Requested, Index
<1>7. CASE Build(p)
  <2>1. PICK n \in 1..MaxSequence, k \in Keys \ minted :
          /\ IsNextAvailable(n, view[p], generations)
          /\ minted' = minted \cup {k}
          /\ draft'[p] = [seq |-> n, req |-> Requested(p), key |-> k, origin |-> "generated"]
    BY <1>0, <1>7 DEF Build
  <2>2. /\ pc'[p] = "save" /\ cmd' = cmd /\ view' = view
        /\ UNCHANGED <<generations, inventory, legacy>>
    BY <1>0, <1>7 DEF Build, Goto, device
  <2>3. view[p] = inventory
    BY <1>0, <1>7 DEF Build, MemoryMatchesInventory
  <2>4. n >= inventory.next
    BY <2>1, <2>3 DEF IsNextAvailable
  <2>5. \A h \in inventory.indexed : h.req # Requested(p)
    BY <1>7, <2>3 DEF Build, Unindexed
  <2>6. /\ k # exportKey /\ \A f \in LegacyFiles : legacy[f] # k
        /\ \A g \in generations : g.key # k
    BY <1>0, <2>1, NoKeyAssumption DEF KeysApart
  <2>7. QED
    BY <1>0, <2>1, <2>2, <2>3, <2>4, <2>5, <2>6 DEF MemoryMatchesInventory, Requested
<1>8. CASE SaveProvider(p)
  <2>1. /\ pc'[p] = "publish" /\ pc[p] = "save"
        /\ UNCHANGED <<generations, inventory, legacy, minted, cmd, view, draft>>
    BY <1>0, <1>8 DEF SaveProvider, Goto, memory
  <2>2. QED
    BY <1>0, <2>1 DEF MemoryMatchesInventory, Requested
<1>9. CASE Publish(p)
  <2>1. /\ pc'[p] = "index" /\ generations' = generations \cup {draft[p]}
        /\ view'[p] = Index(view[p], draft[p])
        /\ UNCHANGED <<inventory, cmd>>
        /\ cmd[p].kind = "generate"
    BY <1>0, <1>9 DEF Publish, Goto, PositionOK
  <2>2. /\ view[p] = inventory /\ draft[p].seq >= inventory.next
        /\ draft[p].req = Requested(p)
        /\ \A h \in inventory.indexed : h.req # draft[p].req
    BY <1>0, <1>9 DEF Publish, MemoryMatchesInventory
  <2>3. QED
    BY <2>1, <2>2 DEF MemoryMatchesInventory, Requested
<1>10. CASE Retire(p)
  <2>1. /\ pc'[p] = "index" /\ UNCHANGED <<inventory, cmd>>
        /\ cmd[p].kind = "retire"
    BY <1>0, <1>10 DEF Retire, Goto, device, PositionOK
  <2>2. \E g \in inventory.indexed \ inventory.retired :
          g.seq # inventory.current /\ view'[p] = MarkRetired(inventory, g)
    BY <1>0, <1>10 DEF Retire, Views
  <2>3. QED
    BY <2>1, <2>2 DEF MemoryMatchesInventory, MarkRetired
<1>11. QED
  BY <1>1, <1>2, <1>3, <1>4, <1>5, <1>6, <1>7, <1>8, <1>9, <1>10 DEF Step

LEMMA BesideMemory ==
  ASSUME ExportIInv, [Next]_vars, UNCHANGED exportVars, NEW q \in Procs
  PROVE  MemoryMatchesInventory(q)'
<1>0. MemoryMatchesInventory(q)
  BY DEF ExportIInv
<1>1. CASE UNCHANGED vars \/ RemoveStaleLock
  BY <1>0, <1>1, BesideUnmoved DEF vars, device, memory, exportVars, RemoveStaleLock
<1>2. QED
  BY <1>1, BesideActor, BesideOthers DEF Next

-----------------------------------------------------------------------------
(* Beside an export: its own steps *)

LEMMA ExportLeavesLifecycle ==
  ASSUME ExportStep
  PROVE  UNCHANGED <<lock, generations, inventory, replies, pc, cmd, view, draft, keyring>>
BY DEF ExportStep, ExportStart, ExportTruncate, ExportStore, ExportChecksFiles,
       ExportArtifact, ExportManifest, ExportSummary, ExportStops, WriteLegacy, Untouched,
       memory

LEMMA ExportTypes ==
  ASSUME ExportIInv, ExportStep
  PROVE  ExportTypeOK'
<1>0. /\ providerFile \in {"absent", "stored", "torn"}
      /\ providerKeys \in SUBSET Keys
      /\ legacy \in [LegacyFiles -> Keys \cup {Absent, Torn}]
      /\ minted \in SUBSET Keys
      /\ exporter \in ExportPosition
      /\ exportKey \in Keys \cup {NoKey}
      /\ writeArtifact \in BOOLEAN
      /\ exporter # "idle" => exportKey \in Keys
      /\ TypeOK
  BY DEF ExportIInv, ExportTypeOK, TypeOK, KeysApart
<1>1. /\ (providerFile \in {"absent", "stored", "torn"})'
      /\ (providerKeys \in SUBSET Keys)'
      /\ (legacy \in [LegacyFiles -> Keys \cup {Absent, Torn}])'
      /\ (minted \in SUBSET Keys)'
  BY <1>0
  DEF ExportStep, ExportStart, ExportTruncate, ExportStore, ExportChecksFiles,
      ExportArtifact, ExportManifest, ExportSummary, ExportStops, WriteLegacy
<1>2. /\ (exporter \in ExportPosition)'
      /\ (exportKey \in Keys \cup {NoKey})'
      /\ (writeArtifact \in BOOLEAN)'
  BY <1>0
  DEF ExportStep, ExportStart, ExportTruncate, ExportStore, ExportChecksFiles,
      ExportArtifact, ExportManifest, ExportSummary, ExportStops, ExportEnds, ExportGoes,
      ExportPosition
<1>3. TypeOK'
  BY <1>0, <1>1, ExportLeavesLifecycle DEF TypeOK, PositionOK
<1>4. QED
  BY <1>2, <1>3 DEF ExportTypeOK

\* A key that an export writes is minted by it, and no generate has it.
LEMMA ExportKeepsKeysApart ==
  ASSUME ExportIInv, ExportStep
  PROVE  KeysApart' /\ \A p \in Procs : MemoryMatchesInventory(p)'
<1>0. /\ KeysApart /\ \A p \in Procs : MemoryMatchesInventory(p)
      /\ legacy \in [LegacyFiles -> Keys \cup {Absent, Torn}]
      /\ minted \in SUBSET Keys
      /\ UNCHANGED <<generations, inventory, pc, cmd, view, draft>>
  BY ExportLeavesLifecycle DEF ExportIInv, ExportTypeOK, TypeOK
<1>1. ASSUME minted \subseteq minted',
             exportKey' \in IF exporter' = "idle" THEN {NoKey} ELSE minted',
             exportKey' \in {exportKey, NoKey} \/ exportKey' \notin minted,
             \A f \in LegacyFiles : legacy'[f] = legacy[f] \/ legacy'[f] = exportKey,
             exporter = "idle" => legacy' = legacy
      PROVE  KeysApart' /\ \A p \in Procs : MemoryMatchesInventory(p)'
  <2>1. \A f \in LegacyFiles : legacy'[f] # legacy[f] => legacy'[f] = exportKey /\ exportKey \in minted
    BY <1>0, <1>1 DEF KeysApart
  <2>2. ASSUME NEW k \in minted, k # exportKey, \A f \in LegacyFiles : legacy[f] # k
        PROVE  k # exportKey' /\ \A f \in LegacyFiles : legacy'[f] # k
    BY <1>0, <1>1, <2>1, <2>2, NoKeyAssumption
  <2>3. KeysApart'
    BY <1>0, <1>1, <2>1, <2>2 DEF KeysApart
  <2>4. ASSUME NEW p \in Procs PROVE MemoryMatchesInventory(p)'
    BY <1>0, <1>1, <2>2 DEF MemoryMatchesInventory, Missing, Requested
  <2>5. QED
    BY <2>3, <2>4
<1>2. CASE ExportStart
  <2>1. PICK k \in Keys \ minted : minted' = minted \cup {k} /\ exportKey' = k
    BY <1>2 DEF ExportStart
  <2>2. exporter' = "truncate" /\ legacy' = legacy
    BY <1>2 DEF ExportStart
  <2>3. QED
    BY <1>1, <2>1, <2>2
<1>3. CASE ExportTruncate \/ ExportStore \/ ExportChecksFiles
  <2>1. minted' = minted /\ legacy' = legacy /\ exporter # "idle"
    BY <1>3 DEF ExportTruncate, ExportStore, ExportChecksFiles
  <2>2. \/ exporter' = "idle" /\ exportKey' = NoKey
        \/ exporter' # "idle" /\ exportKey' = exportKey
    BY <1>3 DEF ExportTruncate, ExportStore, ExportChecksFiles, ExportEnds, ExportGoes
  <2>3. QED
    BY <1>0, <1>1, <2>1, <2>2 DEF KeysApart
<1>4. CASE ExportArtifact \/ ExportManifest \/ ExportSummary
  <2>1. /\ minted' = minted /\ exporter # "idle"
        /\ \A f \in LegacyFiles : legacy'[f] = legacy[f] \/ legacy'[f] = exportKey
    BY <1>0, <1>4 DEF ExportArtifact, ExportManifest, ExportSummary, WriteLegacy
  <2>2. \/ exporter' = "idle" /\ exportKey' = NoKey
        \/ exporter' # "idle" /\ exportKey' = exportKey
    BY <1>4 DEF ExportArtifact, ExportManifest, ExportSummary, ExportEnds, ExportGoes
  <2>3. QED
    BY <1>0, <1>1, <2>1, <2>2 DEF KeysApart
<1>5. CASE ExportStops
  <2>1. minted' = minted /\ legacy' = legacy /\ exporter' = "idle" /\ exportKey' = NoKey
    BY <1>5 DEF ExportStops, ExportEnds
  <2>2. QED
    BY <1>1, <2>1
<1>6. QED
  BY <1>2, <1>3, <1>4, <1>5 DEF ExportStep

-----------------------------------------------------------------------------
(* What holds beside an export *)

LEMMA ExportInitInv == ExportInit => ExportIInv
<1> SUFFICES ASSUME ExportInit PROVE ExportIInv
  OBVIOUS
<1>1. Init
  BY DEF ExportInit, Init
<1>2. IInv /\ ExportTypeOK
  BY <1>1, InitInv DEF ExportInit, ExportTypeOK, ExportPosition, IInv
<1>3. /\ inventory = EmptyInventory /\ generations = {} /\ replies = {}
      /\ pc = [p \in Procs |-> "idle"]
  BY DEF ExportInit, CommandsIdle
<1>4. IndexedOnce /\ inventory.retired \subseteq inventory.indexed
  BY <1>3 DEF IndexedOnce, EmptyInventory
<1>5. KeysApart
  BY <1>3, NullAssumption DEF ExportInit, FreshDevice, KeysApart
<1>6. \A p \in Procs : MemoryMatchesInventory(p)
  BY <1>3, BesideBlank DEF Blank
<1>7. QED
  BY <1>2, <1>3, <1>4, <1>5, <1>6 DEF ExportIInv, IInv

LEMMA ExportNextInv == ExportIInv /\ [ExportNext]_allVars => ExportIInv'
<1>1. ASSUME ExportIInv, [Next]_vars, UNCHANGED exportVars PROVE ExportIInv'
  <2>1. TypeOK' /\ LockExclusive'
    BY <1>1, NextDataTypes, NextPositions, NextLock DEF ExportIInv, ExportTypeOK, TypeOK, DataTypes
  <2>2. ExportTypeOK'
    BY <1>1, <2>1 DEF ExportIInv, ExportTypeOK, exportVars
  <2>3. InventoryOK' /\ KeysApart' /\ \A p \in Procs : MemoryMatchesInventory(p)'
    BY <1>1, BesideInventory, BesideKeys, BesideMemory
  <2>4. QED
    BY <2>1, <2>2, <2>3 DEF ExportIInv, InventoryOK
<1>2. ASSUME ExportIInv, ExportStep PROVE ExportIInv'
  <2>1. LockExclusive' /\ InventoryOK'
    BY <1>2, ExportLeavesLifecycle
    DEF ExportIInv, LockExclusive, InventoryOK, CurrentIsNewest, IndexedOnce
  <2>2. QED
    BY <1>2, <2>1, ExportTypes, ExportKeepsKeysApart DEF ExportIInv, InventoryOK
<1>3. QED
  BY <1>1, <1>2 DEF ExportNext, allVars

\* What the lifecycle keeps of its invariant beside an export.
THEOREM ExportInductive == ExportSpec => []ExportIInv
BY ExportInitInv, ExportNextInv, PTL DEF ExportSpec

\* Beside public-bundle-export, which takes no lock and replaces the files the
\* lifecycle reads, the inventory stays consistent and replies stay idempotent.
THEOREM ExportIsSafe == ExportSpec => []ExportSafe
<1>1. ExportIInv => ExportSafe
  BY DEF ExportIInv, ExportSafe, RepliesAgree, IndexedOnce
<1>2. QED
  BY <1>1, ExportInductive, PTL

\* A write of inventory.json is a step of the ledger, beside an export too.
LEMMA BesideLedgerStep ==
  ASSUME ExportIInv, [Next]_vars
  PROVE  [Ledger!Next]_(Ledger!vars)
<1>0. /\ TypeOK /\ InventoryOK /\ KeysApart
      /\ \A p \in Procs : MemoryMatchesInventory(p)
  BY DEF ExportIInv, ExportTypeOK, InventoryOK
<1>1. CASE inventory' = inventory
  BY <1>1 DEF Ledger!vars
<1>2. ASSUME NEW g \in generations, inventory' = Index(inventory, g),
             g.seq >= inventory.next, \A h \in inventory.indexed : h.req # g.req
      PROVE  Ledger!Next
  <2>1. \A h \in inventory.indexed : h \in generations /\ h.seq < inventory.next
    BY <1>0 DEF InventoryOK, CurrentIsNewest
  <2>2. \A h \in inventory.indexed : h.seq < g.seq
    BY <1>0, <1>2, <2>1, Numbers
  <2>3. \A h \in inventory.indexed : h.key # g.key
    BY <1>0, <1>2, <2>1 DEF KeysApart
  <2>4. Ledger!Issue(g)
    BY <1>2, <2>2, <2>3 DEF Ledger!Issue, Index
  <2>5. QED
    BY <1>0, <2>4, Numbers DEF Ledger!Next
<1>3. ASSUME NEW p \in Procs, WriteInitialInventory(p) PROVE Ledger!Next
  <2>1. PICK g \in generations : inventory' = Index(inventory, g)
    BY <1>0, <1>3 DEF MemoryMatchesInventory, WriteInitialInventory, Missing
  <2>2. inventory = EmptyInventory
    BY <1>0, <1>3 DEF MemoryMatchesInventory, WriteInitialInventory, Missing
  <2>3. g.seq >= inventory.next /\ \A h \in inventory.indexed : h.req # g.req
    BY <1>0, <2>2, Numbers DEF EmptyInventory
  <2>4. QED
    BY <1>2, <2>1, <2>3
<1>4. ASSUME NEW p \in Procs, WriteInventory(p) PROVE Ledger!Next
  <2>1. CASE cmd[p].kind = "generate"
    BY <1>0, <1>2, <1>4, <2>1 DEF MemoryMatchesInventory, WriteInventory
  <2>2. CASE cmd[p].kind # "generate"
    <3>1. PICK g \in inventory.indexed \ inventory.retired :
            g.seq # inventory.current /\ inventory' = MarkRetired(inventory, g)
      BY <1>0, <1>4, <2>2 DEF MemoryMatchesInventory, WriteInventory
    <3>2. g \in Generation
      BY <1>0, <3>1 DEF TypeOK, Inventory
    <3>3. Ledger!Retire(g)
      BY <3>1 DEF Ledger!Retire, MarkRetired
    <3>4. QED
      BY <3>2, <3>3 DEF Ledger!Next
  <2>3. QED
    BY <2>1, <2>2
<1>5. ASSUME NEW p \in Procs, ~WriteInitialInventory(p), ~WriteInventory(p),
             \/ (\E r \in Requests : StartGenerate(p, r))
             \/ (\E n \in 1..MaxSequence : StartRetire(p, n))
             \/ Crash(p) \/ Step(p)
      PROVE  inventory' = inventory
  BY <1>5, QuietActions
  DEF Step, device, Replay, Build, SaveProvider, Publish, AdoptPublish
<1>6. RemoveStaleLock \/ UNCHANGED vars => inventory' = inventory
  BY DEF RemoveStaleLock, device, vars
<1>7. QED
  BY <1>1, <1>3, <1>4, <1>5, <1>6 DEF Next

\* Nothing an export does makes the lifecycle take back, repeat or reorder a
\* generation: with it, too, the lifecycle implements the append-only ledger.
THEOREM LedgerBesideExport == ExportSpec => ImplementsLedger
<1>1. ExportInit => Ledger!Init
  BY DEF ExportInit, CommandsIdle, EmptyInventory, Ledger!Init
<1>2. ExportIInv /\ [ExportNext]_allVars => [Ledger!Next]_(Ledger!vars)
  <2>1. ExportStep => UNCHANGED Ledger!vars
    BY ExportLeavesLifecycle DEF Ledger!vars
  <2>2. UNCHANGED allVars => UNCHANGED Ledger!vars
    BY DEF allVars, vars, Ledger!vars
  <2>3. QED
    BY <2>1, <2>2, BesideLedgerStep DEF ExportNext
<1>3. QED
  BY <1>1, <1>2, ExportInductive, PTL DEF ExportSpec, ImplementsLedger, Ledger!Spec
===========================================================================
