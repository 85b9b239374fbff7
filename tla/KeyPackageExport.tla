-------------------------- MODULE KeyPackageExport --------------------------
(***************************************************************************)
(* public-bundle-export of state.rs beside the KeyPackage lifecycle.  The  *)
(* command writes the provider storage and the fixed legacy files of the   *)
(* same device, but takes no lifecycle lock and replaces no file           *)
(* atomically: it looks for existing provider storage once, before its     *)
(* first write, and File::create then truncates whatever is there.         *)
(***************************************************************************)
EXTENDS KeyPackageRotation

CONSTANT NoKey  \* no key in the exporter's memory

ASSUME NoKeyAssumption == NoKey \notin Keys

VARIABLES
  exporter,     \* position of the export command
  exportKey,    \* the key of the KeyPackage it has built
  writeArtifact \* --write-artifact was given

exportVars == <<exporter, exportKey, writeArtifact>>
allVars == <<vars, exportVars>>

ExportPosition == {"idle", "truncate", "store", "artifact", "write_artifact",
                   "manifest", "summary"}

ExportInit ==
  /\ FreshDevice
  /\ CommandsIdle
  /\ exporter = "idle"
  /\ exportKey = NoKey
  /\ writeArtifact = FALSE

ExportEnds ==
  /\ exporter' = "idle"
  /\ exportKey' = NoKey
  /\ writeArtifact' = FALSE

ExportGoes(label) == exporter' = label /\ UNCHANGED <<exportKey, writeArtifact>>

\* What an export never touches.
Untouched == <<lock, generations, inventory, replies, pc, cmd, memory>>

\* Build the KeyPackage in memory and check once that there is no provider
\* storage; AlreadyExists otherwise, which changes nothing.
ExportStart ==
  /\ exporter = "idle"
  /\ providerFile = "absent"
  /\ \E k \in Keys \ minted, full \in BOOLEAN :
       /\ minted' = minted \cup {k}
       /\ exportKey' = k
       /\ writeArtifact' = full
  /\ exporter' = "truncate"
  /\ UNCHANGED <<Untouched, providerFile, providerKeys, legacy>>

\* save_storage_to_path: File::create empties the file, the JSON follows.
ExportTruncate ==
  /\ exporter = "truncate"
  /\ providerFile' = "torn"
  /\ providerKeys' = {}
  /\ ExportGoes("store")
  /\ UNCHANGED <<Untouched, legacy, minted>>

ExportStore ==
  /\ exporter = "store"
  /\ providerFile' = "stored"
  /\ providerKeys' = {exportKey}
  /\ ExportGoes(IF writeArtifact THEN "artifact" ELSE "summary")
  /\ UNCHANGED <<Untouched, legacy, minted>>

\* The artifact and the manifest must not exist.
ExportChecksFiles ==
  /\ exporter = "artifact"
  /\ IF Present("artifact") \/ Present("manifest")
       THEN ExportEnds
       ELSE ExportGoes("write_artifact")
  /\ UNCHANGED <<Untouched, providerFile, providerKeys, legacy, minted>>

WriteLegacy(f) ==
  /\ legacy' = [legacy EXCEPT ![f] = exportKey]
  /\ UNCHANGED <<Untouched, providerFile, providerKeys, minted>>

ExportArtifact ==
  /\ exporter = "write_artifact"
  /\ WriteLegacy("artifact")
  /\ ExportGoes("manifest")

ExportManifest ==
  /\ exporter = "manifest"
  /\ WriteLegacy("manifest")
  /\ ExportGoes("summary")

\* The summary is written with or without an artifact; it ends the command.
ExportSummary ==
  /\ exporter = "summary"
  /\ WriteLegacy("summary")
  /\ ExportEnds

\* The process dies, or a write fails: nothing is undone.
ExportStops ==
  /\ exporter # "idle"
  /\ ExportEnds
  /\ UNCHANGED <<Untouched, providerFile, providerKeys, legacy, minted>>

ExportStep ==
  \/ ExportStart \/ ExportTruncate \/ ExportStore \/ ExportChecksFiles
  \/ ExportArtifact \/ ExportManifest \/ ExportSummary \/ ExportStops

ExportNext ==
  \/ ExportStep
  \/ Next /\ UNCHANGED exportVars

ExportSpec == ExportInit /\ [][ExportNext]_allVars

-----------------------------------------------------------------------------
(* Properties *)

\* The exporter's memory, beside the types of the lifecycle.
ExportTypeOK ==
  /\ TypeOK
  /\ exporter \in ExportPosition
  /\ exportKey \in Keys \cup {NoKey}
  /\ writeArtifact \in BOOLEAN

\* Beside an export, which takes no lock, the current generation is still the
\* newest, and a repeated request still gets the generation it was answered first.
ExportSafe == ExportTypeOK /\ CurrentIsNewest /\ RepliesAgree

\* keypackage-generate answers "provider_storage_persisted": true; the private
\* key of a generation it has returned should be in the provider storage.  An
\* export that overlaps a generate breaks this (README, "Where it stops").
RepliedKeysStored == \A g \in replies : g.key \in providerKeys

-----------------------------------------------------------------------------
(* The inductive invariant beside an export.  The provider storage, the      *)
(* legacy files and the uniqueness of the published directories are not in   *)
(* it: an export breaks what the lifecycle alone keeps of them.              *)

\* inventory.json names one generation per sequence number and request.
IndexedOnce ==
  \A g, h \in inventory.indexed : g.seq = h.seq \/ g.req = h.req => g = h

\* Every key on disk or in memory was minted, and no two uses share one: a
\* generated key is never that of an export.
KeysApart ==
  /\ exportKey \in IF exporter = "idle" THEN {NoKey} ELSE minted
  /\ \A f \in LegacyFiles : legacy[f] \in Keys => legacy[f] \in minted
  /\ \A g \in generations : g.key \in minted
  /\ \A g, h \in generations : g.key = h.key => g = h
  /\ \A g \in generations :
       \/ g = LegacyGeneration(g.key)
       \/ g.key # exportKey /\ \A f \in LegacyFiles : legacy[f] # g.key

\* What the memory of the lock holder says about the inventory.
MemoryMatchesInventory(p) ==
  /\ pc[p] \in {"lookup", "save", "publish"} => view[p] = inventory
  /\ pc[p] \in {"adopt", "initialize"} => Missing(inventory)
  /\ pc[p] = "adopt" =>
       /\ draft[p] = LegacyGeneration(draft[p].key)
       /\ draft[p].key \in minted
       /\ \A g \in generations : g.key = draft[p].key => g = draft[p]
  /\ pc[p] = "initialize" =>
       \E g \in generations : view[p] = Index(EmptyInventory, g)
  /\ pc[p] \in {"save", "publish"} =>
       /\ draft[p].seq >= inventory.next
       /\ draft[p].req = Requested(p)
       /\ draft[p].key \in minted
       /\ draft[p].key # exportKey
       /\ \A f \in LegacyFiles : legacy[f] # draft[p].key
       /\ \A g \in generations : g.key # draft[p].key
       /\ \A h \in inventory.indexed : h.req # draft[p].req
  /\ pc[p] = "index" /\ cmd[p].kind = "generate" =>
       \E g \in generations :
         /\ view[p] = Index(inventory, g)
         /\ g.seq >= inventory.next
         /\ g.req = Requested(p)
         /\ \A h \in inventory.indexed : h.req # g.req
  /\ pc[p] = "index" /\ cmd[p].kind # "generate" =>
       \E g \in inventory.indexed \ inventory.retired :
         /\ g.seq # inventory.current
         /\ view[p] = MarkRetired(inventory, g)

ExportIInv ==
  /\ ExportTypeOK
  /\ LockExclusive
  /\ CurrentIsNewest
  /\ IndexedOnce
  /\ replies \subseteq inventory.indexed
  /\ inventory.retired \subseteq inventory.indexed
  /\ KeysApart
  /\ \A p \in Procs : MemoryMatchesInventory(p)
=============================================================================
