# Verification of carbonstack-comms

TLA+ models of the stateful parts of `carbonstack-comms`, checked with TLC on
small instances, and theorems about them checked with TLAPS.

## 1. The system

`carbonstack-comms` is a command-line client. Each command is a short-lived
operating-system process (`cmd/comms/main.go` dispatches to `internal/app`).
The MLS work is done by a Rust program, the OpenMLS sidecar
(`internal/protocol/mls/openmls-sidecar`), which a Comms command runs as a
child process, once per operation. Messages, KeyPackages and Welcomes travel as
envelopes through the Cypher relay, an HTTP server outside this repository.

There is no daemon and no shared memory: all state is files. Concurrency means
two commands (or a command and a sidecar whose parent has died) working on the
same directories; a crash means a process that stops between two file
operations; retries are the user running a command again.

| Component | State | Operations |
|---|---|---|
| Sidecar KeyPackage lifecycle (`keypackage_rotation.rs`) | provider storage, `generations/`, `inventory.json`, `.lifecycle-lock` | `keypackage-generate`, `keypackage-inventory`, `keypackage-retire` |
| Sidecar export (`state.rs`, `provider.rs`) | provider storage, three fixed public-bundle files | `public-bundle-export` |
| Sidecar identity (`state.rs`) | four files of a device directory | `identity-create`, `identity-status` |
| Sidecar conversations (`state.rs`) | a directory per conversation: group state in provider storage, summaries, `welcome.bin` | `conversation-create`, `-status`, `-add-member`, `-join` |
| Sidecar messages (`state.rs`) | message directories; the ratchet in the conversation's provider storage | `message-protect`, `message-open` |
| Welcome commands (`openmls_welcome_lifecycle_dev.go`, `openmls_relay_dev.go`) | a receipt and an artifact per envelope, a lock directory | `openmls-relay-welcome-consume-dev`, `openmls-relay-join-dev` |
| KeyPackage consume (`openmls_keypackage_consume_dev.go`) | a receipt and an artifact per envelope, a lock directory | `openmls-relay-keypackage-consume-dev` |
| Group commands (`openmls_relay_dev.go`, `openmls_keypackage_publication_dev.go`) | the inventory and conversations of the sidecars, envelopes | submit, publish, inbox, add-member |
| Message runtime (`openmls_runtime.go`, `message_wrappers_dev.go`) | none of its own | send, inbox |
| Relay (external) | envelopes: queued, then acknowledged | submit, inbox, acknowledge (idempotent) |
| Trust store (`trust.go`) | `trust.json`, an event log | verify, mark changed, revoke, evaluate a send |
| Identity candidates (`identity_candidate*.go`) | candidate store, history | observe, review |
| Identity decisions (`identity_mismatch.go`, `identity_recovery*.go`) | the same files, read | classify a mismatch, classify a recovery |
| Local trust (`local_trust_binding_v1.go`, `local_trust_candidate_model_dev.go`) | a value that calls take and return | observe, review, promote, change, demote, revoke |
| Onboarding (`workflow_relay_onboarding_dev.go`, `openmls_cypher_mls_mismatch_dev.go`) | a report and its temporary file; reads receipts and the group | evaluate, replay, inspect |
| Local state (`internal/state`, `commands.go`, `relay_space_*_dev.go`) | `state.json` | init, claim-invite, register-device, commands that name a server, an account or a device |
| Audits, policies, adversarial tables (`*_policy_dev.go`, `state_audit*.go`, ...) | none | print tables |

How they interact: a Comms command calls the relay over HTTP and the sidecar
as a child process, and the two are ordered by nothing but the command's own
control flow. The trust store gates `send`. Locks exist around the KeyPackage
lifecycle, the KeyPackage consume and the Welcome consume, each a directory
made with `create_dir`/`Mkdir` and removed when the command returns; a crash
leaves it. `public-bundle-export`, `openmls-relay-join-dev`, the message
commands and the trust store take no lock.

What makes each component correct:

- KeyPackage lifecycle: one generation per request id and per sequence number
  through crashes and retries; every published KeyPackage has its private key
  in provider storage; the current generation is the newest and is not retired;
  a repeated request gets the same answer; every command returns.
- Welcome and KeyPackage consume: nothing is acknowledged before it was
  processed for good; receipts never claim what did not happen; a retry never
  repeats a join; a joined Welcome is acknowledged in the end.
- Conversations and messages: a ratchet state is used for one message, a
  message is submitted and delivered once, as long as no two calls on the same
  directory overlap; a Welcome is answered only for a group that exists on disk.
- Trust: a revocation is never lost, and a message is sent only to devices the
  policy allows.
- Identity candidates: every stored candidate has its history once; a review
  moves its own candidate along an allowed transition; a revoked device blocks.
- Group handshake: nobody joins who was not added with a KeyPackage it offered;
  a Welcome is for the KeyPackage its command added, and no KeyPackage is queued
  twice, unless two add-members or two exports overlap.
- Local state: a request goes to the server that issued the account and the
  device it names.
- Identity directory: nothing is answered about a half-written identity.
- Onboarding: "ready" and "aligned" are said of complete evidence only.
- Local trust: nothing contradicted is promoted, and no contradiction is lost.

## 2. The models

Every shared variable is a file, a directory or the relay; every process has a
position `pc`, its arguments `cmd`, and the memory that later steps use. One
action is one effect on shared state, with the reads that lead to it, so that
TLC may put another command, a failure or a crash between any two effects.
A write that is not atomic (`File::create`, `os.WriteFile`, `fs::write`) is two
actions, "emptied" and "written"; a write to a temporary file and a rename is
one. Three artifacts are written in one action all the same, the KeyPackage of
an export (`state.rs:415`), message files and `welcome.bin`: a command reads one
after the call that wrote it has answered, and to another command that writes
it at the time the models give the whole file of one or the other, where it may
also be a part. `GroupHandshake` also writes provider storage
in one, since `KeyPackageExport` and `Conversation` have that write in full.

| Module | Models | Composes |
|---|---|---|
| `KeyPackageLedger` | what the KeyPackage lifecycle promises: an append-only ledger | |
| `KeyPackageRotation` | `keypackage-generate`, `keypackage-retire`, the lifecycle lock, all recoveries | implements `KeyPackageLedger` |
| `KeyPackageExport` | `public-bundle-export`, which takes no lock | extends `KeyPackageRotation` |
| `RelayDelivery` | what every inbox command promises: processed before acknowledged | |
| `WelcomeConsume` | `openmls-relay-welcome-consume-dev`, `openmls-relay-join-dev`, their sidecar children, the relay | implements `RelayDelivery` |
| `Conversation` | `conversation-create`, `conversation-add-member`, `message-protect`, `message-open` on one conversation directory | |
| `TrustPolicy` | what the trust store promises: one record per device, changed one at a time | |
| `TrustStore` | `verify-device`, `simulate-key-change`, `revoke-device`, the trust check of a send | implements `TrustPolicy` (one update at a time) |
| `KeyPackageConsume` | `openmls-relay-keypackage-consume-dev` | implements `RelayDelivery` |
| `MessageRelay` | send and inbox commands and their wrappers, the relay, the ratchet as far as it decides | implements `RelayDelivery` |
| `Admission` | what lets a device into a group: offered, admitted, entered | |
| `GroupHandshake` | submit, publish, add-member, consume and join of several devices and one owner | implements `Admission` |
| `CandidatePolicy` | a candidate store changed one candidate at a time along the allowed transitions | |
| `IdentityMismatch` | the mismatch decision, as operators | |
| `IdentityCandidates` | `ObserveIdentity...` and the review, beside trust commands | extends `IdentityMismatch`; its `trust.json` is a `TrustPolicy`; implements `CandidatePolicy` (one update at a time) |
| `IdentityRecovery` | the recovery classification and its history event | extends `IdentityMismatch` |
| `ReportFile` | a report written to a shared temporary name and renamed | |
| `RelayOnboarding` | the onboarding workflow and the Cypher/MLS inspection | extends `ReportFile` |
| `LocalState` | `state.json` and the commands that write it or ask what it names | |
| `DeviceIdentity` | `identity-create`, `identity-status`, the start of `public-bundle-export` | |
| `LocalTrustBinding` | the calls on a local trust binding v1 | |
| `LocalTrustCandidate` | the calls on a Gate C trust candidate | |
| `Device` | the six modules of a device that share no state, as parts of one specification | `LocalState`, `DeviceIdentity`, `IdentityRecovery`, `RelayOnboarding`, `LocalTrustBinding`, `LocalTrustCandidate` |

`MC*` modules hold the values TLC needs; `*Proofs` modules hold the theorems.
A definition whose comment starts with "Mutant" is a variant of the definition
below it with a plausible bug in it, to see that a property notices; the
specification does not use it.

**KeyPackageRotation.** `AcquireLock`/`LockBusy` are `acquire_lock`;
`LoadInventory`, the recovery actions and `WriteInitialInventory` are
`load_or_initialize_inventory`; `Build`, `SaveProvider`, `Publish` and
`WriteInventory` are the four effects of `generate_keypackage`. A missing
inventory and an empty one are the same value because the code never writes an
empty one. `Init` allows every state that a complete or interrupted
`public-bundle-export` leaves, since the import of the legacy KeyPackage starts
from there. Keys are drawn from a finite set of unused ones: a KeyPackage is
never built twice with one key.

**KeyPackageExport.** One export, which writes provider storage and three files
without the lock; its position advances while lifecycle commands run. Two
exports at a time are in `GroupHandshake`.

**WelcomeConsume.** The sidecar child is a state of its own: it survives the
command that started it, and its join may land after the command has crashed
and another one has the lock. Only the receipt fields on which decisions are
taken are kept. One receipt root is assumed (the default one); the sidecar
answers `joined: true` exactly when the join is on disk, and the relay
acknowledges an envelope as often as asked, both as the client code and the
test server of `internal/relay` have it. `Directory` is `safeWelcomeReceiptID`:
two envelope ids can share a directory. `RemoveStaleLock` is an operator who
deletes the lock directory that a crash left; the code never does.

**Conversation.** A group is its epoch, the number of messages this device has
protected in it, and the peer messages it has opened. That is what the OpenMLS
calls depend on: a protect uses the next key of the sender ratchet, an open
deletes the key of the message, a commit starts a new epoch. An epoch stands
for its group secret, so that a second group would get a new one. Peer
messages may belong to any epoch, also one the group never reaches. Writes of
manifests and summaries are joined with the answer, since no command reads
them, with the exception of `conversation-summary.json`, which add-member
checks. Two commands that write one file at a time may leave a text that does
not parse.

**TrustStore.** `store` is `trust.json`; `history` is what the last event of
each device in `trust-events.jsonl` says. Times, labels and account ids are
left out. No code writes the states "unverified" and "compromised" to
`trust.json`, so records have neither. Three variables exist only for the
properties: the keys the user accepted, the revocations that succeeded and were
not followed by a decision of the user about the same device, and the devices
whose last event was lost. A revocation that overlaps with another command on
the same device is not counted as one; the lost revocation of section 4 is
undone by a command on another device.

**KeyPackageConsume.** One action per effect: lock, artifact, receipt,
acknowledgement, release. `FreshConsume` and `RetryAck` are the two ways
through the command; an envelope leaves the inbox when it is acknowledged, so a
retry may find only its receipt. `Directory` is `safeKeyPackageReceiptID`, and
as in `WelcomeConsume` two ids can share one.

**MessageRelay.** A ratchet is the set of keys it has used, on disk (`storage`)
and in the memory of a sidecar call. A send checks its label (`CheckLabel`),
makes the message directory (`Reserve`), takes the next key (`Protect`), writes
the message (`WriteMessage`), empties and writes the storage (`Truncate`,
`Save`), reads it back (`Reload`), answers, and the command reads the message
file again to post it (`Submit`). A message-open loads the ratchet (`Open`) and
writes it back in the same way. None of this takes a lock: calls of other
commands fall between any two of these steps, both may pass a check, and two
that write a storage at a time may leave a text that does not parse.
`overlapped` names the storages on which that has happened, for the properties
that hold only without it. An inbox fetches once and visits its envelopes in any
order, since the order is the relay's. The four kinds of envelope that do not
open are an unsupported type, a damaged payload, a foreign group, and a message
opened before.

**GroupHandshake.** The steps of publish (read the inventory, inspect, submit),
of an export or submit (find no storage and build, write the storage, find no
artifact, write it; then read it and post it) and of an add-member (take an
envelope, write its KeyPackage, find no Welcome and make one, write it; then
read it and post it) are separate, and other commands come between them, those
on the same files included: `overlapped` names the devices and conversations on
which two exports, or two add-members, have been in their call at a time.
Generations are rotated, retired and expire in between. An update of the
inventory, which is locked, a consume and a join are one step each; the modules
named above have them in full.

**IdentityCandidates, IdentityRecovery.** A candidate stands for what it is
deduplicated by; two of them may claim one device. `Classify` and `BlocksSend`
are the decision tables of `identity_mismatch.go`, `ClassOfInput` that of
`identity_recovery.go`. A candidate is stored in whatever allowed state the
caller gives it, and its event says that state if the device is known and
"observed" if it is not (`identity_candidate_events.go:58`): store and history
agree when the one is among the states that reviews may lead to from the other.
A review appends no event; `BuildIdentityCandidateReviewHistoryDraft`, which
would make one, is called by no command. The recovery reads three files one after another while
`Change` lets anything happen to them.

**RelayOnboarding.** The evidence (group, KeyPackage receipt, Welcome receipt)
advances as the consume commands advance it; a command reads it piece by piece.
`Mismatches` is the ordered list of classifications, and `Mismatch` the first
that holds. `Foreign` says what in a receipt file contradicts the names asked
for. A report carries the request and what was seen, from which the code
computes everything else that it prints.

**LocalState.** `issuer` and `owner` are the server's tables as the client
relies on them. A command's `memory` is the record it has read; the Relay Space
commands read once to check and once to choose a server, and `target` is the
choice. A claim-invite over a registered device keeps the device beside the new
account, which `reclaimed` leaves out of the properties. `list-devices` asks
about the account of the record; with `--account` it asks about the one it is
given (`commands.go:324`), which is not modelled, since the properties are about
what is read of the state.

**DeviceIdentity.** Four files, written in the order of the code, each emptied
first. A key stands for the identity whose data a file holds.

**LocalTrustBinding, LocalTrustCandidate.** A sequential value with calls in
any order. The binding compares a change with the evidence it was observed
with; the candidate keeps only the warnings of the last observation, and
`unreviewed` and `latest` remember the rest for the properties.

**Device.** `INSTANCE`s of six modules side by side. The first state chooses a
`part`, and only that part moves, since no two of them share a file: the states
are the sum of the parts' states, not their product, and a property of one part
is stated of its behaviours. `space` is `state.json` with one command at a time.

## 3. The runs

| Run | Instance | Distinct states | Shows |
|---|---|---|---|
| `rotation` | 2 processes, 2 requests, 3 keys, 3 sequence numbers, fairness | 176,256 | published keys are stored; replies agree; implements `KeyPackageLedger`; every command returns |
| `export_beside` | 2 processes, 2 requests, 3 keys, export | 96,096 | `ExportSafe`: the current generation and the replies stay right beside the unlocked export |
| `welcome_consume` | 2 processes, 2 Welcomes, 2 labels, both commands | 861,874 | receipts are true and only advance; implements `RelayDelivery` |
| `welcome_retry` | 1 process, 2 Welcomes that share a directory, consume only, fairness | 1,192 | a Welcome joins once; a joined receipt becomes acked |
| `conversation` | 1 process, 3 labels, 3 epochs, 2 keys per epoch, 2 peer messages | 937,452 | answers are kept, keys are used once, no replay, torn storage stays unused |
| `trust_store` | 2 processes, one update at a time with sends beside it, 2 devices, 2 keys | 1,118,623 | implements `TrustPolicy`; revocation blocks; history matches; strict sends go to accepted devices |
| `identity_candidates` | 1 process, 2 candidates that claim one device | 561,564 | implements `CandidatePolicy`; history agrees; unblocked means verified |
| `keypackage_consume` | 2 processes, 3 envelopes, two sharing a directory, fairness | 39,928 | receipts are true and final; implements `RelayDelivery`; a receipt becomes acked |
| `message_relay` | 2 processes, 2 labels, 2 keys, 2 envelopes with messages or anything else, limits 1 and 2, fairness | 228,995 | without overlapping calls delivered once, submitted once; implements `RelayDelivery`; a queued message is opened |
| `group_handshake` | 2 processes, 2 devices, two generations of one, one of them published, two bundles of the other, a conversation | 916,376 | without overlapping calls a Welcome is for the member added, and a KeyPackage is queued once; implements `Admission` |
| `onboarding` | the part `inspection` of `Device` with 2 processes, 2 workflows that share a report | 1,601,835 | ready stays true; nobody is answered about another workflow |
| `device` | seven parts, see below | 979,124 | the properties of `LocalState`, `DeviceIdentity`, `IdentityRecovery`, `LocalTrustBinding`, `LocalTrustCandidate`, and `AllowedWhenAligned` for every inspection, as one conjunction for each |

Both of the last two are instances of `Device`, with the values of `MCDevice`.
The parts in `device` are: `state`, two commands on `state.json`
with 2 accounts and a device; `space`, the same file with one command at a time
and the Relay Space commands, which only then ask the right server; `identity`,
one creator and two readers with 3 keys; `recovery`, eight inputs;
`inspection`, every request, over receipts of which some are foreign;
`binding` and `candidate`, with two values per field and an event. The action
constraint `Distinct` keeps the commands of `state` and `space` apart and saves
states: the evidence of a binding has one value per field, since values are only
compared with it, and an inspection is followed by none but the same, since it
keeps nothing. The proofs of section 5 are about `Device` without it.

Why the bounds are enough. Two processes suffice for every race in this code:
it is always one command's write between another one's read and write. Two
requests and three keys let one generation be left unindexed, be overtaken by
another and be retried after it, beside the legacy import. Two Welcomes and two
labels let a command select one envelope while the other is recorded, and share
a directory or a label; the third KeyPackage envelope has a directory of its
own. Three epochs are one that is created, one after an add-member, and one for
a group that would wrongly be started anew; two keys per epoch are needed for
one to be used twice; two peer messages of different epochs give one that opens
and one that must not. Two envelopes and two labels let a message be sent twice, wait
behind another or behind an envelope that does not open, and be fetched by two
inboxes; two keys are needed for two sends to draw the same one or not. Two
generations of a device let one be retired while it is published, the other
device's bundle is what a wrong Welcome could be for, and two bundles are what
two overlapping exports build. Two devices of the trust store are needed for an update to overwrite
another one's record, two keys for a record to hold the wrong one. Two
candidates are two claims to one device, of which one shows its key; a
candidate that claims no device is left to the proofs. Where a run has one
process, either the property is about one command at a time (`conversation`,
`identity_candidates`, `space`), or liveness is asked of one
operator's retries (`welcome_retry`). Each property is also checked to fail for
at least one mutated definition of the same instance.

`trust_store` has the constraint
`UpdatesApart`: of two processes at most one updates the store, and the other
sends. Without it `RevokedBlocks` is point 3 of section 4.

Bounds named in the guards: `MaxSequence`, `Keys` (`KeyPackageRotation`),
`Epochs`, `MaxSent` (`Conversation`), `Keys` (`DeviceIdentity`), `Accounts`,
`Devices` (`LocalState`). Reaching one disables the step that needs more; a
failure or an early return keeps the command from waiting there for ever.

`Distinct`, an action constraint of `MCMessageRelay`, keeps apart what cannot
meet: sends and inboxes share only the relay, which each touches in single
steps, so that they run at different times and overlap with their own kind
only. The second label is used before any inbox has run. At most one envelope
is no message. An inbox runs when every message directory has been submitted;
two of them run at a time when no sends have overlapped before, and the second
has `--limit 1` and `--ack`. Both ways of overlapping stay in, and so do all
failures.

`Bounds`, the constraint of `MCGroupHandshake`, has three parts.
`FirstGeneration`: one generation is asked for; the other is there so that it
can be retired. `OneParty`: two commands at a time are both publications, both
exports or both of the owner, since the others meet in the relay's queue only,
which each touches in single steps. `TwoEnvelopes`: at most two KeyPackages are
queued, so that one is queued twice or one of each device once, and at most two
Welcomes, so that one may be of another KeyPackage. The proofs of section 5
are about both modules without these bounds.

Fairness. `rotation` assumes that a process the operating system runs keeps
running (`WF` of each command's step). Crashes stay possible; the bounded retry
loop of `acquire_lock` is what makes `CommandsReturn` hold behind a stale lock.
`welcome_retry` and `keypackage_consume` assume in addition that a started
sidecar ends, that the user repeats the consume of every envelope (`SF`), that
the operator removes a stale lock, and that failures and crashes stop
eventually. `keypackage_consume`, which has two processes, also assumes that
consumes run one at a time in the end: the lock is tried once, so that two of
them may lock each other out again and again. Without any of these a receipt
may stay unacknowledged for ever, and the code promises no more.
`message_relay` assumes that the receiver runs an inbox again and again (`SF`),
that processes run on, and that failures other than those of the envelopes
themselves stop. That an unopenable envelope in front does not block a message
under `--limit 1` is then due to the code: only opened envelopes count. A crash
in a save, or two saves at a time, can wreck the receiver's storage for good
(`Wrecked`); nothing opens after that, and `EveryMessageOpened` says so. The
other runs check safety and assume no fairness.

## 4. Where it stops

Places where a document, a comment or an output of the repository says more
than the code does. They are stated as properties in the modules but belong to
no run, since they do not hold; TLC refutes each in the instance given.

1. `public-bundle-export` tests for provider storage without the lifecycle lock
   (`state.rs:363`) and truncates it afterwards; the key of a generation that
   `keypackage-generate` has answered as `"provider_storage_persisted": true`
   (`keypackage_rotation.rs:1194`) can be lost. `RepliedKeysStored`, in the
   instance of `export_beside`.
2. The conversation directory has no lock. Two `message-open` of one message
   that overlap both return its plaintext (`state.rs:1843`), where
   `docs/03-message-lifecycle.md:27` has "Replay state is checked."
   `ReplayRefused`, with two processes. (`KeysUsedOnce` and `AnswersKept` hold
   for one command at a time only, for the same reason.) The properties of the
   commands around it are therefore stated of behaviours in which no two calls
   on the same files overlap (`overlapped`); in the instances of `message_relay`
   and `group_handshake` TLC refutes each of them without that hypothesis:
   two inboxes print one message (`DeliveredOnce`); two sends of one label both
   pass `state.rs:1649`, and one message is submitted twice, or two with one key
   (`SubmittedOnce`); two add-members both pass `state.rs:889`, one overwrites
   `welcome.bin` (`state.rs:972`) and the command of the other sends it
   (`openmls_relay_dev.go:366`), where it is to be the Welcome of its own member
   (`WelcomeIsForMember`); two exports of a device both pass
   `state.rs:363-402`, and one artifact is submitted twice (`QueuedOnce`).
3. The trust commands read, change and write the whole store without a lock.
   Verifying one device can undo the revocation of another (`trust.go:153`),
   where `docs/06-trust-state-model-v0.md:118` has "revoked blocks even in dev
   mode". `RevokedBlocks`, with two processes.
4. Likewise two reviews of candidates: one writes back a candidate the other
   has rejected (`identity_candidate_review.go:42`), where
   `docs/15-candidate-review-update-priority-v0.md:68` forbids "rejected ->
   unverified". `RejectedIsSticky`, with two processes.
5. A recovery is classified by the first missing or corrupt file
   (`identity_recovery.go:123`) before the known device is looked at, so a
   revoked one is answered without a promotion block, where its own reason says
   "known device is revoked; recovery promotion is blocked"
   (`identity_recovery.go:159`). `RevokedBlocksRecovery`.
6. A generation retired between the inventory and the submission is published
   (`openmls_keypackage_publication_dev.go:158`), where the argument is an
   "existing active KeyPackage generation ID" (`:71`). `PublishedIsActive`,
   in the instance of `group_handshake`.
7. An inbox acknowledges a message before it prints it and stores it nowhere
   (`openmls_runtime.go:336`); a command that dies in between has lost it, where
   `docs/03-message-lifecycle.md:31` has "Message is stored in local secure
   vault." `AcknowledgedIsKept`.
8. `--mls-group-state auto` looks at a path that nothing writes
   (`openmls_cypher_mls_mismatch_dev.go:125`), so an existing group is reported
   absent. `AutoSeesGroup`.
9. A stored onboarding report answers every call for its workflow, space and
   device, whatever the member and group state of that call
   (`workflow_relay_onboarding_dev.go:145`), where the write policy calls the
   replay "exact" (`state_write_policy_dev.go:265`). `ReplayIsExact`.
10. All onboarding reports share one temporary file name
    (`workflow_relay_onboarding_dev.go:426`); of two commands one can publish
    the file that the other has just emptied, where the write policy has
    "atomic_temp_write_then_rename" (`state_write_policy_dev.go:262`).
    `ReportIsWhole`.
11. While another command writes `state.json`, `relay-space-member-state-dev`
    finds it empty on its second read and asks the default server
    (`state.go:97`), where the flag has "explicit local Comms state path
    controlling server context" (`relay_space_member_state_dev.go:21`).
    `StateControlsServer`, with two processes.
12. Two `identity-create` that overlap both find no identity, and the slower
    one overwrites the files of the other (`state.rs:96`), where a second create
    is answered with "refusing overwrite" (`envelope.rs:703`). `IdentityStays`,
    with two creators.

## 5. What is proved

All theorems hold for every value of the constants that meets the named
assumptions. Those only say that null values differ from real ones
(`RequestAssumption`, `NullAssumption`, `NoEnvelopeAssumption`,
`NoReceiptAssumption`, `NoEpochAssumption`, `AbsentAssumption`, `KeyAssumption`,
`TornAssumption`, `StoreAssumption`) and give the constants their types
(`SequenceAssumption`, `KindAssumption`, `DirectoryAssumption`, `SentAssumption`,
`PeerAssumption`, `ConsumeAssumption`, `MessageAssumption`,
`HandshakeAssumption`, `MismatchAssumption`, `DeviceAssumption`, which collects
those of the parts of a device, `OnboardingAssumption` among them).
In each module one invariant `IInv` is inductive; the safety properties are
conjuncts or consequences of it, and action properties and refinements follow
from one step taken from a state that satisfies it.

- `KeyPackageRotationProofs`: `TypeCorrect`, `Inductive`, `LockIsExclusive`,
  `RequestsAreIdempotent`, `KeysArePersisted`, `InventoryIsCurrent`,
  `RepliesAreStable`, `LedgerRefinement`. The safety properties alone are not
  inductive: a step that publishes or indexes does so on the strength of what
  the process read before. `MemoryMatchesDisk` says, position by position, that
  this still holds for the lock holder; `LegacyFirst` that nobody generates
  while the legacy KeyPackage is not imported; `KeysAccounted` that no key on
  disk can be drawn again.
  Beside an export, whose steps fall anywhere between those of the lifecycle:
  `ExportInductive`, `ExportIsSafe`, `LedgerBesideExport`. The export overwrites
  the provider storage and the legacy files without the lock, so what the
  lifecycle knows of them is lost: `KeysArePersisted` has no counterpart (point 1
  of section 4), nor has `RequestsAreIdempotent`, since a first generation that
  was published and not yet indexed may find a bundle beside it, which is then
  imported under the same sequence number. What remains is the inventory's own
  consistency, which the lock and `validate_inventory` keep: the lock holder's
  inventory is the one on disk (`MemoryMatchesInventory`), it names one
  generation per request and sequence number (`IndexedOnce`), and no generated
  key is that of an export (`KeysApart`). So `inventory.json` still implements
  the append-only ledger.
- `WelcomeConsumeProofs`: `TypeCorrect`, `Inductive`, `ReceiptsAreTruthful`,
  `ReceiptsOnlyAdvance`, `DeliveryRefinement` for both commands;
  `WelcomeJoinsOnce` and `EvidencePrecedesAck` under `Kinds = {"consume"}`
  (with `openmls-relay-join-dev`, which keeps no receipt, they do not hold).
  `ConsumeMemory` ties the lock holder's receipt in memory to the one on disk,
  `JoinMemory` ties what a command believes of its child to the conversation
  directory. The last two theorems need `ConsumeInv` of the proofs module: every
  join, running or done, has a receipt for its Welcome and its label, and a
  receipt is never replaced.
- `ConversationProofs`, under `OneProcess`: `Inductive`, `AnswersAreKept`,
  `NoKeyUsedTwice`, `NoMessageOpensTwice`, `TornStaysTorn`, `TypeCorrect`. One process is the
  case in which the user (or the Comms command that waits for its sidecar) runs
  one sidecar command at a time; without it point 2 of section 4 is the
  counterexample. The invariant follows the answers, not the files: a message
  file may hold a key that is used again, when its protect failed, but the
  group in memory is ahead of every answer (`MemoryAhead`), output files agree
  with it (`OutputWritten`), and so does the storage once it is written
  (`StoreFollows`).
- `TrustStoreProofs`, for any number of processes without a lock:
  `TypeCorrect`, `Inductive`, `VerifiedKeysWereAccepted`,
  `StrictSendsGoToAccepted`. `Justified` says that every verified record in a
  process's memory has an accepted key, so that a store written back late is
  still justified. `SerialInductive`, `HistoryIsTrue`, `RevokedIsBlocked` and
  `PolicyRefinement` are about the behaviours in which updates do not overlap
  (`Spec /\ []UpdatesApart`), with any number of sends beside them and any
  failure or crash within them; without that hypothesis point 3 of section 4 is
  the counterexample. Their invariant (`Serial`) says that the memory of the
  only update is the store it is about to change, as far as it is readable, that
  a revoked device is revoked in both, and how far the history is behind.
- `KeyPackageConsumeProofs`: `Inductive`, `ReceiptsAreTrue`, `ConsumedIsFinal`,
  `DeliveryRefinement`. `Position` ties the receipt in the memory of the lock
  holder to the files of its directory, and `AckedArePersisted` ties the relay
  to the receipts; without the lock's exclusion neither is inductive.
- `MessageRelayProofs`: `Inductive`, `MessageDeliveredOnce`,
  `MessageSubmittedOnce`, `DeliveryRefinement`. There is no lock to lean on, so
  the second and third are about behaviours in which no two opens, or no two
  protects, overlap, with everything else of any number of commands in between;
  without that point 2 of section 4 is the counterexample. As long as a storage
  is not `overlapped`, the one call on it is `Alone` and `SendPosition` and
  `OpenPosition` say what it has done to the files so far. `SpentForGood` says
  that the key of a message that was submitted, or is about to be, is in the
  storage and below every key in a memory; `UsedForGood` the same of printed
  messages; they are what makes a message unique after the call that made it has
  ended. `DeliveryRefinement` holds whatever overlaps.
- `GroupHandshakeProofs`: `Inductive`, `WelcomeGoesToMember`,
  `KeyPackageQueuedOnce`, `AdmissionRefinement`. `AddSafe` says that an
  add-member whose conversation no other has overlapped is alone and the first,
  so that the Welcome its command reads after the call is its own. `ExportSafe`
  says the same of exports of a device, and that the storage which an export
  leaves refuses the next one. `Evidence` is the chain from a posted KeyPackage
  over the kept file and the Welcome made for it to the join; each link only
  grows, whatever overlaps, and `AdmissionRefinement` needs no hypothesis.
- `DeviceProofs`, about the candidate store beside a changing trust store, for
  any number of processes without a lock: `Inductive`, `UnblockedIsVerified`,
  `RevokedIsFinal`. `Decided` ties a decision to a record that the device had
  while the observation ran. While updates of the candidate store do not overlap
  (`[]UpdatesApart`): `SerialInductive`, `HistoryAgreement` and
  `CandidatePolicyRefinement`. Here `Serial` has to say in addition where between
  its save and its event an update is, since in between store and history
  disagree about its candidate and about no other.
- `DeviceProofs`, about the parts of a device. `DeviceInductive` is the
  conjunction of their invariants; the parts share no variable, so each step is
  one part's step and a stutter of the others. From it:
  - `StateStaysSound`, for any number of commands between whose Load and Save
    others run: every record in a file or in memory is `Sound`, that is, its
    account was issued by its server and its device to its account, and issuing
    never changes, so a record stays sound however late it is saved; the devices
    kept by a second claim (`reclaimed`) are excepted. One command
    at a time (`space`), the record in memory is the one on disk until the
    command has chosen its server (`SpacePosition`).
  - `RecoveryStaysSound`: each of the three reads returned a condition that its
    file had since the command started (`Position`), and the answer is the first
    damage among them or the decision on the input (`AnswerPosition`).
  - `InspectionStaysSound`: the list of thirteen classifications is taken in its
    order, and "aligned" is the first that holds of exactly the states named by
    `AllowedWhenAligned`. The proof goes from the `CHOOSE` of the first index to
    a least element of a set of naturals (`FirstOf`).
  - `ReadyIsKept`, `OwnWorkflow`: whatever was read as "acked" is acked for good
    (`Dated`), and this holds of what is in memory, in either report file and in
    any answer, so neither a late overwrite nor a replay makes a ready report
    false. A joined Welcome has its group (`JoinedHaveGroup`).
  - `LocalTrustStaysSound`: the warnings of a binding accumulate and those of a
    candidate are the contradictions of its latest observation; promotion needs
    an event and a state that no contradiction leads to.
  - `IdentityStaysWhole`, `IdentityIsKept`, for any number of readers beside
    one creating process (`OneCreator`; with two, point 12 of section 4 is the
    counterexample): the files are written in one order (`Ordered`), so whoever
    sees the last one with a key sees all of them with it.

The type invariants, the invariants `IInv`, and `LockExclusive`,
`OneGenerationPerRequest`, `CurrentIsNewest`, `EvidenceBeforeAck`,
`VerifiedWasAccepted` and `RevokedBlocksPromotion` are proved and belong to no
run (`CurrentIsNewest` does beside the export, in `ExportSafe`): each was found
to hold by TLC in the instance of its module before it was proved.

Every safety invariant, action property and refinement that a run checks is
proved. Only model-checked: liveness (`CommandsReturn`, `JoinedGetsAcked`,
`ReceiptGetsAcked`, `EveryMessageOpened`), which is out of the prover's reach.

## 6. What is not modelled

- Argument parsing, JSON output, path building, HTTP encoding, the KeyPackage
  decoder, static audit, policy and adversarial tables, provider event
  conversions: no state, or pure conversion. The state vault adapter refuses
  every operation. Together with tests these are most of the lines that no
  definition is mapped to.
- Cryptography: keys are atoms, a message opens or does not.
- The mock encryption of the first prototype and the research sidecars.
- A first `keypackage-generate` that stops between the provider save and the
  rename leaves a device on which every later one answers
  `incomplete_legacy_keypackage_state`; likewise a crash between a join and its
  receipt leaves `incomplete_welcome_consume`. Both are in the models, and no
  property says otherwise because the code and its documents promise no way
  out.
- What a second claim-invite does to a registered device, and whether a revoked
  binding or candidate may be promoted again: the code allows it and no
  document decides it, so no property is stated.

## 7. Plan

Done, most important first: the KeyPackage lifecycle and the export beside it,
the three commands that take envelopes from the relay (Welcomes, KeyPackages,
messages), conversations, the way into a group, the trust store and the
identity candidates, onboarding, local state, the identity directory, recovery
and local trust, each with its specification and its proofs.

What would come next: `MessageRelay` over several epochs, with the group of
`Conversation` in place of the one ratchet; what can be said of a generation that is
retired while `openmls-relay-keypackage-publish-dev` submits it (point 6 of
section 4); and the lifecycle's own guarantees beside an export that only runs
before the first `keypackage-generate`.
