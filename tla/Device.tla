------------------------------- MODULE Device -------------------------------
(***************************************************************************)
(* The files and the decisions of one device that share no state: a        *)
(* behaviour is a behaviour of one part, which is chosen at the start, and *)
(* the variables of the other parts keep their initial values.             *)
(***************************************************************************)

CONSTANTS
  Parts,                                     \* the parts that are looked at
  Writers, Servers, DefaultServer, Accounts, OwnDevices,           \* state.json
  Creators, Readers, SignerKeys,                           \* identity directory
  Classifiers, Inputs,                              \* recovery classifications
  Inspectors, KeyPackages, Welcomes, Workflows, Foreign, Requests, \* onboarding
  Values, Events,                                               \* local trust
  Nothing, Absent, Empty, TornFile

VARIABLES
  part,
  stateFile, issuer, owner, statePc, stateCmd, stateMemory, target, reclaimed, named,
  identityFile, identityPc, identityCmd, at, key, identityAnswer, created,
  recoveryFile, recoveryPc, input, recoveryAnswer, held,
  group, kp, welcome, tmp, published, handle, inspectPc, inspectCmd, inspectSeen, inspectAnswer,
  binding, changes,
  candidate, unreviewed, latest

stateVars ==
  <<stateFile, issuer, owner, statePc, stateCmd, stateMemory, target, reclaimed, named>>
identityVars == <<identityFile, identityPc, identityCmd, at, key, identityAnswer, created>>
recoveryVars == <<recoveryFile, recoveryPc, input, recoveryAnswer, held>>
inspectVars ==
  <<group, kp, welcome, tmp, published, handle, inspectPc, inspectCmd, inspectSeen, inspectAnswer>>
bindingVars == <<binding, changes>>
candidateVars == <<candidate, unreviewed, latest>>

deviceVars ==
  <<part, stateVars, identityVars, recoveryVars, inspectVars, bindingVars, candidateVars>>

State == INSTANCE LocalState WITH
  Procs <- Writers,
  Kinds <- {"init", "claim", "register", "list", "use", "invite", "space", "member"},
  Devices <- OwnDevices, Torn <- TornFile,
  state <- stateFile, pc <- statePc, cmd <- stateCmd, memory <- stateMemory

Identity == INSTANCE DeviceIdentity WITH
  Procs <- Creators \cup Readers, Keys <- SignerKeys, Torn <- TornFile,
  file <- identityFile, pc <- identityPc, cmd <- identityCmd, answer <- identityAnswer

\* The sets of candidates, devices and keys play no part in it.
Recovery == INSTANCE IdentityRecovery WITH
  Procs <- Classifiers,
  Candidates <- {}, Devices <- {}, NoDevice <- Nothing, Claims <- <<>>, Keys <- {}, Shows <- <<>>,
  file <- recoveryFile, pc <- recoveryPc, answer <- recoveryAnswer

Inspection == INSTANCE RelayOnboarding WITH
  Procs <- Inspectors, Torn <- TornFile,
  NoPath <- Nothing, NoRequest <- Nothing, NoAnswer <- Nothing,
  pc <- inspectPc, cmd <- inspectCmd, seen <- inspectSeen, answer <- inspectAnswer

Binding == INSTANCE LocalTrustBinding WITH Missing <- Nothing, NoBinding <- Absent, seen <- changes

Candidate == INSTANCE LocalTrustCandidate WITH Missing <- Nothing, NoCandidate <- Absent

ASSUME DeviceAssumption ==
  /\ State!ServerAssumption /\ State!NothingAssumption /\ State!UnreadableAssumption
  /\ Identity!KeyAssumption
  /\ Recovery!InputsAssumption /\ Inspection!OnboardingAssumption
  /\ Binding!MissingAssumption /\ Candidate!MissingAssumption

-----------------------------------------------------------------------------
DeviceInit ==
  /\ part \in Parts
  /\ State!Init /\ Identity!Init /\ Recovery!Init
  /\ Inspection!Init /\ Binding!Init /\ Candidate!Init
  /\ part # "recovery" => recoveryFile = [f \in {"trust", "history", "candidates"} |-> "absent"]

StateNext ==
  /\ part = "state"
  /\ State!Next
  /\ UNCHANGED <<identityVars, recoveryVars, inspectVars, bindingVars, candidateVars>>

\* state.json with one command at a time.
SpaceNext ==
  /\ part = "space"
  /\ State!Next
  /\ \A p, q \in Writers : statePc'[p] # "idle" /\ statePc'[q] # "idle" => p = q
  /\ UNCHANGED <<identityVars, recoveryVars, inspectVars, bindingVars, candidateVars>>

IdentityNext ==
  /\ part = "identity"
  /\ Identity!Next
  /\ UNCHANGED <<stateVars, recoveryVars, inspectVars, bindingVars, candidateVars>>

RecoveryNext ==
  /\ part = "recovery"
  /\ Recovery!Next
  /\ UNCHANGED <<stateVars, identityVars, inspectVars, bindingVars, candidateVars>>

InspectionNext ==
  /\ part = "inspection"
  /\ Inspection!Next
  /\ UNCHANGED <<stateVars, identityVars, recoveryVars, bindingVars, candidateVars>>

BindingNext ==
  /\ part = "binding"
  /\ Binding!Next
  /\ UNCHANGED <<stateVars, identityVars, recoveryVars, inspectVars, candidateVars>>

CandidateNext ==
  /\ part = "candidate"
  /\ Candidate!Next
  /\ UNCHANGED <<stateVars, identityVars, recoveryVars, inspectVars, bindingVars>>

DeviceNext ==
  /\ \/ StateNext \/ SpaceNext \/ IdentityNext \/ RecoveryNext
     \/ InspectionNext \/ BindingNext \/ CandidateNext
  /\ UNCHANGED part

DeviceSpec == DeviceInit /\ [][DeviceNext]_deviceVars

-----------------------------------------------------------------------------
(* Properties of the parts, each stated in its module, in the states of its part *)

\* A state.json never pairs a server, an account and a device of different
\* commands, and a request goes to the server that issued what it names.  With one
\* command at a time, a Relay Space claim asks the server that issued its account,
\* and a member change a server that the state has named.
StateIsSound ==
  /\ part \in {"state", "space"} =>
       State!TypeOK /\ State!StateIsIssued /\ State!RequestsAreIssued
  /\ part = "space" => State!SpaceClaimsAreIssued /\ State!StateControlsServer

\* A half-written identity is never answered, and a public bundle is signed by the
\* identity it names, whatever create is half done.
IdentityIsWhole ==
  part = "identity" => Identity!AnsweredIsWhole /\ Identity!BundleSignedByIdentity

\* No create touches the files of an identity that was answered as created.
IdentityStays == Identity!IdentityStays

\* A recovery classification names the damage the files had while it ran; with
\* sound files, nothing that calls for a block is let through.
RecoveryIsSound ==
  part = "recovery" =>
    Recovery!TypeOK /\ Recovery!ReportsAgree /\ Recovery!CleanIsHarmless

\* An inspection says aligned of all the evidence together, or of none.
InspectionIsSound ==
  part = "inspection" => Inspection!TypeOK /\ Inspection!AllowedWhenAligned

\* A ready report is and stays true, however it is overwritten and replayed.
ReadyStaysTrue == Inspection!ReadyStaysTrue

\* No command is answered about another workflow.
AnswersOwnWorkflow == Inspection!AnswersOwnWorkflow

\* A binding, or a candidate, that is promoted has had its event and no
\* contradiction; what contradicts it stays among the warnings of the binding, and
\* the candidate waits for the operator.
LocalTrustIsSound ==
  /\ part = "binding" => Binding!PromotedIsClean /\ Binding!ChangeIsLoud
  /\ part = "candidate" =>
       Candidate!PromotedIsUncontradicted /\ Candidate!ChangeWaitsForOperator

-----------------------------------------------------------------------------
(* The inductive invariant; the identity has one of its own, for one creator *)

DeviceIInv ==
  /\ State!IInv /\ Recovery!IInv /\ Inspection!IInv /\ Binding!IInv /\ Candidate!IInv
  /\ part = "space" => State!SpaceIInv
=============================================================================
