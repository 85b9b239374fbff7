------------------------- MODULE IdentityCandidates -------------------------
(***************************************************************************)
(* identity-candidates.json: observing candidate identities, which also    *)
(* consults trust.json and appends to trust-events.jsonl, and reviewing    *)
(* them, which does not.  Each update reads the whole store, changes it in *)
(* memory and writes it back with os.WriteFile, which empties the file     *)
(* first; nothing takes a lock.  The trust store changes meanwhile as      *)
(* TrustPolicy says.  An action is one effect on a file.                   *)
(*                                                                         *)
(*   trust       trust.json: torn, or the record of each device            *)
(*   candidates  identity-candidates.json: torn, or each candidate's state *)
(*   history     for each candidate, how many events of its observation    *)
(*               trust-events.jsonl has, and the state the last one says   *)
(*   pc, cmd     position and arguments of each process                    *)
(*   memory      the candidate store a process has loaded, and changed     *)
(*   decision    what an observation has decided of its candidate          *)
(*                                                                         *)
(* and, to state properties,                                               *)
(*                                                                         *)
(*   unrecorded  candidates that were stored and whose event was not       *)
(*               written                                                   *)
(*   seen        the records that the device of a candidate had while it   *)
(*               was observed, until the trust store was consulted         *)
(***************************************************************************)
EXTENDS IdentityMismatch, Naturals

CONSTANTS Procs, NoKey, Torn

VARIABLES trust, candidates, history, pc, cmd, memory, decision, unrecorded, seen

vars == <<trust, candidates, history, pc, cmd, memory, decision, unrecorded, seen>>

TrustStore == INSTANCE TrustPolicy WITH Lost <- Torn

Record == TrustStore!Record \cup {TrustStore!Unknown}

Store == [Candidates -> CandidateState \cup {"none"}]
NoStore == [c \in Candidates |-> "none"]

\* Observations are counted up to MaxObservations.
MaxObservations == 2
Entry == [observations : 0..MaxObservations, last : CandidateState \cup {"none"}]
NoEntry == [observations |-> 0, last |-> "none"]

\* An event of an observation, with the state it says the candidate is in.
ObservedEntry(e, state) ==
  [observations |-> IF e.observations = MaxObservations THEN MaxObservations
                    ELSE e.observations + 1,
   last |-> state]

\* An observed candidate comes in a state of the caller's choice, a review asks
\* for one.
Command == [kind : {"observe", "review"}, candidate : Candidates, state : CandidateState]
NoCommand == [kind |-> "none"]

Decision == [class : Classification, blocksSend : BOOLEAN]
NoDecision == [class |-> "none"]

ASSUME StoreAssumption == NoKey \notin Keys /\ Torn \notin [Devices -> Record] \cup Store

-----------------------------------------------------------------------------
Goto(p, label) == pc' = [pc EXCEPT ![p] = label]

Return(p) ==
  /\ Goto(p, "idle")
  /\ cmd' = [cmd EXCEPT ![p] = NoCommand]
  /\ memory' = [memory EXCEPT ![p] = NoStore]
  /\ decision' = [decision EXCEPT ![p] = NoDecision]
  /\ seen' = [seen EXCEPT ![p] = {}]

\* A process is between the load of the candidate store and the end of its call.
Updates(p) == pc[p] \in {"load", "truncate", "write", "lookup", "append"}

\* One update at a time; answers to repeated observations may overlap it.
UpdatesApart == \A p, q \in Procs : Updates(p) /\ Updates(q) => p = q

\* LookupDevice, of a readable trust store t.
Claimed(t, c) == IF Claims[c] = NoDevice THEN TrustStore!Unknown ELSE t[Claims[c]]

Mapped(record) == record # TrustStore!Unknown

Init ==
  /\ TrustStore!Init
  /\ candidates = NoStore
  /\ history = [c \in Candidates |-> NoEntry]
  /\ pc = [p \in Procs |-> "idle"]
  /\ cmd = [p \in Procs |-> NoCommand]
  /\ memory = [p \in Procs |-> NoStore]
  /\ decision = [p \in Procs |-> NoDecision]
  /\ unrecorded = {}
  /\ seen = [p \in Procs |-> {}]

Start(p, c) ==
  /\ pc[p] = "idle"
  /\ Goto(p, "load")
  /\ cmd' = [cmd EXCEPT ![p] = c]
  /\ seen' = [seen EXCEPT ![p] = IF c.kind = "observe" /\ trust # Torn
                                 THEN {Claimed(trust, c.candidate)} ELSE {}]
  /\ UNCHANGED <<trust, candidates, history, memory, decision, unrecorded>>

-----------------------------------------------------------------------------
(* The two updates of the candidate store *)

\* Mutant: a candidate that is stored already is stored again.
AddAgain(p) ==
  /\ pc[p] = "load"
  /\ cmd[p].kind = "observe"
  /\ candidates # Torn
  /\ memory' = [memory EXCEPT ![p] = [candidates EXCEPT ![cmd[p].candidate] = cmd[p].state]]
  /\ Goto(p, "truncate")
  /\ UNCHANGED <<trust, candidates, history, cmd, decision, unrecorded, seen>>

AddIdentityCandidate(p) ==
  /\ pc[p] = "load"
  /\ cmd[p].kind = "observe"
  /\ candidates # Torn
  /\ candidates[cmd[p].candidate] = "none"
  /\ memory' = [memory EXCEPT ![p] = [candidates EXCEPT ![cmd[p].candidate] = cmd[p].state]]
  /\ Goto(p, "truncate")
  /\ UNCHANGED <<trust, candidates, history, cmd, decision, unrecorded, seen>>

\* Mutant: the event is written again.
DuplicateRecorded(p) ==
  /\ pc[p] = "load"
  /\ cmd[p].kind = "observe"
  /\ candidates # Torn
  /\ candidates[cmd[p].candidate] # "none"
  /\ Goto(p, "lookup")
  /\ UNCHANGED <<trust, candidates, history, cmd, memory, decision, unrecorded, seen>>

\* The stored candidate stays as it is, whatever state the caller gives it.
Duplicate(p) ==
  /\ pc[p] = "load"
  /\ cmd[p].kind = "observe"
  /\ candidates # Torn
  /\ candidates[cmd[p].candidate] # "none"
  /\ Goto(p, "lookup_again")
  /\ UNCHANGED <<trust, candidates, history, cmd, memory, decision, unrecorded, seen>>

UpdateIdentityCandidateState(p) ==
  /\ pc[p] = "load"
  /\ cmd[p].kind = "review"
  /\ candidates # Torn
  /\ <<candidates[cmd[p].candidate], cmd[p].state>> \in AllowedTransition
  /\ memory' = [memory EXCEPT ![p] = [candidates EXCEPT ![cmd[p].candidate] = cmd[p].state]]
  /\ Goto(p, "truncate")
  /\ UNCHANGED <<trust, candidates, history, cmd, decision, unrecorded, seen>>

\* SaveIdentityCandidateStore: the file is emptied, and then written.
Truncate(p) ==
  /\ pc[p] = "truncate"
  /\ candidates' = Torn
  /\ Goto(p, "write")
  /\ UNCHANGED <<trust, history, cmd, memory, decision, unrecorded, seen>>

\* Two commands that write at a time may leave a text that does not parse.
\* A review ends here; its event is left to a caller that nobody has written.
Write(p) ==
  /\ pc[p] = "write"
  /\ candidates' \in IF candidates = Torn THEN {memory[p]} ELSE {memory[p], Torn}
  /\ IF cmd[p].kind = "observe"
       THEN Goto(p, "lookup") /\ UNCHANGED <<cmd, memory, decision, seen>>
       ELSE Return(p)
  /\ UNCHANGED <<trust, history, unrecorded>>

-----------------------------------------------------------------------------
(* The decision on an observed candidate, and its event *)

\* A candidate that claims no device is decided without the trust store.
LookupDevice(p) ==
  /\ pc[p] \in {"lookup", "lookup_again"}
  /\ Claims[cmd[p].candidate] # NoDevice => trust # Torn
  /\ LET c == cmd[p].candidate
         r == Claimed(trust, c) IN
       decision' = [decision EXCEPT ![p] =
         [class |-> Classify(Mapped(r), r.state, MaterialMatches(c, r)),
          blocksSend |-> BlocksSend(Mapped(r), r.state, MaterialMatches(c, r))]]
  /\ Goto(p, IF pc[p] = "lookup" THEN "append" ELSE "answer")
  /\ UNCHANGED <<trust, candidates, history, cmd, memory, unrecorded, seen>>

\* A candidate that was stored already is answered without an event.
AnswerDuplicate(p) ==
  /\ pc[p] = "answer"
  /\ Return(p)
  /\ UNCHANGED <<trust, candidates, history, unrecorded>>

\* The event of a candidate whose device has no record says "observed", whatever
\* state the candidate was stored in.
AppendIdentityCandidateHistoryEvent(p) ==
  /\ pc[p] = "append"
  /\ LET state == IF decision[p].class = "candidate_only" THEN "observed" ELSE cmd[p].state IN
       history' = [history EXCEPT ![cmd[p].candidate] = ObservedEntry(@, state)]
  /\ Return(p)
  /\ UNCHANGED <<trust, candidates, unrecorded>>

\* A call returns with an error (a file does not parse, no such candidate, the
\* transition is not allowed, a read or write fails), or its process dies.
Fail(p) ==
  /\ pc[p] # "idle"
  /\ unrecorded' = IF pc[p] \in {"lookup", "append"}
                   THEN unrecorded \cup {cmd[p].candidate} ELSE unrecorded
  /\ Return(p)
  /\ UNCHANGED <<trust, candidates, history>>

\* An observation has not yet consulted the trust store.
Undecided(p) ==
  /\ cmd[p].kind = "observe"
  /\ pc[p] \in {"load", "truncate", "write", "lookup", "lookup_again"}

\* The trust commands, as TrustStore implements them.
TrustCommand ==
  /\ TrustStore!Next
  /\ seen' = [p \in Procs |->
       seen[p] \cup IF Undecided(p) /\ trust' # Torn
                    THEN {Claimed(trust', cmd[p].candidate)} ELSE {}]
  /\ UNCHANGED <<candidates, history, pc, cmd, memory, decision, unrecorded>>

Step(p) ==
  \/ AddIdentityCandidate(p) \/ Duplicate(p) \/ UpdateIdentityCandidateState(p)
  \/ Truncate(p) \/ Write(p)
  \/ LookupDevice(p) \/ AnswerDuplicate(p) \/ AppendIdentityCandidateHistoryEvent(p)
  \/ Fail(p)

Next ==
  \/ \E p \in Procs : Step(p) \/ \E c \in Command : Start(p, c)
  \/ TrustCommand

Spec == Init /\ [][Next]_vars

-----------------------------------------------------------------------------
(* Properties *)

TypeOK ==
  /\ trust \in [Devices -> Record] \cup {Torn}
  /\ candidates \in Store \cup {Torn}
  /\ history \in [Candidates -> Entry]
  /\ pc \in [Procs -> {"idle", "load", "truncate", "write", "lookup", "lookup_again",
                       "append", "answer"}]
  /\ cmd \in [Procs -> Command \cup {NoCommand}]
  /\ memory \in [Procs -> Store]
  /\ decision \in [Procs -> Decision \cup {NoDecision}]
  /\ unrecorded \subseteq Candidates
  /\ seen \in [Procs -> SUBSET Record]

\* The states that reviews may take a candidate to, one after another.
Reviewed(state) ==
  CASE state = "observed" -> CandidateState
    [] state \in {"pending_review", "conflicts_known_device"} -> CandidateState \ {"observed"}
    [] state = "unverified" -> {"unverified", "rejected"}
    [] state = "rejected" -> {"rejected"}
    [] OTHER -> {}

\* A history entry that records the observation of a candidate in this state once.
Agrees(entry, state) ==
  IF state = "none" THEN entry.observations = 0
  ELSE entry.observations = 1 /\ state \in Reviewed(entry.last)

\* With no observation between its save and its event, trust-events.jsonl records
\* the observation of every stored candidate exactly once, and the store has it in
\* a state that reviews have led to from the one the event says, unless a call
\* stopped between the two.
HistoryAgrees ==
  candidates # Torn /\ (\A p \in Procs : pc[p] \notin {"lookup", "append"})
    => \A c \in Candidates \ unrecorded : Agrees(history[c], candidates[c])

\* An observation that does not block sending is about a device that was
\* verified, with a key the candidate shows, at some time while it ran.
UnblockedWasVerified ==
  \A p \in Procs :
    pc[p] \in {"append", "answer"} /\ ~decision[p].blocksSend
      => \E r \in seen[p] : r.state = "verified" /\ MaterialMatches(cmd[p].candidate, r)

\* An observation of a candidate whose device was revoked all the while blocks
\* its promotion, whatever material the candidate shows.
RevokedBlocksPromotion ==
  \A p \in Procs :
    /\ pc[p] \in {"append", "answer"}
    /\ Claims[cmd[p].candidate] # NoDevice
    /\ \A r \in seen[p] : r.state = "revoked"
    => BlocksPromotion(decision[p].class)

\* A rejected candidate stays rejected.  Refuted by two reviews at a time (README).
RejectedIsSticky ==
  [][\A c \in Candidates :
       candidates # Torn /\ candidates' # Torn /\ candidates[c] = "rejected"
         => candidates'[c] = "rejected"]_candidates

\* Calls one at a time implement CandidatePolicy: each stores its own candidate
\* once or moves it along an allowed transition, and no other; an update takes effect
\* when the file is emptied, and a failure before it is written again loses the store.
PolicyStatus ==
  IF candidates = Torn /\ \E p \in Procs : pc[p] = "write"
  THEN memory[CHOOSE p \in Procs : pc[p] = "write"]
  ELSE candidates

Policy == INSTANCE CandidatePolicy
  WITH status <- PolicyStatus, States <- CandidateState, Transition <- AllowedTransition,
       Lost <- Torn

ImplementsPolicy == Policy!Spec

-----------------------------------------------------------------------------
(* The inductive invariant of decisions, for any number of processes *)

\* What a process has seen, and decided from it.
Decided(p) ==
  /\ pc[p] = "idle" <=> cmd[p] = NoCommand
  /\ pc[p] \in {"lookup", "lookup_again", "append", "answer"} => cmd[p].kind = "observe"
  /\ Undecided(p) /\ trust # Torn => Claimed(trust, cmd[p].candidate) \in seen[p]
  /\ pc[p] \in {"append", "answer"} =>
       \/ Claims[cmd[p].candidate] = NoDevice /\ decision[p].blocksSend
       \/ \E r \in seen[p] :
            decision[p] = [class |-> Classify(Mapped(r), r.state, MaterialMatches(cmd[p].candidate, r)),
                           blocksSend |-> BlocksSend(Mapped(r), r.state, MaterialMatches(cmd[p].candidate, r))]

IInv == TypeOK /\ \A p \in Procs : Decided(p)

-----------------------------------------------------------------------------
(* The inductive invariant of one update at a time *)

\* An update that has made its change in memory: it may change the candidate as
\* the store was loaded, and the file is that store, torn, or the changed store.
InStep(p) ==
  /\ pc[p] = "truncate" =>
       /\ candidates # Torn
       /\ memory[p] = [candidates EXCEPT ![cmd[p].candidate] = cmd[p].state]
       /\ IF cmd[p].kind = "observe"
            THEN candidates[cmd[p].candidate] = "none"
            ELSE <<candidates[cmd[p].candidate], cmd[p].state>> \in AllowedTransition
  /\ pc[p] = "write" => candidates = Torn
  /\ pc[p] \in {"lookup", "append"} => candidates = memory[p]

\* Its memory agrees with the history, but for an observation whose event is
\* still to come.
HistoryInStep(p) ==
  pc[p] \in {"truncate", "write", "lookup", "append"} =>
    \A c \in Candidates \ unrecorded :
      IF c = cmd[p].candidate /\ cmd[p].kind = "observe"
        THEN history[c].observations = 0 /\ memory[p][c] = cmd[p].state
        ELSE Agrees(history[c], memory[p][c])

Serial == HistoryAgrees /\ \A p \in Procs : InStep(p) /\ HistoryInStep(p)
=============================================================================
