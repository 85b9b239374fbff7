---------------------------- MODULE DeviceProofs ----------------------------
(***************************************************************************)
(* Machine-checked, for any processes and data: the candidate store beside *)
(* a trust store that changes while it decides, and the parts of a device. *)
(*                                                                         *)
(* However calls interleave: what a decision says of the claimed device    *)
(* (IInv), and what the parts of a device keep (DeviceIInv).  While        *)
(* updates of the candidate store do not overlap (UpdatesApart): the       *)
(* history agrees with the store (Serial), and the updates implement       *)
(* CandidatePolicy.  While one process creates the identity (OneCreator):  *)
(* it is whole whenever it is answered, and stays.                         *)
(***************************************************************************)
EXTENDS IdentityCandidates, Device, Naturals, Sequences, NaturalsInduction, WellFoundedInduction,
        TLAPS

-----------------------------------------------------------------------------
(* The data *)

LEMMA Records ==
  /\ TrustStore!Unknown \in Record
  /\ TrustStore!Unknown.state = "unknown" /\ TrustStore!Unknown.key = NoKey
  /\ \A k \in Keys : /\ [state |-> "verified", key |-> k] \in Record
                     /\ [state |-> "changed", key |-> k] \in Record
                     /\ [state |-> "revoked", key |-> k] \in Record
  /\ \A r \in Record : /\ r.state \in {"unknown", "verified", "changed", "revoked"}
                       /\ r # TrustStore!Unknown => r.key \in Keys
BY DEF Record, TrustStore!Record, TrustStore!Unknown

LEMMA CommandFields ==
  ASSUME NEW c \in Command
  PROVE  /\ c.kind \in {"observe", "review"} /\ c.candidate \in Candidates
         /\ c.state \in CandidateState
BY DEF Command

LEMMA NoCommandKind == NoCommand.kind = "none" /\ NoCommand \notin Command
BY DEF NoCommand, Command

LEMMA CandidateOfCommand ==
  ASSUME TypeOK, NEW p \in Procs, Decided(p), pc[p] # "idle"
  PROVE  cmd[p] \in Command /\ cmd[p].candidate \in Candidates
BY CommandFields DEF TypeOK, Decided

LEMMA ClaimedIsRecord ==
  ASSUME NEW t \in [Devices -> Record], NEW c \in Candidates
  PROVE  Claimed(t, c) \in Record
BY Records, MismatchAssumption DEF Claimed

LEMMA DecisionIsOne ==
  ASSUME NEW mapped \in BOOLEAN, NEW state, NEW matches \in BOOLEAN
  PROVE  [class |-> Classify(mapped, state, matches),
          blocksSend |-> BlocksSend(mapped, state, matches)] \in Decision
<1>1. Classify(mapped, state, matches) \in Classification
  BY DEF Classify, Classification
<1>2. BlocksSend(mapped, state, matches) \in BOOLEAN
  BY DEF BlocksSend
<1>3. QED
  BY <1>1, <1>2 DEF Decision

LEMMA Entries ==
  ASSUME NEW e \in Entry, NEW s \in CandidateState
  PROVE  ObservedEntry(e, s) \in Entry
<1>1. e.observations \in 0..MaxObservations
  BY DEF Entry
<1>2. QED
  BY <1>1 DEF ObservedEntry, Entry, MaxObservations

-----------------------------------------------------------------------------
(* Initial states, calls that start and calls that end *)

LEMMA InitIInv == Init => IInv
<1> SUFFICES ASSUME Init PROVE IInv
  OBVIOUS
<1>1. trust \in [Devices -> Record] \cup {Torn}
  BY Records DEF Init, TrustStore!Init
<1>2. /\ candidates \in Store \cup {Torn}
      /\ memory \in [Procs -> Store]
  BY DEF Init, NoStore, Store
<1>3. history \in [Candidates -> Entry]
  BY DEF Init, NoEntry, Entry, MaxObservations
<1>4. /\ pc \in [Procs -> {"idle", "load", "truncate", "write", "lookup", "lookup_again",
                           "append", "answer"}]
      /\ cmd \in [Procs -> Command \cup {NoCommand}]
      /\ decision \in [Procs -> Decision \cup {NoDecision}]
      /\ unrecorded \subseteq Candidates
      /\ seen \in [Procs -> SUBSET Record]
  BY DEF Init
<1>5. \A p \in Procs : Decided(p)
  BY NoCommandKind DEF Init, Decided, Undecided
<1>6. QED
  BY <1>1, <1>2, <1>3, <1>4, <1>5 DEF IInv, TypeOK

\* A process that does nothing keeps what its decision rests on.
LEMMA OthersDecided ==
  ASSUME NEW q \in Procs, Decided(q), trust' = trust,
         pc'[q] = pc[q], cmd'[q] = cmd[q], decision'[q] = decision[q], seen'[q] = seen[q]
  PROVE  Decided(q)'
BY DEF Decided, Undecided

LEMMA StartPreserves ==
  ASSUME IInv, NEW p \in Procs, NEW c \in Command, Start(p, c)
  PROVE  IInv'
<1> USE DEF IInv, Start, Goto
<1>0. TypeOK /\ c.candidate \in Candidates
  BY CommandFields
<1>1. seen' \in [Procs -> SUBSET Record]
  BY <1>0, ClaimedIsRecord DEF TypeOK
<1>2. TypeOK'
  BY <1>0, <1>1 DEF TypeOK
<1>3. ASSUME NEW q \in Procs PROVE Decided(q)'
  <2>1. CASE q = p
    <3>1. /\ pc'[p] = "load" /\ cmd'[p] = c /\ trust' = trust
          /\ c.kind = "observe" /\ trust # Torn => Claimed(trust, c.candidate) \in seen'[p]
      BY <1>0 DEF TypeOK
    <3>2. QED
      BY <2>1, <3>1, NoCommandKind DEF Decided, Undecided
  <2>2. CASE q # p
    BY <1>0, <2>2, OthersDecided DEF TypeOK
  <2>3. QED
    BY <2>1, <2>2
<1>4. QED
  BY <1>2, <1>3

\* The end of a call, whatever it leaves in the store and the history.
LEMMA ReturnPreserves ==
  ASSUME IInv, NEW p \in Procs, Return(p), history' \in [Candidates -> Entry],
         candidates' \in Store \cup {Torn}, unrecorded' \subseteq Candidates, trust' = trust
  PROVE  IInv'
<1> USE DEF IInv, Return, Goto
<1>1. TypeOK'
  BY DEF TypeOK, NoStore, Store
<1>2. ASSUME NEW q \in Procs PROVE Decided(q)'
  <2>1. CASE q = p
    <3>1. pc'[p] = "idle" /\ cmd'[p] = NoCommand
      BY DEF TypeOK
    <3>2. QED
      BY <2>1, <3>1, NoCommandKind DEF Decided, Undecided
  <2>2. CASE q # p
    BY <2>2, OthersDecided DEF TypeOK
  <2>3. QED
    BY <2>1, <2>2
<1>3. QED
  BY <1>1, <1>2

-----------------------------------------------------------------------------
(* The steps of a call *)

\* A step that moves p from one position before the decision to another.
LEMMA MovesOn ==
  ASSUME IInv, NEW p \in Procs, NEW label, pc[p] # "idle", label # "idle",
         Goto(p, label), UNCHANGED <<trust, cmd, decision, seen>>,
         label \in {"lookup", "lookup_again", "append", "answer"} => cmd[p].kind = "observe",
         cmd[p].kind = "observe" =>
           /\ pc[p] \in {"load", "truncate", "write", "lookup", "lookup_again"}
           /\ label \in {"load", "truncate", "write", "lookup", "lookup_again"}
  PROVE  \A q \in Procs : Decided(q)'
<1> SUFFICES ASSUME NEW q \in Procs PROVE Decided(q)'
  OBVIOUS
<1>0. Decided(q) /\ TypeOK
  BY DEF IInv
<1>1. CASE q # p
  BY <1>0, <1>1, OthersDecided DEF TypeOK, Goto
<1>2. CASE q = p
  <2>1. pc'[p] = label
    BY <1>0 DEF TypeOK, Goto
  <2>2. QED
    BY <1>0, <1>2, <2>1 DEF Decided, Undecided
<1>3. QED
  BY <1>1, <1>2

LEMMA LoadPreserves ==
  ASSUME IInv, NEW p \in Procs,
         AddIdentityCandidate(p) \/ UpdateIdentityCandidateState(p) \/ Duplicate(p)
  PROVE  IInv'
<1>0. /\ TypeOK /\ cmd[p] \in Command /\ cmd[p].candidate \in Candidates
      /\ cmd[p].state \in CandidateState
  BY CandidateOfCommand, CommandFields
  DEF IInv, AddIdentityCandidate, UpdateIdentityCandidateState, Duplicate
<1>1. CASE AddIdentityCandidate(p)
  <2>1. [candidates EXCEPT ![cmd[p].candidate] = cmd[p].state] \in Store
    BY <1>0, <1>1 DEF TypeOK, AddIdentityCandidate, Store
  <2>2. TypeOK'
    BY <1>0, <1>1, <2>1 DEF TypeOK, AddIdentityCandidate, Goto
  <2>3. QED
    BY <1>1, <2>2, MovesOn DEF IInv, AddIdentityCandidate
<1>2. CASE UpdateIdentityCandidateState(p)
  <2>1. [candidates EXCEPT ![cmd[p].candidate] = cmd[p].state] \in Store
    BY <1>0, <1>2 DEF TypeOK, UpdateIdentityCandidateState, Store
  <2>2. TypeOK'
    BY <1>0, <1>2, <2>1 DEF TypeOK, UpdateIdentityCandidateState, Goto
  <2>3. QED
    BY <1>2, <2>2, MovesOn DEF IInv, UpdateIdentityCandidateState
<1>3. CASE Duplicate(p)
  <2>1. TypeOK'
    BY <1>0, <1>3 DEF TypeOK, Duplicate, Goto
  <2>2. QED
    BY <1>3, <2>1, MovesOn DEF IInv, Duplicate
<1>4. QED
  BY <1>1, <1>2, <1>3

LEMMA SavePreserves ==
  ASSUME IInv, NEW p \in Procs, Truncate(p) \/ Write(p)
  PROVE  IInv'
<1>0. TypeOK /\ cmd[p] \in Command /\ cmd[p].kind \in {"observe", "review"}
  BY CandidateOfCommand, CommandFields DEF IInv, Truncate, Write
<1>1. CASE Truncate(p)
  <2>1. TypeOK'
    BY <1>0, <1>1 DEF TypeOK, Truncate, Goto
  <2>2. QED
    BY <1>1, <2>1, MovesOn DEF IInv, Truncate
<1>2. CASE Write(p)
  <2>1. candidates' \in Store \cup {Torn}
    BY <1>0, <1>2 DEF TypeOK, Write
  <2>2. CASE cmd[p].kind = "observe"
    <3>1. TypeOK'
      BY <1>0, <1>2, <2>1, <2>2 DEF TypeOK, Write, Goto
    <3>2. QED
      BY <1>2, <2>2, <3>1, MovesOn DEF IInv, Write
  <2>3. CASE cmd[p].kind = "review"
    BY <1>0, <1>2, <2>1, <2>3, ReturnPreserves DEF TypeOK, Write
  <2>4. QED
    BY <1>0, <2>2, <2>3
<1>3. QED
  BY <1>1, <1>2

\* The decision is that of the record the device has now, which the call has seen.
LEMMA LookupPreserves ==
  ASSUME IInv, NEW p \in Procs, LookupDevice(p)
  PROVE  IInv'
<1>0. TypeOK /\ Decided(p) /\ cmd[p] \in Command /\ cmd[p].candidate \in Candidates
      /\ cmd[p].kind = "observe" /\ pc[p] \in {"lookup", "lookup_again"}
  BY CandidateOfCommand DEF IInv, LookupDevice, Decided
<1> DEFINE c == cmd[p].candidate
           r == Claimed(trust, c)
           d == [class |-> Classify(Mapped(r), r.state, MaterialMatches(c, r)),
                 blocksSend |-> BlocksSend(Mapped(r), r.state, MaterialMatches(c, r))]
<1>1. /\ decision' = [decision EXCEPT ![p] = d] /\ UNCHANGED <<trust, cmd, seen>>
      /\ pc' = [pc EXCEPT ![p] = IF pc[p] = "lookup" THEN "append" ELSE "answer"]
      /\ UNCHANGED <<candidates, history, memory, unrecorded>>
  BY DEF LookupDevice, Goto
<1>2. d \in Decision
  <2>1. Mapped(r) \in BOOLEAN /\ MaterialMatches(c, r) \in BOOLEAN
    BY DEF Mapped, MaterialMatches
  <2>2. QED
    BY <2>1, DecisionIsOne
<1>3. TypeOK'
  <2> HIDE DEF d
  <2>1. QED
    BY <1>0, <1>1, <1>2 DEF TypeOK
<1>4. \/ Claims[c] = NoDevice /\ d.blocksSend
      \/ r \in seen[p]
  <2>1. CASE Claims[c] = NoDevice
    <3>1. ~Mapped(r)
      BY <2>1 DEF Claimed, Mapped
    <3>2. QED
      BY <2>1, <3>1 DEF BlocksSend
  <2>2. CASE Claims[c] # NoDevice
    <3>1. trust # Torn
      BY <2>2 DEF LookupDevice
    <3>2. QED
      BY <1>0, <3>1 DEF Decided, Undecided
  <2>3. QED
    BY <2>1, <2>2
<1>5. ASSUME NEW q \in Procs PROVE Decided(q)'
  <2>1. CASE q # p
    BY <1>0, <1>1, <2>1, OthersDecided DEF TypeOK, IInv
  <2>2. CASE q = p
    <3>1. pc'[p] \in {"append", "answer"} /\ decision'[p] = d /\ seen'[p] = seen[p]
          /\ cmd'[p] = cmd[p]
      BY <1>0, <1>1 DEF TypeOK
    <3>2. ~Undecided(p)'
      BY <3>1 DEF Undecided
    <3>3. \/ Claims[cmd'[p].candidate] = NoDevice /\ decision'[p].blocksSend
          \/ \E x \in seen'[p] :
               decision'[p] = [class |-> Classify(Mapped(x), x.state, MaterialMatches(cmd'[p].candidate, x)),
                               blocksSend |-> BlocksSend(Mapped(x), x.state, MaterialMatches(cmd'[p].candidate, x))]
      BY <1>4, <3>1
    <3>4. pc'[p] # "idle" /\ cmd'[p] # NoCommand
      BY <1>0, <3>1, NoCommandKind
    <3>5. QED
      BY <1>0, <2>2, <3>1, <3>2, <3>3, <3>4 DEF Decided
  <2>3. QED
    BY <2>1, <2>2
<1>6. QED
  BY <1>3, <1>5 DEF IInv

LEMMA EndPreserves ==
  ASSUME IInv, NEW p \in Procs,
         AnswerDuplicate(p) \/ AppendIdentityCandidateHistoryEvent(p) \/ Fail(p)
  PROVE  IInv'
<1>0. TypeOK /\ Decided(p)
  BY DEF IInv
<1>1. CASE AnswerDuplicate(p)
  BY <1>0, <1>1, ReturnPreserves DEF TypeOK, AnswerDuplicate
<1>2. CASE AppendIdentityCandidateHistoryEvent(p)
  <2>1. cmd[p].candidate \in Candidates /\ cmd[p].state \in CandidateState
    BY <1>0, <1>2, CandidateOfCommand, CommandFields DEF AppendIdentityCandidateHistoryEvent
  <2>2. history[cmd[p].candidate] \in Entry
    BY <1>0, <2>1 DEF TypeOK
  <2>3. "observed" \in CandidateState
    BY DEF CandidateState
  <2>4. history' \in [Candidates -> Entry]
    BY <1>0, <1>2, <2>1, <2>2, <2>3, Entries DEF TypeOK, AppendIdentityCandidateHistoryEvent
  <2>5. QED
    BY <1>0, <1>2, <2>4, ReturnPreserves DEF TypeOK, AppendIdentityCandidateHistoryEvent
<1>3. CASE Fail(p)
  <2>1. cmd[p].candidate \in Candidates
    BY <1>0, <1>3, CandidateOfCommand DEF Fail
  <2>2. unrecorded' \subseteq Candidates
    BY <1>0, <1>3, <2>1 DEF TypeOK, Fail
  <2>3. QED
    BY <1>0, <1>3, <2>2, ReturnPreserves DEF TypeOK, Fail
<1>4. QED
  BY <1>1, <1>2, <1>3

\* A trust command adds the new record to what undecided calls have seen.
LEMMA TrustPreserves ==
  ASSUME IInv, TrustCommand
  PROVE  IInv'
<1>0. TypeOK /\ \A p \in Procs : Decided(p)
  BY DEF IInv
<1>1. trust' \in [Devices -> Record] \cup {Torn}
  <2>1. ASSUME NEW d \in Devices, TrustStore!Revoke(d) PROVE trust' \in [Devices -> Record]
    <3>1. trust \in [Devices -> Record] /\ trust[d] # TrustStore!Unknown
      BY <1>0, <2>1 DEF TypeOK, TrustStore!Revoke, TrustStore!Readable
    <3>2. trust[d].key \in Keys
      BY <3>1, Records
    <3>3. QED
      BY <2>1, <3>1, <3>2, Records DEF TrustStore!Revoke, TrustStore!Becomes
  <2>2. ASSUME NEW d \in Devices, NEW k \in Keys, TrustStore!Verify(d, k) \/ TrustStore!Change(d, k)
        PROVE  trust' \in [Devices -> Record]
    <3>1. trust \in [Devices -> Record]
      BY <1>0, <2>2 DEF TypeOK, TrustStore!Verify, TrustStore!Change, TrustStore!Readable
    <3>2. QED
      BY <2>2, <3>1, Records DEF TrustStore!Verify, TrustStore!Change, TrustStore!Becomes
  <2>3. CASE TrustStore!Lose
    BY <2>3 DEF TrustStore!Lose
  <2>4. QED
    BY <2>1, <2>2, <2>3 DEF TrustCommand, TrustStore!Next
<1>2. \A p \in Procs : Undecided(p) => cmd[p].candidate \in Candidates
  BY <1>0, CandidateOfCommand DEF Undecided
<1>3. \A p \in Procs :
        seen'[p] = seen[p] \cup IF Undecided(p) /\ trust' # Torn
                                THEN {Claimed(trust', cmd[p].candidate)} ELSE {}
  BY DEF TrustCommand
<1>4. seen' \in [Procs -> SUBSET Record]
  <2>1. \A p \in Procs : seen'[p] \subseteq Record
    BY <1>0, <1>1, <1>2, <1>3, ClaimedIsRecord DEF TypeOK
  <2>2. QED
    BY <2>1 DEF TrustCommand
<1>5. TypeOK'
  BY <1>0, <1>1, <1>4 DEF TypeOK, TrustCommand
<1>6. ASSUME NEW q \in Procs PROVE Decided(q)'
  <2>1. UNCHANGED <<pc, cmd, decision>> /\ seen[q] \subseteq seen'[q]
    BY <1>3 DEF TrustCommand
  <2>2. Undecided(q)' /\ trust' # Torn => Claimed(trust', cmd[q].candidate) \in seen'[q]
    BY <1>3, <2>1 DEF Undecided
  <2>3. QED
    BY <1>0, <2>1, <2>2 DEF Decided
<1>7. QED
  BY <1>5, <1>6 DEF IInv

-----------------------------------------------------------------------------
(* Theorems *)

\* Every decision follows a record that the device had while the call ran.
THEOREM Inductive == Spec => []IInv
<1>1. IInv /\ [Next]_vars => IInv'
  <2> SUFFICES ASSUME IInv, [Next]_vars PROVE IInv'
    OBVIOUS
  <2>1. CASE UNCHANGED vars
    BY <2>1 DEF vars, IInv, TypeOK, Decided, Undecided
  <2>2. CASE Next
    BY <2>2, StartPreserves, LoadPreserves, SavePreserves, LookupPreserves, EndPreserves,
       TrustPreserves
    DEF Next, Step
  <2>3. QED
    BY <2>1, <2>2
<1>2. QED
  BY <1>1, InitIInv, PTL DEF Spec

\* An observation lets messages through only for a device that was verified with
\* a key of the candidate while the observation ran, however the trust store and
\* the candidate store change under it.
THEOREM UnblockedIsVerified == Spec => []UnblockedWasVerified
<1>1. IInv => UnblockedWasVerified
  <2> SUFFICES ASSUME IInv, NEW p \in Procs, pc[p] \in {"append", "answer"},
                      ~decision[p].blocksSend
               PROVE  \E r \in seen[p] : r.state = "verified" /\ MaterialMatches(cmd[p].candidate, r)
    BY DEF UnblockedWasVerified
  <2>1. PICK r \in seen[p] :
          decision[p] = [class |-> Classify(Mapped(r), r.state, MaterialMatches(cmd[p].candidate, r)),
                         blocksSend |-> BlocksSend(Mapped(r), r.state, MaterialMatches(cmd[p].candidate, r))]
    BY DEF IInv, Decided
  <2>2. ~BlocksSend(Mapped(r), r.state, MaterialMatches(cmd[p].candidate, r))
    BY <2>1
  <2>3. QED
    BY <2>2 DEF BlocksSend
<1>2. QED
  BY <1>1, Inductive, PTL

\* No material gets a candidate past a revoked device.
THEOREM RevokedIsFinal == Spec => []RevokedBlocksPromotion
<1>1. IInv => RevokedBlocksPromotion
  <2> SUFFICES ASSUME IInv, NEW p \in Procs, pc[p] \in {"append", "answer"},
                      Claims[cmd[p].candidate] # NoDevice,
                      \A r \in seen[p] : r.state = "revoked"
               PROVE  BlocksPromotion(decision[p].class)
    BY DEF RevokedBlocksPromotion
  <2>1. PICK r \in seen[p] :
          decision[p] = [class |-> Classify(Mapped(r), r.state, MaterialMatches(cmd[p].candidate, r)),
                         blocksSend |-> BlocksSend(Mapped(r), r.state, MaterialMatches(cmd[p].candidate, r))]
    BY DEF IInv, Decided
  <2>2. r.state = "revoked" /\ Mapped(r)
    BY <2>1, Records DEF Mapped
  <2>3. decision[p].class = Classify(TRUE, "revoked", MaterialMatches(cmd[p].candidate, r))
    BY <2>1, <2>2
  <2>4. Classify(TRUE, "revoked", MaterialMatches(cmd[p].candidate, r)) = "blocked_revoked"
    BY DEF Classify
  <2>5. QED
    BY <2>3, <2>4 DEF BlocksPromotion
<1>2. QED
  BY <1>1, Inductive, PTL

-----------------------------------------------------------------------------
(* One update at a time: any number of processes, whose answers to repeated  *)
(* observations overlap the update and each other                            *)

\* A store, a state and a transition of the review.
LEMMA Transitions ==
  ASSUME NEW s, NEW t, <<s, t>> \in AllowedTransition
  PROVE  s # "none" /\ s \in CandidateState /\ t \in CandidateState /\ t # "none"
BY DEF AllowedTransition, CandidateState

\* Reviews go on from where reviews have led.
LEMMA ReviewsGoOn ==
  ASSUME NEW entry \in Entry, NEW s, NEW t, Agrees(entry, s), <<s, t>> \in AllowedTransition
  PROVE  Agrees(entry, t)
<1>1. s # "none" /\ t # "none" /\ entry.last \in CandidateState \cup {"none"}
  BY Transitions DEF Entry
<1>2. entry.observations = 1 /\ s \in Reviewed(entry.last)
  BY <1>1 DEF Agrees
<1>3. t \in Reviewed(entry.last)
  BY <1>1, <1>2 DEF Reviewed, AllowedTransition, CandidateState
<1>4. QED
  BY <1>1, <1>2, <1>3 DEF Agrees

\* The position of a process that is not between load and event.
LEMMA QuietInStep ==
  ASSUME NEW q \in Procs, ~Updates(q)
  PROVE  InStep(q) /\ HistoryInStep(q)
BY DEF Updates, InStep, HistoryInStep

\* What Serial says of a process is kept by a step that leaves it and what it looks
\* at alone.
LEMMA OthersInStep ==
  ASSUME NEW q \in Procs, InStep(q), HistoryInStep(q),
         UNCHANGED <<candidates, history>>, unrecorded \subseteq unrecorded',
         pc'[q] = pc[q], cmd'[q] = cmd[q], memory'[q] = memory[q]
  PROVE  InStep(q)' /\ HistoryInStep(q)'
BY DEF InStep, HistoryInStep

\* The event is appended, or an update stops after its save: the store and the
\* history agree again, but for the candidate whose event is missing.
LEMMA SerialEnd ==
  ASSUME IInv, UpdatesApart, Serial, NEW p \in Procs,
         \/ AppendIdentityCandidateHistoryEvent(p)
         \/ Fail(p) /\ pc[p] \in {"lookup", "append"}
  PROVE  Serial'
<1>0. /\ TypeOK /\ Updates(p) /\ cmd[p].candidate \in Candidates
      /\ cmd[p].state \in CandidateState /\ cmd[p].kind = "observe"
      /\ candidates = memory[p] /\ candidates' = candidates
      /\ pc' = [pc EXCEPT ![p] = "idle"]
  BY CandidateOfCommand, CommandFields
  DEF IInv, Decided, Serial, InStep, Updates, AppendIdentityCandidateHistoryEvent, Fail, Return,
      Goto
<1>1. \A c \in Candidates \ unrecorded :
        IF c = cmd[p].candidate
          THEN history[c].observations = 0 /\ candidates[c] = cmd[p].state
          ELSE Agrees(history[c], candidates[c])
  BY <1>0 DEF Serial, HistoryInStep, AppendIdentityCandidateHistoryEvent, Fail
<1>2. ASSUME NEW q \in Procs PROVE InStep(q)' /\ HistoryInStep(q)'
  <2>1. ~Updates(q)'
    BY <1>0 DEF TypeOK, UpdatesApart, Updates
  <2>2. QED
    BY <2>1 DEF Updates, InStep, HistoryInStep
<1>3. \A c \in Candidates \ unrecorded' : Agrees(history'[c], candidates[c])
  <2>1. CASE Fail(p) /\ pc[p] \in {"lookup", "append"}
    <3>1. history' = history /\ unrecorded' = unrecorded \cup {cmd[p].candidate}
      BY <2>1 DEF Fail
    <3>2. QED
      BY <1>1, <3>1
  <2>2. CASE AppendIdentityCandidateHistoryEvent(p)
    <3>1. PICK s \in {"observed", cmd[p].state} :
            history' = [history EXCEPT ![cmd[p].candidate] = ObservedEntry(@, s)]
      BY <2>2 DEF AppendIdentityCandidateHistoryEvent
    <3>2. unrecorded' = unrecorded
      BY <2>2 DEF AppendIdentityCandidateHistoryEvent
    <3>3. ASSUME NEW c \in Candidates \ unrecorded, c # cmd[p].candidate
          PROVE  Agrees(history'[c], candidates[c])
      BY <1>0, <1>1, <3>1, <3>3 DEF TypeOK
    <3>4. ASSUME cmd[p].candidate \notin unrecorded
          PROVE  Agrees(history'[cmd[p].candidate], candidates[cmd[p].candidate])
      <4> DEFINE e == history[cmd[p].candidate]
      <4>1. e.observations = 0 /\ candidates[cmd[p].candidate] = cmd[p].state
        BY <1>0, <1>1, <3>4
      <4>2. history'[cmd[p].candidate] = ObservedEntry(e, s)
        BY <1>0, <3>1 DEF TypeOK
      <4>3. ObservedEntry(e, s).observations = 1 /\ ObservedEntry(e, s).last = s
        BY <4>1 DEF ObservedEntry, MaxObservations
      <4>4. cmd[p].state \in Reviewed(s)
        BY <1>0, <3>1 DEF Reviewed, CandidateState
      <4>5. cmd[p].state # "none"
        BY <1>0 DEF CandidateState
      <4>6. QED
        BY <4>1, <4>2, <4>3, <4>4, <4>5 DEF Agrees
    <3>5. QED
      BY <3>2, <3>3, <3>4
  <2>3. QED
    BY <2>1, <2>2
<1>4. QED
  BY <1>0, <1>2, <1>3 DEF Serial, HistoryAgrees

\* A step of p that changes no file, before p has loaded the store to change it or
\* at the end of a call that has saved nothing.
LEMMA SerialAside ==
  ASSUME IInv, Serial, NEW p \in Procs,
         \/ \E c \in Command : Start(p, c)
         \/ Duplicate(p) \/ AnswerDuplicate(p)
         \/ LookupDevice(p) /\ pc[p] = "lookup_again"
         \/ Fail(p) /\ pc[p] \notin {"lookup", "append"}
  PROVE  Serial'
<1>0. /\ pc[p] \notin {"lookup", "append"}
      /\ pc'[p] \in {"load", "lookup_again", "answer", "idle"}
      /\ \A q \in Procs : q # p => /\ pc'[q] = pc[q] /\ cmd'[q] = cmd[q]
                                   /\ memory'[q] = memory[q]
      /\ UNCHANGED <<candidates, history, unrecorded>>
  BY DEF IInv, TypeOK, Start, Duplicate, AnswerDuplicate, LookupDevice, Fail, Return, Goto
<1>1. HistoryAgrees'
  <2>1. (\A q \in Procs : pc'[q] \notin {"lookup", "append"})
          => \A q \in Procs : pc[q] \notin {"lookup", "append"}
    BY <1>0
  <2>2. QED
    BY <1>0, <2>1 DEF Serial, HistoryAgrees
<1>2. ASSUME NEW q \in Procs PROVE InStep(q)' /\ HistoryInStep(q)'
  <2>1. CASE q = p
    BY <1>0, <2>1 DEF InStep, HistoryInStep
  <2>2. CASE q # p
    BY <1>0, <2>2, OthersInStep DEF Serial
  <2>3. QED
    BY <2>1, <2>2
<1>3. QED
  BY <1>1, <1>2 DEF Serial

\* An update loads the store, which agrees with the history, and changes the state
\* of its candidate in memory.
LEMMA SerialLoad ==
  ASSUME IInv, UpdatesApart, Serial, NEW p \in Procs,
         AddIdentityCandidate(p) \/ UpdateIdentityCandidateState(p)
  PROVE  Serial'
<1>0. /\ TypeOK /\ Updates(p) /\ candidates # Torn /\ candidates \in Store
      /\ cmd[p].candidate \in Candidates /\ cmd[p].kind \in {"observe", "review"}
      /\ pc' = [pc EXCEPT ![p] = "truncate"]
      /\ UNCHANGED <<candidates, history, cmd, unrecorded>>
  BY CandidateOfCommand, CommandFields
  DEF IInv, TypeOK, Updates, AddIdentityCandidate, UpdateIdentityCandidateState, Goto
<1>1. /\ memory'[p] = [candidates EXCEPT ![cmd[p].candidate] = cmd[p].state]
      /\ \A q \in Procs : q # p => memory'[q] = memory[q]
      /\ IF cmd[p].kind = "observe"
           THEN candidates[cmd[p].candidate] = "none"
           ELSE <<candidates[cmd[p].candidate], cmd[p].state>> \in AllowedTransition
  BY DEF IInv, TypeOK, AddIdentityCandidate, UpdateIdentityCandidateState
<1>2. \A c \in Candidates \ unrecorded : Agrees(history[c], candidates[c])
  <2>1. \A q \in Procs : pc[q] \notin {"lookup", "append"}
    BY <1>0 DEF UpdatesApart, Updates, AddIdentityCandidate, UpdateIdentityCandidateState
  <2>2. QED
    BY <1>0, <2>1 DEF Serial, HistoryAgrees
<1>3. InStep(p)'
  BY <1>0, <1>1 DEF TypeOK, InStep
<1>4. HistoryInStep(p)'
  <2>1. ASSUME NEW c \in Candidates \ unrecorded, c # cmd[p].candidate
        PROVE  Agrees(history[c], memory'[p][c])
    BY <1>0, <1>1, <1>2, <2>1 DEF Store
  <2>2. memory'[p][cmd[p].candidate] = cmd[p].state
    BY <1>0, <1>1 DEF Store
  <2>3. ASSUME cmd[p].candidate \notin unrecorded, cmd[p].kind = "observe"
        PROVE  history[cmd[p].candidate].observations = 0
    BY <1>0, <1>1, <1>2, <2>3 DEF Agrees
  <2>4. ASSUME cmd[p].candidate \notin unrecorded, cmd[p].kind = "review"
        PROVE  Agrees(history[cmd[p].candidate], cmd[p].state)
    <3>1. history[cmd[p].candidate] \in Entry
      BY <1>0 DEF TypeOK
    <3>2. <<candidates[cmd[p].candidate], cmd[p].state>> \in AllowedTransition
          /\ Agrees(history[cmd[p].candidate], candidates[cmd[p].candidate])
      BY <1>0, <1>1, <1>2, <2>4
    <3>3. QED
      BY <3>1, <3>2, ReviewsGoOn
  <2>5. QED
    BY <1>0, <2>1, <2>2, <2>3, <2>4 DEF HistoryInStep
<1>5. ASSUME NEW q \in Procs, q # p PROVE InStep(q)' /\ HistoryInStep(q)'
  BY <1>0, <1>1, <1>5, OthersInStep DEF TypeOK, Serial
<1>6. HistoryAgrees'
  BY <1>0, <1>2 DEF HistoryAgrees
<1>7. QED
  BY <1>3, <1>4, <1>5, <1>6 DEF Serial

\* The file is emptied, written again, and the trust store consulted: the history
\* still lacks the event.
LEMMA SerialSave ==
  ASSUME IInv, UpdatesApart, Serial, NEW p \in Procs,
         \/ Truncate(p) \/ Write(p)
         \/ LookupDevice(p) /\ pc[p] = "lookup"
  PROVE  Serial'
<1>0. /\ TypeOK /\ Updates(p) /\ InStep(p) /\ HistoryInStep(p)
      /\ pc[p] \in {"truncate", "write", "lookup"}
      /\ UNCHANGED <<history, unrecorded>>
      /\ \A q \in Procs : q # p => pc'[q] = pc[q]
  BY DEF IInv, TypeOK, Serial, Updates, Truncate, Write, LookupDevice, Return, Goto
<1>1. \/ /\ pc'[p] = "write" /\ candidates' = Torn /\ UNCHANGED <<cmd, memory>>
      \/ /\ pc'[p] \in {"lookup", "append"} /\ candidates' = memory[p]
         /\ UNCHANGED <<cmd, memory>>
      \/ /\ pc'[p] = "idle" /\ candidates' = memory[p] /\ cmd[p].kind # "observe"
         /\ pc[p] = "write"
  BY <1>0 DEF TypeOK, InStep, Truncate, Write, LookupDevice, Return, Goto
<1>2. InStep(p)' /\ HistoryInStep(p)'
  BY <1>0, <1>1 DEF InStep, HistoryInStep
<1>3. ASSUME NEW q \in Procs, q # p
      PROVE  pc'[q] \notin {"load", "truncate", "write", "lookup", "append"}
  BY <1>0, <1>3 DEF UpdatesApart, Updates
<1>4. ASSUME NEW q \in Procs, q # p PROVE InStep(q)' /\ HistoryInStep(q)'
  BY <1>3, <1>4 DEF InStep, HistoryInStep
<1>5. HistoryAgrees'
  <2>1. CASE pc'[p] \in {"write", "lookup", "append"}
    BY <1>1, <2>1 DEF HistoryAgrees
  <2>2. CASE pc'[p] = "idle"
    <3>1. candidates' = memory[p] /\ cmd[p].kind # "observe" /\ pc[p] = "write"
      BY <1>1, <2>2
    <3>2. \A c \in Candidates \ unrecorded : Agrees(history[c], memory[p][c])
      BY <1>0, <3>1 DEF HistoryInStep
    <3>3. QED
      BY <1>0, <3>1, <3>2 DEF HistoryAgrees
  <2>3. QED
    BY <1>1, <2>1, <2>2
<1>6. QED
  BY <1>2, <1>4, <1>5 DEF Serial

LEMMA SerialNext == IInv /\ UpdatesApart /\ Serial /\ [Next]_vars => Serial'
<1> SUFFICES ASSUME IInv, UpdatesApart, Serial, [Next]_vars PROVE Serial'
  OBVIOUS
<1>1. CASE UNCHANGED vars \/ TrustCommand
  BY <1>1 DEF vars, TrustCommand, Serial, HistoryAgrees, InStep, HistoryInStep
<1>2. ASSUME NEW p \in Procs, Step(p) PROVE Serial'
  <2>1. LookupDevice(p) => pc[p] \in {"lookup", "lookup_again"}
    BY DEF LookupDevice
  <2>2. QED
    BY <1>2, <2>1, SerialAside, SerialLoad, SerialSave, SerialEnd DEF Step
<1>3. QED
  BY <1>1, <1>2, SerialAside DEF Next

\* While updates of the candidate store do not overlap, the file, the history and
\* the memory of the update stay in step.
THEOREM SerialInductive == Spec /\ []UpdatesApart => []Serial
<1>1. Init => Serial
  BY DEF Init, NoStore, NoEntry, Serial, HistoryAgrees, Agrees, InStep, HistoryInStep
<1>2. QED
  BY <1>1, SerialNext, Inductive, PTL DEF Spec

\* While updates do not overlap, every stored candidate was recorded as observed
\* exactly once, and is in a state that reviews lead to from the one its event says,
\* unless a call stopped between the save and the event.
THEOREM HistoryAgreement == Spec /\ []UpdatesApart => []HistoryAgrees
<1>1. Serial => HistoryAgrees
  BY DEF Serial
<1>2. QED
  BY <1>1, SerialInductive, PTL

-----------------------------------------------------------------------------
(* Updates that do not overlap implement CandidatePolicy *)

\* What the policy sees of the one update that has emptied the file.
LEMMA PolicyOfWriter ==
  ASSUME UpdatesApart, Serial, NEW p \in Procs, pc[p] = "write"
  PROVE  PolicyStatus = memory[p]
<1>1. candidates = Torn /\ \A q \in Procs : pc[q] = "write" => q = p
  BY DEF Serial, InStep, UpdatesApart, Updates
<1>2. QED
  BY <1>1 DEF PolicyStatus

\* A step that writes nothing, of a process that is not writing, does not show.
LEMMA PolicyStill ==
  ASSUME candidates' = candidates,
         \A q \in Procs : /\ pc'[q] = "write" <=> pc[q] = "write"
                          /\ pc[q] = "write" => memory'[q] = memory[q]
  PROVE  PolicyStatus' = PolicyStatus
<1>1. CASE candidates = Torn /\ \E q \in Procs : pc[q] = "write"
  <2> DEFINE w == CHOOSE q \in Procs : pc[q] = "write"
             v == CHOOSE q \in Procs : pc'[q] = "write"
  <2>1. w = v /\ w \in Procs /\ pc[w] = "write"
    BY <1>1
  <2>2. PolicyStatus = memory[w] /\ PolicyStatus' = memory'[v]
    BY <1>1 DEF PolicyStatus
  <2>3. QED
    BY <2>1, <2>2
<1>2. CASE ~(candidates = Torn /\ \E q \in Procs : pc[q] = "write")
  BY <1>2 DEF PolicyStatus
<1>3. QED
  BY <1>1, <1>2

\* An update takes effect when it empties the file.
LEMMA TruncateIsUpdate ==
  ASSUME IInv, UpdatesApart, Serial, NEW p \in Procs, Truncate(p)
  PROVE  Policy!Next
<1>0. /\ TypeOK /\ InStep(p) /\ pc[p] = "truncate" /\ pc'[p] = "write"
      /\ cmd[p].candidate \in Candidates /\ cmd[p].kind \in {"observe", "review"}
      /\ cmd[p].state \in CandidateState
      /\ memory' = memory /\ candidates # Torn /\ candidates' = Torn
      /\ \A q \in Procs : q # p => pc'[q] = pc[q] /\ pc[q] # "write"
  BY CandidateOfCommand, CommandFields
  DEF IInv, TypeOK, Serial, InStep, Truncate, Goto, UpdatesApart, Updates
<1>1. PolicyStatus = candidates
  BY <1>0 DEF PolicyStatus
<1>2. PolicyStatus' = memory[p]
  <2>1. \A q \in Procs : pc'[q] = "write" <=> q = p
    BY <1>0
  <2>2. QED
    BY <1>0, <2>1 DEF PolicyStatus
<1>3. memory[p] = [candidates EXCEPT ![cmd[p].candidate] = cmd[p].state]
  BY <1>0 DEF InStep
<1>4. CASE cmd[p].kind = "observe"
  <2>1. Policy!Observe(cmd[p].candidate)
    BY <1>0, <1>1, <1>2, <1>3, <1>4 DEF InStep, Policy!Observe, Policy!Readable
  <2>2. QED
    BY <1>0, <2>1 DEF Policy!Next
<1>5. CASE cmd[p].kind = "review"
  <2> DEFINE move == <<candidates[cmd[p].candidate], cmd[p].state>>
  <2>1. move \in {u \in AllowedTransition : u[1] = candidates[cmd[p].candidate]}
    BY <1>0, <1>5 DEF InStep
  <2>2. cmd[p].state \in
          {t[2] : t \in {u \in AllowedTransition : u[1] = candidates[cmd[p].candidate]}}
    <3>1. move[2] = cmd[p].state
      OBVIOUS
    <3> HIDE DEF move
    <3>2. QED
      BY <2>1, <3>1
  <2>3. Policy!Review(cmd[p].candidate)
    BY <1>0, <1>1, <1>2, <1>3, <1>5, <2>2 DEF Policy!Review, Policy!Readable
  <2>4. QED
    BY <1>0, <2>3 DEF Policy!Next
<1>6. QED
  BY <1>0, <1>4, <1>5

LEMMA PolicyStep ==
  ASSUME IInv, UpdatesApart, Serial, [Next]_vars
  PROVE  [Policy!Next]_PolicyStatus
<1>0. TypeOK
  BY DEF IInv
<1>1. CASE UNCHANGED vars \/ TrustCommand
  BY <1>1, PolicyStill DEF vars, TrustCommand
<1>2. ASSUME NEW p \in Procs,
             \/ (\E c \in Command : Start(p, c))
             \/ AddIdentityCandidate(p) \/ Duplicate(p) \/ UpdateIdentityCandidateState(p)
             \/ LookupDevice(p) \/ AnswerDuplicate(p)
             \/ AppendIdentityCandidateHistoryEvent(p)
             \/ Fail(p) /\ pc[p] # "write"
      PROVE  PolicyStatus' = PolicyStatus
  <2>1. candidates' = candidates /\ pc[p] # "write" /\ pc'[p] # "write"
    BY <1>0, <1>2
    DEF TypeOK, Start, AddIdentityCandidate, Duplicate, UpdateIdentityCandidateState,
        LookupDevice, AnswerDuplicate, AppendIdentityCandidateHistoryEvent, Fail, Return, Goto
  <2>2. \A q \in Procs : q # p => pc'[q] = pc[q] /\ memory'[q] = memory[q]
    BY <1>0, <1>2
    DEF TypeOK, Start, AddIdentityCandidate, Duplicate, UpdateIdentityCandidateState,
        LookupDevice, AnswerDuplicate, AppendIdentityCandidateHistoryEvent, Fail, Return, Goto
  <2>3. QED
    BY <2>1, <2>2, PolicyStill
<1>3. ASSUME NEW p \in Procs, pc[p] = "write", Write(p) \/ Fail(p)
      PROVE  /\ PolicyStatus = memory[p] /\ PolicyStatus' = candidates'
             /\ Write(p) => candidates' = memory[p]
             /\ Fail(p) => candidates' = Torn
  <2>1. candidates = Torn /\ pc'[p] # "write" /\ \A q \in Procs : q # p => pc'[q] = pc[q]
    BY <1>0, <1>3 DEF TypeOK, Serial, InStep, Write, Fail, Return, Goto
  <2>2. \A q \in Procs : pc'[q] # "write"
    BY <1>3, <2>1 DEF UpdatesApart, Updates
  <2>3. QED
    BY <1>3, <2>1, <2>2, PolicyOfWriter DEF PolicyStatus, Write, Fail
<1>4. ASSUME NEW p \in Procs, Fail(p), pc[p] = "write" PROVE Policy!Next
  <2>1. PolicyStatus # Torn
    BY <1>0, <1>3, <1>4, StoreAssumption DEF TypeOK
  <2>2. Policy!Lose
    BY <1>3, <1>4, <2>1 DEF Policy!Lose, Policy!Readable
  <2>3. QED
    BY <2>2 DEF Policy!Next
<1>5. ASSUME NEW p \in Procs, Write(p) PROVE PolicyStatus' = PolicyStatus
  BY <1>3, <1>5 DEF Write
<1>6. QED
  BY <1>1, <1>2, <1>4, <1>5, TruncateIsUpdate DEF Next, Step

\* Updates that do not overlap are the updates of CandidatePolicy: each observes or
\* reviews its own candidate along an allowed transition, or loses the whole store;
\* repeated observations and trust commands change nothing.
THEOREM CandidatePolicyRefinement == Spec /\ []UpdatesApart => ImplementsPolicy
<1>1. Init => Policy!Init
  BY DEF Init, PolicyStatus, NoStore, Policy!Init
<1>2. IInv /\ UpdatesApart /\ Serial /\ [Next]_vars => [Policy!Next]_PolicyStatus
  BY PolicyStep
<1>3. QED
  BY <1>1, <1>2, Inductive, SerialInductive, PTL DEF Spec, ImplementsPolicy, Policy!Spec

-----------------------------------------------------------------------------
(* state.json *)

LEMMA StateNames ==
  /\ DefaultServer \in Servers /\ Nothing \notin Servers
  /\ Nothing \notin Accounts /\ Nothing \notin OwnDevices
  /\ Absent \notin State!State /\ TornFile \notin State!State /\ Absent # TornFile
BY DeviceAssumption DEF State!ServerAssumption, State!NothingAssumption, State!UnreadableAssumption

LEMMA StateCommands ==
  /\ State!NoCommand.kind = "none" /\ State!NoCommand \notin State!Command
  /\ \A c \in State!Command :
       /\ c.server \in Servers \cup {Nothing}
       /\ c.kind \in {"init", "claim", "invite", "space", "member", "register", "list", "use"}
       /\ c.kind = "init" => c.server \in Servers
<1>1. State!NoCommand.kind = "none"
  BY DEF State!NoCommand
<1>2. \A c \in State!Command :
       /\ c.server \in Servers \cup {Nothing}
       /\ c.kind \in {"init", "claim", "invite", "space", "member", "register", "list", "use"}
       /\ c.kind = "init" => c.server \in Servers
  BY DEF State!Command
<1>3. QED
  BY <1>1, <1>2

\* What the relay issued stays issued.
LEMMA StateKept ==
  ASSUME NEW s \in State!State, State!Sound(s),
         \A a \in Accounts : issuer[a] # Nothing => issuer'[a] = issuer[a],
         \A d \in OwnDevices : owner[d] # Nothing => owner'[d] = owner[d],
         reclaimed \subseteq reclaimed'
  PROVE  /\ s.account # Nothing => issuer'[s.account] = s.server
         /\ s.device \notin reclaimed' \cup {Nothing} => owner'[s.device] = s.account
         /\ s.device # Nothing => s.account # Nothing
<1>1. /\ s.server \in Servers /\ s.account \in Accounts \cup {Nothing}
      /\ s.device \in OwnDevices \cup {Nothing}
  BY DEF State!State
<1>2. QED
  BY <1>1, StateNames DEF State!Sound, State!Issued

\* A step of one process, which gives it a new position, a command, a record and a
\* target, and may put its record into the state.
LEMMA StateGoes ==
  ASSUME State!IInv, NEW p \in Writers,
         NEW to \in {"idle", "load", "resolve", "request", "save", "write"},
         NEW c \in State!Command \cup {State!NoCommand},
         NEW m \in State!State, NEW t \in Servers \cup {Nothing},
         statePc' = [statePc EXCEPT ![p] = to],
         stateCmd' = [stateCmd EXCEPT ![p] = c],
         stateMemory' = [stateMemory EXCEPT ![p] = m],
         target' = [target EXCEPT ![p] = t],
         issuer' \in [Accounts -> Servers \cup {Nothing}],
         owner' \in [OwnDevices -> Accounts \cup {Nothing}],
         \A a \in Accounts : issuer[a] # Nothing => issuer'[a] = issuer[a],
         \A d \in OwnDevices : owner[d] # Nothing => owner'[d] = owner[d],
         reclaimed \subseteq reclaimed', reclaimed' \subseteq OwnDevices,
         named \subseteq named', named' \subseteq Servers,
         \/ stateFile' = stateFile
         \/ stateFile' = TornFile
         \/ stateFile' = stateMemory[p] /\ stateMemory[p].server \in named',
         to = "idle" <=> c = State!NoCommand,
         State!Sound(m)',
         to = "resolve" => c.kind \in {"claim", "invite", "space", "member"},
         to = "request" =>
           /\ t \in Servers
           /\ c.kind \in {"register", "list", "use"} => t = m.server /\ State!HasAccount(m, c.kind)
  PROVE  State!IInv'
<1>0. State!TypeOK
  BY DEF State!IInv
<1>1. /\ statePc'[p] = to /\ stateCmd'[p] = c /\ stateMemory'[p] = m /\ target'[p] = t
      /\ \A q \in Writers \ {p} : /\ statePc'[q] = statePc[q] /\ stateCmd'[q] = stateCmd[q]
                                  /\ stateMemory'[q] = stateMemory[q] /\ target'[q] = target[q]
  BY <1>0 DEF State!TypeOK
<1>2. stateMemory[p] \in State!State
  BY <1>0 DEF State!TypeOK
<1>3. State!TypeOK'
  <2>1. stateFile' \in State!State \cup {Absent, TornFile}
    BY <1>0, <1>2 DEF State!TypeOK
  <2>2. \A q \in Writers : statePc'[q] = "request" => target'[q] \in Servers
    BY <1>0, <1>1 DEF State!TypeOK
  <2>3. QED
    BY <1>0, <1>1, <2>1, <2>2 DEF State!TypeOK
<1>4. ASSUME NEW q \in Writers \ {p} PROVE State!Position(q)'
  <2>1. stateMemory[q] \in State!State /\ State!Position(q)
    BY <1>0 DEF State!TypeOK, State!IInv
  <2>2. State!Sound(stateMemory[q])'
    <3>1. State!Sound(stateMemory[q])
      BY <2>1 DEF State!Position
    <3>2. QED
      BY <1>1, <2>1, <3>1, StateKept DEF State!Sound, State!Issued
  <2>3. QED
    BY <1>1, <2>1, <2>2 DEF State!Position, State!HasAccount
<1>5. State!Position(p)'
  <2>1. State!Sound(stateMemory[p])'
    BY <1>1 DEF State!Sound, State!Issued
  <2>2. QED
    BY <1>1, <2>1 DEF State!Position, State!HasAccount
<1>6. (State!Readable => State!Sound(stateFile) /\ stateFile.server \in named)'
  <2>1. CASE stateFile' = TornFile
    BY <2>1 DEF State!Readable
  <2>2. CASE stateFile' = stateFile /\ stateFile \in State!State
    <3>1. State!Sound(stateFile) /\ stateFile.server \in named
      BY <2>2, StateNames DEF State!IInv, State!Readable
    <3>2. QED
      BY <2>2, <3>1, StateKept DEF State!Sound, State!Issued
  <2>3. CASE stateFile' = stateMemory[p] /\ stateMemory[p].server \in named'
    <3>1. State!Sound(stateMemory[p])
      BY DEF State!IInv, State!Position
    <3>2. QED
      BY <1>2, <2>3, <3>1, StateKept DEF State!Sound, State!Issued
  <2>4. CASE stateFile' = stateFile /\ stateFile \notin State!State
    BY <1>0, <2>4 DEF State!TypeOK, State!Readable
  <2>5. QED
    BY <2>1, <2>2, <2>3, <2>4
<1>7. QED
  BY <1>3, <1>4, <1>5, <1>6 DEF State!IInv

LEMMA StateInit == State!Init => State!IInv
<1> SUFFICES ASSUME State!Init PROVE State!IInv
  OBVIOUS
<1>1. /\ State!Blank \in State!State /\ State!Blank.account = Nothing
      /\ State!Blank.device = Nothing
  BY StateNames DEF State!Blank, State!State
<1>2. State!TypeOK
  BY <1>1 DEF State!Init, State!TypeOK
<1>3. ~State!Readable
  BY DEF State!Init, State!Readable
<1>4. \A p \in Writers : State!Position(p)
  BY <1>1 DEF State!Init, State!Position, State!Sound, State!Issued
<1>5. QED
  BY <1>2, <1>3, <1>4 DEF State!IInv

\* A step that asks the relay for nothing new and gives a process a sound record.
LEMMA StateReads ==
  ASSUME State!IInv, NEW p \in Writers, UNCHANGED <<issuer, owner, reclaimed, named>>,
         NEW to \in {"idle", "load", "resolve", "request", "save", "write"},
         NEW c \in State!Command \cup {State!NoCommand},
         NEW m \in State!State, NEW t \in Servers \cup {Nothing},
         statePc' = [statePc EXCEPT ![p] = to],
         stateCmd' = [stateCmd EXCEPT ![p] = c],
         stateMemory' = [stateMemory EXCEPT ![p] = m],
         target' = [target EXCEPT ![p] = t],
         stateFile' \in {stateFile, TornFile},
         to = "idle" <=> c = State!NoCommand,
         State!Sound(m),
         to = "resolve" => c.kind \in {"claim", "invite", "space", "member"},
         to = "request" =>
           /\ t \in Servers
           /\ c.kind \in {"register", "list", "use"} => t = m.server /\ State!HasAccount(m, c.kind)
  PROVE  State!IInv'
<1>1. /\ issuer' \in [Accounts -> Servers \cup {Nothing}]
      /\ owner' \in [OwnDevices -> Accounts \cup {Nothing}]
      /\ reclaimed' \subseteq OwnDevices /\ named' \subseteq Servers
  BY DEF State!IInv, State!TypeOK
<1>2. State!Sound(m)'
  BY DEF State!Sound, State!Issued
<1>3. QED
  BY <1>1, <1>2, StateGoes

\* What is known of a process and of the state before a step.
LEMMA StateKnown ==
  ASSUME State!IInv, NEW p \in Writers
  PROVE  /\ statePc' = statePc => statePc' = [statePc EXCEPT ![p] = statePc[p]]
         /\ stateCmd' = stateCmd => stateCmd' = [stateCmd EXCEPT ![p] = stateCmd[p]]
         /\ stateMemory' = stateMemory => stateMemory' = [stateMemory EXCEPT ![p] = stateMemory[p]]
         /\ target' = target => target' = [target EXCEPT ![p] = target[p]]
         /\ stateCmd[p] \in State!Command \cup {State!NoCommand}
         /\ stateMemory[p] \in State!State /\ State!Sound(stateMemory[p])
         /\ target[p] \in Servers \cup {Nothing}
         /\ statePc[p] = "request" => target[p] \in Servers
         /\ statePc[p] = "idle" <=> stateCmd[p] = State!NoCommand
         /\ State!Readable => /\ stateFile \in State!State /\ State!Sound(stateFile)
                              /\ stateFile.server \in named /\ stateFile.server \in Servers
BY DEF State!IInv, State!TypeOK, State!Position, State!Readable, State!State

LEMMA StateBlank == State!Blank \in State!State /\ State!Sound(State!Blank)
BY StateNames DEF State!Blank, State!State, State!Sound, State!Issued

\* A command that ends, whatever it has been answered.
LEMMA StateReturn ==
  ASSUME State!IInv, NEW p \in Writers, State!Return(p),
         issuer' \in [Accounts -> Servers \cup {Nothing}],
         owner' \in [OwnDevices -> Accounts \cup {Nothing}],
         \A a \in Accounts : issuer[a] # Nothing => issuer'[a] = issuer[a],
         \A d \in OwnDevices : owner[d] # Nothing => owner'[d] = owner[d],
         reclaimed' = reclaimed, named \subseteq named', named' \subseteq Servers,
         \/ stateFile' = stateFile
         \/ stateFile' = TornFile
         \/ stateFile' = stateMemory[p] /\ stateMemory[p].server \in named'
  PROVE  State!IInv'
<1>1. /\ statePc' = [statePc EXCEPT ![p] = "idle"]
      /\ stateCmd' = [stateCmd EXCEPT ![p] = State!NoCommand]
      /\ stateMemory' = [stateMemory EXCEPT ![p] = State!Blank]
      /\ target' = [target EXCEPT ![p] = Nothing]
  BY DEF State!Return, State!Goto
<1>2. State!Sound(State!Blank)' /\ State!Blank \in State!State
  BY StateNames DEF State!Blank, State!State, State!Sound, State!Issued
<1>3. reclaimed' \subseteq OwnDevices
  BY DEF State!IInv, State!TypeOK
<1>4. QED
  BY <1>1, <1>2, <1>3, StateGoes

\* Every command, and every answer of a server, leaves records that are sound.
LEMMA StateStep ==
  ASSUME State!IInv, State!Next
  PROVE  State!IInv'
<1>0. State!TypeOK
  BY DEF State!IInv
<1> USE DEF State!Goto, State!relay, State!ghosts
<1>1. ASSUME NEW p \in Writers, NEW c \in State!Command, State!Start(p, c) PROVE State!IInv'
  <2> DEFINE to == IF c.kind = "invite" THEN "resolve" ELSE "load"
  <2>1. /\ UNCHANGED <<issuer, owner, reclaimed, named, stateFile>>
        /\ statePc' = [statePc EXCEPT ![p] = to]
        /\ stateCmd' = [stateCmd EXCEPT ![p] = c]
        /\ stateMemory' = [stateMemory EXCEPT ![p] = stateMemory[p]]
        /\ target' = [target EXCEPT ![p] = target[p]]
    BY <1>1, StateKnown DEF State!Start
  <2>2. /\ to \in {"load", "resolve"} /\ c # State!NoCommand
        /\ to = "resolve" => c.kind \in {"claim", "invite", "space", "member"}
    BY StateCommands
  <2> HIDE DEF to
  <2>3. QED
    BY <2>1, <2>2, StateKnown, StateReads
<1>2. ASSUME NEW p \in Writers, State!InitState(p) PROVE State!IInv'
  <2> DEFINE m == [State!Blank EXCEPT !.server = stateCmd[p].server]
  <2>1. /\ UNCHANGED <<issuer, owner, reclaimed, named, stateFile>>
        /\ statePc[p] = "load" /\ statePc' = [statePc EXCEPT ![p] = "save"]
        /\ stateCmd' = [stateCmd EXCEPT ![p] = stateCmd[p]]
        /\ stateMemory' = [stateMemory EXCEPT ![p] = m]
        /\ target' = [target EXCEPT ![p] = target[p]]
    BY <1>2, StateKnown DEF State!InitState
  <2>2. stateCmd[p] \in State!Command /\ stateCmd[p].server \in Servers
    BY <1>2, StateKnown, StateCommands DEF State!InitState
  <2>3. m \in State!State /\ m.account = Nothing /\ m.device = Nothing
    BY <2>2 DEF State!Blank, State!State
  <2> HIDE DEF m
  <2>4. State!Sound(m)
    BY <2>3 DEF State!Sound, State!Issued
  <2>5. QED
    BY <2>1, <2>2, <2>3, <2>4, StateKnown, StateReads
<1>3. ASSUME NEW p \in Writers, State!LoadForClaim(p) PROVE State!IInv'
  <2> DEFINE m == IF State!Readable THEN stateFile ELSE State!Blank
  <2>1. /\ UNCHANGED <<issuer, owner, reclaimed, named, stateFile>>
        /\ statePc[p] = "load" /\ statePc' = [statePc EXCEPT ![p] = "resolve"]
        /\ stateCmd[p].kind = "claim" /\ stateCmd' = [stateCmd EXCEPT ![p] = stateCmd[p]]
        /\ stateMemory' = [stateMemory EXCEPT ![p] = m]
        /\ target' = [target EXCEPT ![p] = target[p]]
    BY <1>3, StateKnown DEF State!LoadForClaim
  <2>2. m \in State!State /\ State!Sound(m)
    BY StateKnown, StateBlank
  <2> HIDE DEF m
  <2>3. QED
    BY <2>1, <2>2, StateKnown, StateReads
<1>4. ASSUME NEW p \in Writers, State!RequireForSpace(p) PROVE State!IInv'
  <2>1. /\ UNCHANGED <<issuer, owner, reclaimed, named, stateFile>>
        /\ statePc[p] = "load" /\ statePc' = [statePc EXCEPT ![p] = "resolve"]
        /\ stateCmd[p].kind \in {"space", "member"} /\ State!Readable
        /\ stateCmd' = [stateCmd EXCEPT ![p] = stateCmd[p]]
        /\ stateMemory' = [stateMemory EXCEPT ![p] = stateFile]
        /\ target' = [target EXCEPT ![p] = target[p]]
    BY <1>4, StateKnown DEF State!RequireForSpace
  <2>2. QED
    BY <2>1, StateKnown, StateReads
<1>5. ASSUME NEW p \in Writers, State!Require(p) PROVE State!IInv'
  <2>1. /\ UNCHANGED <<issuer, owner, reclaimed, named, stateFile>>
        /\ statePc[p] = "load" /\ statePc' = [statePc EXCEPT ![p] = "request"]
        /\ State!HasAccount(stateFile, stateCmd[p].kind) /\ State!Readable
        /\ stateCmd' = [stateCmd EXCEPT ![p] = stateCmd[p]]
        /\ stateMemory' = [stateMemory EXCEPT ![p] = stateFile]
        /\ target' = [target EXCEPT ![p] = stateFile.server]
    BY <1>5, StateKnown DEF State!Require
  <2>2. QED
    BY <2>1, StateKnown, StateReads
<1>6. ASSUME NEW p \in Writers, State!Resolve(p) PROVE State!IInv'
  <2> DEFINE t == State!ServerFromStateOrFlag(stateCmd[p].server)
  <2>1. /\ UNCHANGED <<issuer, owner, reclaimed, named, stateFile>>
        /\ statePc[p] = "resolve" /\ statePc' = [statePc EXCEPT ![p] = "request"]
        /\ stateCmd' = [stateCmd EXCEPT ![p] = stateCmd[p]]
        /\ stateMemory' = [stateMemory EXCEPT ![p] = stateMemory[p]]
        /\ target' = [target EXCEPT ![p] = t]
    BY <1>6, StateKnown DEF State!Resolve
  <2>2. stateCmd[p] \in State!Command /\ stateCmd[p].kind \in {"claim", "invite", "space", "member"}
    BY <2>1, StateKnown DEF State!IInv, State!Position
  <2>3. t \in Servers
    BY <2>2, StateKnown, StateCommands, StateNames DEF State!ServerFromStateOrFlag
  <2> HIDE DEF t
  <2>4. QED
    BY <2>1, <2>2, <2>3, StateKnown, StateReads
<1>7. ASSUME NEW p \in Writers, State!ClaimInvite(p) PROVE State!IInv'
  <2>1. PICK a \in Accounts :
          /\ issuer[a] = Nothing /\ issuer' = [issuer EXCEPT ![a] = target[p]]
          /\ stateMemory' = [stateMemory EXCEPT ![p].account = a, ![p].server = target[p]]
    BY <1>7 DEF State!ClaimInvite
  <2>2. /\ UNCHANGED <<owner, named, stateFile>>
        /\ statePc[p] = "request" /\ statePc' = [statePc EXCEPT ![p] = "save"]
        /\ stateCmd' = [stateCmd EXCEPT ![p] = stateCmd[p]]
        /\ target' = [target EXCEPT ![p] = target[p]] /\ target[p] \in Servers
        /\ reclaimed' = reclaimed \cup ({stateMemory[p].device} \ {Nothing})
    BY <1>7, StateKnown DEF State!ClaimInvite
  <2>3. /\ stateMemory' = [stateMemory EXCEPT ![p] = stateMemory'[p]]
        /\ stateMemory'[p].account = a /\ stateMemory'[p].server = target[p]
        /\ stateMemory'[p].device = stateMemory[p].device
        /\ stateMemory'[p] \in State!State
    <3>1. ASSUME NEW r \in State!State, NEW b \in Accounts
          PROVE  [r EXCEPT !.account = b] \in State!State
      BY <3>1 DEF State!State
    <3>2. ASSUME NEW r \in State!State, NEW v \in Servers
          PROVE  LET s == [r EXCEPT !.server = v]
                 IN  s \in State!State /\ s.server = v /\ s.account = r.account /\ s.device = r.device
      BY <3>2 DEF State!State
    <3>0. ASSUME NEW r \in State!State, NEW b \in Accounts
          PROVE  [r EXCEPT !.account = b].account = b /\ [r EXCEPT !.account = b].device = r.device
      BY <3>0 DEF State!State
    <3> DEFINE once == [stateMemory EXCEPT ![p] = [@ EXCEPT !.account = a]]
    <3>3. stateMemory' = [once EXCEPT ![p] = [@ EXCEPT !.server = target[p]]]
      BY <2>1
    <3>4. /\ once = [stateMemory EXCEPT ![p] = [stateMemory[p] EXCEPT !.account = a]]
          /\ once[p] = [stateMemory[p] EXCEPT !.account = a]
          /\ DOMAIN once = Writers
      BY <1>0 DEF State!TypeOK
    <3> HIDE DEF once
    <3>5. stateMemory'[p] = [[stateMemory[p] EXCEPT !.account = a] EXCEPT !.server = target[p]]
      BY <3>3, <3>4
    <3> DEFINE r == [stateMemory[p] EXCEPT !.account = a]
    <3>6. r \in State!State /\ r.account = a /\ r.device = stateMemory[p].device
      BY <2>1, <3>1, <3>0, StateKnown
    <3> HIDE DEF r
    <3>7. /\ stateMemory'[p].account = a /\ stateMemory'[p].server = target[p]
          /\ stateMemory'[p].device = stateMemory[p].device
          /\ stateMemory'[p] \in State!State
      <4>1. stateMemory'[p] = [r EXCEPT !.server = target[p]]
        BY <3>5 DEF r
      <4>2. QED
        BY <2>2, <3>2, <3>6, <4>1
    <3>8. stateMemory' = [stateMemory EXCEPT ![p] = stateMemory'[p]]
      BY <1>0, <3>3, <3>4 DEF State!TypeOK
    <3>9. QED
      BY <3>7, <3>8
  <2>4. PICK m \in State!State :
          /\ stateMemory' = [stateMemory EXCEPT ![p] = m]
          /\ m.account = a /\ m.server = target[p]
          /\ m.device = stateMemory[p].device /\ m.device \in OwnDevices \cup {Nothing}
    BY <2>3, StateKnown DEF State!State
  <2>5. /\ issuer' \in [Accounts -> Servers \cup {Nothing}] /\ issuer'[a] = target[p]
        /\ \A b \in Accounts : issuer[b] # Nothing => issuer'[b] = issuer[b]
    BY <1>0, <2>1, <2>2 DEF State!TypeOK
  <2>6. State!Sound(m)'
    BY <2>2, <2>4, <2>5, StateNames DEF State!Sound, State!Issued
  <2>7. reclaimed \subseteq reclaimed' /\ reclaimed' \subseteq OwnDevices
    BY <1>0, <2>2, <2>4 DEF State!TypeOK
  <2>8. /\ owner' \in [OwnDevices -> Accounts \cup {Nothing}] /\ named' \subseteq Servers
        /\ stateCmd[p] # State!NoCommand
    BY <1>0, <2>2, StateKnown DEF State!TypeOK
  <2>9. QED
    BY <2>2, <2>3, <2>4, <2>5, <2>6, <2>7, <2>8, StateKnown, StateGoes
<1>8. ASSUME NEW p \in Writers, State!RegisterDevice(p) PROVE State!IInv'
  <2>1. PICK d \in OwnDevices :
          /\ owner[d] = Nothing /\ owner' = [owner EXCEPT ![d] = stateMemory[p].account]
          /\ stateMemory' = [stateMemory EXCEPT ![p].device = d]
    BY <1>8 DEF State!RegisterDevice
  <2>2. /\ UNCHANGED <<issuer, reclaimed, named, stateFile>>
        /\ statePc[p] = "request" /\ statePc' = [statePc EXCEPT ![p] = "save"]
        /\ stateCmd' = [stateCmd EXCEPT ![p] = stateCmd[p]]
        /\ target' = [target EXCEPT ![p] = target[p]]
        /\ State!HasAccount(stateMemory[p], "register")
    BY <1>8, StateKnown DEF State!RegisterDevice, State!IInv, State!Position
  <2>3. /\ stateMemory' = [stateMemory EXCEPT ![p] = [@ EXCEPT !.device = d]]
        /\ [stateMemory[p] EXCEPT !.device = d] \in State!State
    BY <1>0, <2>1, StateKnown DEF State!TypeOK, State!State
  <2>4. PICK m \in State!State :
          /\ stateMemory' = [stateMemory EXCEPT ![p] = m]
          /\ m.account = stateMemory[p].account /\ m.device = d
          /\ m.server = stateMemory[p].server /\ m.account # Nothing /\ m.account \in Accounts
    BY <2>2, <2>3, StateKnown DEF State!State, State!HasAccount
  <2>5. /\ owner' \in [OwnDevices -> Accounts \cup {Nothing}] /\ owner'[d] = m.account
        /\ \A e \in OwnDevices : owner[e] # Nothing => owner'[e] = owner[e]
    BY <1>0, <2>1, <2>4 DEF State!TypeOK
  <2>6. State!Sound(m)'
    BY <2>2, <2>4, <2>5, StateKnown DEF State!Sound, State!Issued
  <2>7. /\ issuer' \in [Accounts -> Servers \cup {Nothing}] /\ named' \subseteq Servers
        /\ reclaimed' \subseteq OwnDevices /\ stateCmd[p] # State!NoCommand
    BY <1>0, <2>2, StateKnown DEF State!TypeOK
  <2>8. QED
    BY <2>2, <2>3, <2>4, <2>5, <2>6, <2>7, StateKnown, StateGoes
<1>9. ASSUME NEW p \in Writers, State!AnswerLost(p) PROVE State!IInv'
  <2>1. /\ State!Return(p) /\ UNCHANGED <<stateFile, reclaimed, named>>
        /\ statePc[p] = "request" /\ target[p] \in Servers
    BY <1>9, StateKnown DEF State!AnswerLost
  <2>2. named' \subseteq Servers
    BY <1>0, <2>1 DEF State!TypeOK
  <2>3. CASE /\ \E a \in {b \in Accounts : issuer[b] = Nothing} :
                  issuer' = [issuer EXCEPT ![a] = target[p]]
             /\ owner' = owner
    <3>1. /\ issuer' \in [Accounts -> Servers \cup {Nothing}]
          /\ \A a \in Accounts : issuer[a] # Nothing => issuer'[a] = issuer[a]
          /\ owner' \in [OwnDevices -> Accounts \cup {Nothing}]
      BY <1>0, <2>1, <2>3 DEF State!TypeOK
    <3>2. QED
      BY <2>1, <2>2, <2>3, <3>1, StateReturn
  <2>4. CASE /\ \E d \in {e \in OwnDevices : owner[e] = Nothing} :
                  owner' = [owner EXCEPT ![d] = stateMemory[p].account]
             /\ issuer' = issuer
    <3>1. stateMemory[p].account \in Accounts \cup {Nothing}
      BY StateKnown DEF State!State
    <3>2. /\ owner' \in [OwnDevices -> Accounts \cup {Nothing}]
          /\ \A d \in OwnDevices : owner[d] # Nothing => owner'[d] = owner[d]
          /\ issuer' \in [Accounts -> Servers \cup {Nothing}]
      BY <1>0, <2>4, <3>1 DEF State!TypeOK
    <3>3. QED
      BY <2>1, <2>2, <2>4, <3>2, StateReturn
  <2>5. QED
    BY <1>9, <2>3, <2>4 DEF State!AnswerLost
<1>10. ASSUME NEW p \in Writers, NEW kind, State!Asks(p, kind) PROVE State!IInv'
  <2>1. /\ State!Return(p) /\ UNCHANGED <<stateFile, issuer, owner, reclaimed, named>>
    BY <1>10 DEF State!Asks
  <2>2. /\ issuer' \in [Accounts -> Servers \cup {Nothing}] /\ named' \subseteq Servers
        /\ owner' \in [OwnDevices -> Accounts \cup {Nothing}]
    BY <1>0, <2>1 DEF State!TypeOK
  <2>3. QED
    BY <2>1, <2>2, StateReturn
<1>11. ASSUME NEW p \in Writers, State!Truncate(p) PROVE State!IInv'
  <2>1. /\ UNCHANGED <<issuer, owner, reclaimed, named>> /\ stateFile' = TornFile
        /\ statePc[p] = "save" /\ statePc' = [statePc EXCEPT ![p] = "write"]
        /\ stateCmd' = [stateCmd EXCEPT ![p] = stateCmd[p]]
        /\ stateMemory' = [stateMemory EXCEPT ![p] = stateMemory[p]]
        /\ target' = [target EXCEPT ![p] = target[p]]
    BY <1>11, StateKnown DEF State!Truncate
  <2>2. QED
    BY <2>1, StateKnown, StateReads
<1>12. ASSUME NEW p \in Writers, State!Write(p) PROVE State!IInv'
  <2>1. /\ State!Return(p) /\ UNCHANGED <<issuer, owner, reclaimed>>
        /\ stateFile' = TornFile \/ stateFile' = stateMemory[p]
        /\ named' = named \cup (IF stateFile' = TornFile THEN {} ELSE {stateMemory[p].server})
    BY <1>12 DEF State!Write
  <2>2. stateMemory[p].server \in Servers
    BY StateKnown DEF State!State
  <2>3. /\ issuer' \in [Accounts -> Servers \cup {Nothing}]
        /\ owner' \in [OwnDevices -> Accounts \cup {Nothing}]
        /\ named \subseteq named' /\ named' \subseteq Servers
        /\ stateFile' = TornFile \/ stateMemory[p].server \in named'
    BY <1>0, <2>1, <2>2 DEF State!TypeOK
  <2>4. QED
    BY <2>1, <2>3, StateReturn
<1>13. ASSUME NEW p \in Writers, State!Fail(p) PROVE State!IInv'
  <2>1. /\ State!Return(p) /\ UNCHANGED <<issuer, owner, reclaimed, named>>
        /\ stateFile' = stateFile \/ stateFile' = TornFile
    BY <1>13 DEF State!Fail
  <2>2. /\ issuer' \in [Accounts -> Servers \cup {Nothing}] /\ named' \subseteq Servers
        /\ owner' \in [OwnDevices -> Accounts \cup {Nothing}]
    BY <1>0, <2>1 DEF State!TypeOK
  <2>3. QED
    BY <2>1, <2>2, StateReturn
<1>14. QED
  BY <1>1, <1>2, <1>3, <1>4, <1>5, <1>6, <1>7, <1>8, <1>9, <1>10, <1>11, <1>12, <1>13
  DEF State!Next, State!Step, State!CreateDevInvite, State!ListDevices, State!UseDevice,
      State!ClaimRelaySpaceInvite, State!UpdateMemberState

LEMMA StateSpaceInit == State!Init => State!SpaceIInv
BY StateCommands DEF State!Init, State!SpaceIInv, State!Alone, State!SpacePosition

\* With one command at a time, the state is what a Relay Space command has read.
LEMMA StateSpaceStep ==
  ASSUME State!IInv, State!SpaceIInv, State!Next, State!Alone', State!IInv'
  PROVE  State!SpaceIInv'
<1>0. State!TypeOK
  BY DEF State!IInv
<1> USE DEF State!Goto
<1>1. PICK p \in Writers : State!Step(p) \/ \E c \in State!Command : State!Start(p, c)
  BY DEF State!Next
<1>2. \A q \in Writers \ {p} : statePc'[q] = statePc[q]
  BY <1>0, <1>1
  DEF State!Step, State!Start, State!InitState, State!LoadForClaim, State!RequireForSpace,
      State!Require, State!Resolve, State!ClaimInvite, State!RegisterDevice, State!AnswerLost,
      State!CreateDevInvite, State!ListDevices, State!UseDevice, State!ClaimRelaySpaceInvite,
      State!UpdateMemberState, State!Asks, State!Truncate, State!Write, State!Fail, State!Return,
      State!TypeOK
<1>3. ASSUME NEW q \in Writers \ {p} PROVE statePc'[q] = "idle"
  <2>1. statePc'[p] # "idle" => statePc'[q] = "idle"
    BY DEF State!Alone
  <2>2. statePc[p] # "idle" => statePc[q] = "idle"
    BY DEF State!SpaceIInv, State!Alone
  <2>3. statePc[p] = "idle" => statePc'[p] # "idle"
    BY <1>0, <1>1
    DEF State!Step, State!Start, State!InitState, State!LoadForClaim, State!RequireForSpace,
        State!Require, State!Resolve, State!ClaimInvite, State!RegisterDevice, State!AnswerLost,
        State!CreateDevInvite, State!ListDevices, State!UseDevice, State!ClaimRelaySpaceInvite,
        State!UpdateMemberState, State!Asks, State!Truncate, State!Write, State!Fail, State!TypeOK
  <2>4. QED
    BY <1>2, <2>1, <2>2, <2>3
<1>4. \A q \in Writers \ {p} : State!SpacePosition(q)'
  BY <1>3 DEF State!SpacePosition
<1>5. State!SpacePosition(p)'
  <2>1. CASE State!RequireForSpace(p)
    <3>1. /\ stateFile' = stateFile /\ State!Readable
          /\ stateMemory'[p] = stateFile /\ statePc'[p] = "resolve"
      BY <1>0, <2>1 DEF State!RequireForSpace, State!TypeOK
    <3>2. QED
      BY <3>1 DEF State!SpacePosition, State!Readable
  <2>2. CASE State!Resolve(p)
    <3>1. /\ statePc[p] = "resolve" /\ statePc'[p] = "request"
          /\ stateCmd'[p] = stateCmd[p] /\ stateMemory'[p] = stateMemory[p] /\ named' = named
          /\ target'[p] = State!ServerFromStateOrFlag(stateCmd[p].server)
      BY <1>0, <2>2 DEF State!Resolve, State!ghosts, State!TypeOK
    <3>2. stateCmd[p].kind \in {"space", "member"} => State!Readable /\ stateMemory[p] = stateFile
      BY <3>1 DEF State!SpaceIInv, State!SpacePosition
    <3>3. State!Readable => stateFile.server \in named
      BY DEF State!IInv
    <3>4. QED
      BY <3>1, <3>2, <3>3 DEF State!SpacePosition, State!ServerFromStateOrFlag
  <2>3. CASE \E c \in State!Command : State!Start(p, c)
    <3>1. PICK c \in State!Command : State!Start(p, c)
      BY <2>3
    <3>2. /\ statePc'[p] = (IF c.kind = "invite" THEN "resolve" ELSE "load")
          /\ stateCmd'[p] = c
      BY <1>0, <3>1 DEF State!Start, State!TypeOK
    <3>3. QED
      BY <3>2 DEF State!SpacePosition
  <2>4. CASE State!LoadForClaim(p) \/ State!Require(p)
    BY <1>0, <2>4 DEF State!LoadForClaim, State!Require, State!SpacePosition, State!TypeOK
  <2>5. CASE statePc'[p] \notin {"resolve", "request"}
    BY <2>5 DEF State!SpacePosition
  <2>6. QED
    BY <1>0, <1>1, <2>1, <2>2, <2>3, <2>4, <2>5
    DEF State!Step, State!InitState, State!ClaimInvite, State!RegisterDevice, State!AnswerLost,
        State!CreateDevInvite, State!ListDevices, State!UseDevice, State!ClaimRelaySpaceInvite,
        State!UpdateMemberState, State!Asks, State!Truncate, State!Write, State!Fail, State!Return,
        State!TypeOK
<1>6. QED
  BY <1>4, <1>5 DEF State!SpaceIInv

LEMMA StateIssued == State!IInv => State!StateIsIssued /\ State!RequestsAreIssued
BY DEF State!IInv, State!Position, State!Sound, State!StateIsIssued, State!RequestsAreIssued

LEMMA StateSpaceIssued ==
  State!IInv /\ State!SpaceIInv => State!SpaceClaimsAreIssued /\ State!StateControlsServer
<1> SUFFICES ASSUME State!IInv, State!SpaceIInv
             PROVE  State!SpaceClaimsAreIssued /\ State!StateControlsServer
  OBVIOUS
<1>1. ASSUME NEW p \in Writers, statePc[p] = "request",
             stateCmd[p].kind \in {"space", "member"}, stateCmd[p].server = Nothing
      PROVE  /\ State!Issued(target[p], stateMemory[p].account, stateMemory[p].device)
             /\ target[p] \in named
  BY <1>1 DEF State!SpaceIInv, State!SpacePosition, State!IInv, State!Position, State!Sound
<1>2. QED
  BY <1>1 DEF State!SpaceClaimsAreIssued, State!StateControlsServer

-----------------------------------------------------------------------------
(* The identity directory, with one creator *)

\* The order of the four files, spelled out.
LEMMA IdentityFiles ==
  /\ Len(Identity!Files) = 4
  /\ Identity!Files[1] = "manifest" /\ Identity!Files[2] = "signer"
  /\ Identity!Files[3] = "summary" /\ Identity!Files[4] = "state"
  /\ \A i \in 1..4 : Identity!Files[i] \in Identity!Names
  /\ \A i, j \in 1..4 : Identity!Files[i] = Identity!Files[j] => i = j
  /\ \A f \in Identity!Names : \E i \in 1..4 : f = Identity!Files[i]
  /\ Identity!Names = {"manifest", "signer", "summary", "state"}
<1>1. /\ Len(Identity!Files) = 4
      /\ Identity!Files[1] = "manifest" /\ Identity!Files[2] = "signer"
      /\ Identity!Files[3] = "summary" /\ Identity!Files[4] = "state"
      /\ Identity!Names = {"manifest", "signer", "summary", "state"}
  BY DEF Identity!Files, Identity!Names
<1>2. \A i \in 1..4 : i = 1 \/ i = 2 \/ i = 3 \/ i = 4
  OBVIOUS
<1>3. /\ \A i \in 1..4 : Identity!Files[i] \in Identity!Names
      /\ \A i, j \in 1..4 : Identity!Files[i] = Identity!Files[j] => i = j
  BY <1>1, <1>2
<1>4. 1 \in 1..4 /\ 2 \in 1..4 /\ 3 \in 1..4 /\ 4 \in 1..4
  OBVIOUS
<1>5. \A f \in Identity!Names : \E i \in 1..4 : f = Identity!Files[i]
  BY <1>1, <1>4, Zenon
<1>6. QED
  BY <1>1, <1>3, <1>5

\* The files stand in an unfinished create one after the other.
LEMMA IdentityOpened ==
  ASSUME Identity!IInv, NEW p \in Creators \cup Readers, identityPc[p] \in {"open", "fill"}
  PROVE  /\ at[p] \in 1..4 /\ p \in Creators /\ key[p] \in SignerKeys
         /\ \A i \in 1..4 : identityFile[Identity!Files[i]] =
              IF i < at[p] THEN key[p]
              ELSE IF i = at[p] /\ identityPc[p] = "fill" THEN TornFile ELSE Absent
         /\ identityFile["state"] \notin SignerKeys
         /\ identityPc[p] = "open" \/ at[p] # 4 => identityFile["state"] = Absent
         /\ created = {}
         /\ \A q \in Creators \cup Readers :
              /\ identityAnswer[q] = Nothing /\ identityPc[q] # "again"
              /\ identityPc[q] \in {"signer", "summary", "state"} =>
                   at[p] = 4 /\ identityPc[p] = "fill"
<1>1. /\ at[p] \in 1..4 /\ p \in Creators /\ key[p] \in SignerKeys
      /\ \A i \in 1..4 : identityFile[Identity!Files[i]] =
           IF i < at[p] THEN key[p]
           ELSE IF i = at[p] /\ identityPc[p] = "fill" THEN TornFile ELSE Absent
  BY IdentityFiles DEF Identity!IInv, Identity!CreatePosition
<1>2. identityFile["state"] = IF 4 = at[p] /\ identityPc[p] = "fill" THEN TornFile ELSE Absent
  BY <1>1, IdentityFiles
<1>3. identityFile["state"] \notin SignerKeys
  BY <1>2, DeviceAssumption DEF Identity!KeyAssumption
<1>4. "state" \in Identity!Names
  BY IdentityFiles
<1>5. created = {}
  BY <1>3, <1>4 DEF Identity!IInv, Identity!TypeOK, Identity!Complete
<1>6. \A q \in Creators \cup Readers : identityAnswer[q] = Nothing
  BY <1>3, <1>4 DEF Identity!IInv, Identity!TypeOK, Identity!AnsweredIsWhole, Identity!Answer
<1>7. ASSUME NEW q \in Creators \cup Readers, identityPc[q] = "again" PROVE FALSE
  <2>1. Identity!Complete(key[q]) /\ key[q] = identityFile["signer"]
    BY <1>7 DEF Identity!IInv, Identity!ReadPosition
  <2>2. identityFile["manifest"] = identityFile["state"]
    BY <1>4, <2>1, IdentityFiles DEF Identity!Complete
  <2>3. identityFile["manifest"] = identityFile["summary"]
    BY <1>4, <2>1, IdentityFiles DEF Identity!Complete
  <2>4. /\ identityFile["manifest"] =
             IF 1 < at[p] THEN key[p]
             ELSE IF 1 = at[p] /\ identityPc[p] = "fill" THEN TornFile ELSE Absent
        /\ identityFile["summary"] =
             IF 3 < at[p] THEN key[p]
             ELSE IF 3 = at[p] /\ identityPc[p] = "fill" THEN TornFile ELSE Absent
    BY <1>1, IdentityFiles
  <2>5. identityFile["state"] # Absent
    BY <1>7 DEF Identity!IInv, Identity!ReadPosition
  <2>6. QED
    BY <1>1, <1>2, <1>3, <2>2, <2>4, <2>5
<1>8. \A q \in Creators \cup Readers : identityPc[q] \in {"signer", "summary", "state"} =>
        at[p] = 4 /\ identityPc[p] = "fill"
  BY <1>2 DEF Identity!IInv, Identity!ReadPosition
<1>9. QED
  BY <1>1, <1>2, <1>3, <1>5, <1>6, <1>7, <1>8

LEMMA IdentityInit == Identity!Init => Identity!IInv
<1> SUFFICES ASSUME Identity!Init PROVE Identity!IInv
  OBVIOUS
<1>1. Identity!TypeOK
  BY IdentityFiles DEF Identity!Init, Identity!TypeOK
<1>2. Identity!Ordered
  BY IdentityFiles DEF Identity!Init, Identity!Ordered
<1>3. QED
  BY <1>1, <1>2
  DEF Identity!Init, Identity!IInv, Identity!CreatePosition, Identity!ReadPosition,
      Identity!AnsweredIsWhole, Identity!BundleSignedByIdentity

\* A step of one process that changes no file.
LEMMA IdentityLooks ==
  ASSUME Identity!IInv, NEW p \in Creators \cup Readers, identityFile' = identityFile,
         Identity!TypeOK',
         \A q \in (Creators \cup Readers) \ {p} :
           /\ identityPc'[q] = identityPc[q] /\ identityCmd'[q] = identityCmd[q]
           /\ at'[q] = at[q] /\ key'[q] = key[q] /\ identityAnswer'[q] = identityAnswer[q],
         identityCmd'[p] = "create" => p \in Creators,
         Identity!CreatePosition(p)', Identity!ReadPosition(p)',
         \/ identityAnswer'[p] = identityAnswer[p]
         \/ /\ identityAnswer'[p].signer = identityAnswer'[p].ref
            /\ Identity!Complete(identityAnswer'[p].ref),
         \A k \in created' \ created : Identity!Complete(k)
  PROVE  Identity!IInv'
<1>1. Identity!Ordered'
  BY DEF Identity!IInv, Identity!Ordered
<1>2. ASSUME NEW q \in (Creators \cup Readers) \ {p}
      PROVE  Identity!CreatePosition(q)' /\ Identity!ReadPosition(q)'
  BY <1>2 DEF Identity!IInv, Identity!CreatePosition, Identity!ReadPosition, Identity!Complete
<1>3. Identity!AnsweredIsWhole' /\ Identity!BundleSignedByIdentity'
  BY DEF Identity!IInv, Identity!AnsweredIsWhole, Identity!BundleSignedByIdentity, Identity!Complete
<1>4. (\A k \in created : Identity!Complete(k))'
  BY DEF Identity!IInv, Identity!Complete
<1>5. QED
  BY <1>1, <1>2, <1>3, <1>4 DEF Identity!IInv

\* A command that ends, with or without an answer.
LEMMA IdentityReturn ==
  ASSUME Identity!IInv, NEW p \in Creators \cup Readers, Identity!Return(p),
         identityFile' = identityFile,
         \A q \in (Creators \cup Readers) \ {p} : identityAnswer'[q] = identityAnswer[q],
         identityAnswer' \in [Creators \cup Readers -> Identity!Answer \cup {Nothing}],
         created' \subseteq SignerKeys,
         \/ identityAnswer'[p] = identityAnswer[p]
         \/ /\ identityAnswer'[p].signer = identityAnswer'[p].ref
            /\ Identity!Complete(identityAnswer'[p].ref),
         \A k \in created' \ created : Identity!Complete(k)
  PROVE  Identity!IInv'
<1>0. Identity!TypeOK
  BY DEF Identity!IInv
<1>1. /\ identityPc' = [identityPc EXCEPT ![p] = "idle"]
      /\ identityCmd' = [identityCmd EXCEPT ![p] = "none"]
      /\ at' = [at EXCEPT ![p] = 0] /\ key' = [key EXCEPT ![p] = Nothing]
  BY DEF Identity!Return, Identity!Goto
<1>2. Identity!TypeOK'
  BY <1>0, <1>1, IdentityFiles DEF Identity!TypeOK
<1>3. identityPc'[p] = "idle" /\ identityCmd'[p] = "none"
  BY <1>0, <1>1 DEF Identity!TypeOK
<1>4. \A q \in (Creators \cup Readers) \ {p} :
           /\ identityPc'[q] = identityPc[q] /\ identityCmd'[q] = identityCmd[q]
           /\ at'[q] = at[q] /\ key'[q] = key[q]
  BY <1>0, <1>1 DEF Identity!TypeOK
<1>5. Identity!CreatePosition(p)' /\ Identity!ReadPosition(p)'
  BY <1>3 DEF Identity!CreatePosition, Identity!ReadPosition
<1>6. QED
  BY <1>2, <1>3, <1>4, <1>5, IdentityLooks

\* A step to a new position, with what is known there.
LEMMA IdentityGoes ==
  ASSUME Identity!IInv, NEW p \in Creators \cup Readers,
         NEW to \in {"check", "open", "signer", "summary", "state", "again"},
         NEW k \in SignerKeys \cup {Nothing}, NEW i \in 0..4,
         NEW kind \in Identity!Kinds(p) \cup {identityCmd[p]},
         identityPc' = [identityPc EXCEPT ![p] = to],
         identityCmd' = [identityCmd EXCEPT ![p] = kind],
         at' = [at EXCEPT ![p] = i],
         key' = [key EXCEPT ![p] = k],
         UNCHANGED <<identityFile, identityAnswer, created>>,
         to = "open" => /\ i = 1 /\ p \in Creators /\ k \in SignerKeys
                        /\ \A f \in Identity!Names : identityFile[f] = Absent,
         to \in {"signer", "summary", "state", "again"} => identityFile["state"] # Absent,
         to \in {"summary", "state", "again"} => k = identityFile["signer"],
         to = "again" => Identity!Complete(k)
  PROVE  Identity!IInv'
<1>0. Identity!TypeOK
  BY DEF Identity!IInv
<1>1. /\ identityPc'[p] = to /\ identityCmd'[p] = kind /\ at'[p] = i /\ key'[p] = k
      /\ \A q \in (Creators \cup Readers) \ {p} :
           /\ identityPc'[q] = identityPc[q] /\ identityCmd'[q] = identityCmd[q]
           /\ at'[q] = at[q] /\ key'[q] = key[q] /\ identityAnswer'[q] = identityAnswer[q]
  BY <1>0 DEF Identity!TypeOK
<1>2. kind \in {"none", "create", "status", "export"} /\ (kind = "create" => p \in Creators)
  BY <1>0 DEF Identity!Kinds, Identity!TypeOK, Identity!IInv
<1>3. Identity!TypeOK'
  BY <1>0, <1>2, IdentityFiles DEF Identity!TypeOK
<1>4. Identity!CreatePosition(p)'
  BY <1>1, IdentityFiles DEF Identity!CreatePosition
<1>5. Identity!ReadPosition(p)'
  BY <1>1 DEF Identity!ReadPosition, Identity!Complete
<1>6. QED
  BY <1>1, <1>2, <1>3, <1>4, <1>5, IdentityLooks

\* The creator empties the next file: those before it are written, no later one is.
LEMMA IdentityOpen ==
  ASSUME Identity!OneCreator, Identity!IInv, NEW p \in Creators \cup Readers, Identity!OpenFile(p)
  PROVE  Identity!IInv'
<1>0. Identity!TypeOK
  BY DEF Identity!IInv
<1>1. /\ identityPc[p] = "open" /\ UNCHANGED <<identityCmd, at, key, identityAnswer, created>>
      /\ identityFile' = [identityFile EXCEPT ![Identity!Files[at[p]]] = TornFile]
      /\ identityPc' = [identityPc EXCEPT ![p] = "fill"]
  BY DEF Identity!OpenFile, Identity!Goto
<1>2. /\ at[p] \in 1..4 /\ p \in Creators /\ key[p] \in SignerKeys /\ created = {}
      /\ \A i \in 1..4 : identityFile[Identity!Files[i]] = IF i < at[p] THEN key[p] ELSE Absent
      /\ \A q \in Creators \cup Readers :
           /\ identityAnswer[q] = Nothing
           /\ identityPc[q] \notin {"again", "signer", "summary", "state"}
  BY <1>1, IdentityOpened
<1>3. /\ identityPc'[p] = "fill"
      /\ \A q \in (Creators \cup Readers) \ {p} : identityPc'[q] = identityPc[q]
      /\ \A i \in 1..4 : identityFile'[Identity!Files[i]] =
           IF i < at[p] THEN key[p] ELSE IF i = at[p] THEN TornFile ELSE Absent
  BY <1>0, <1>1, <1>2, IdentityFiles DEF Identity!TypeOK
<1>4. Identity!TypeOK'
  BY <1>0, <1>1 DEF Identity!TypeOK
<1>5. Identity!Ordered'
  <2>1. \A i \in 1..3 : i \in 1..4 /\ i + 1 \in 1..4
    OBVIOUS
  <2>2. ASSUME NEW i \in 1..3, identityFile'[Identity!Files[i + 1]] # Absent
        PROVE  /\ identityFile'[Identity!Files[i]] \in SignerKeys
               /\ identityFile'[Identity!Files[i + 1]] \in {identityFile'[Identity!Files[i]], TornFile}
    BY <1>2, <1>3, <2>1, <2>2
  <2>3. QED
    BY <2>2, IdentityFiles DEF Identity!Ordered
<1>6. Identity!CreatePosition(p)'
  BY <1>1, <1>2, <1>3, IdentityFiles DEF Identity!CreatePosition
<1>7. \A q \in (Creators \cup Readers) \ {p} : Identity!CreatePosition(q)'
  <2>1. \A q \in (Creators \cup Readers) \ {p} : identityPc[q] \notin {"open", "fill", "created"}
    BY <1>2 DEF Identity!IInv, Identity!CreatePosition, Identity!OneCreator
  <2>2. QED
    BY <1>3, <2>1 DEF Identity!CreatePosition
<1>8. \A q \in Creators \cup Readers : Identity!ReadPosition(q)'
  BY <1>2, <1>3 DEF Identity!ReadPosition
<1>9. QED
  BY <1>0, <1>1, <1>2, <1>4, <1>5, <1>6, <1>7, <1>8
  DEF Identity!IInv, Identity!AnsweredIsWhole, Identity!BundleSignedByIdentity

\* The creator writes it with the key of this identity.
LEMMA IdentityFill ==
  ASSUME Identity!OneCreator, Identity!IInv, NEW p \in Creators \cup Readers, Identity!FillFile(p)
  PROVE  Identity!IInv'
<1> DEFINE last == at[p] = 4
<1>0. Identity!TypeOK
  BY DEF Identity!IInv
<1>1. /\ at[p] \in 1..4 /\ p \in Creators /\ key[p] \in SignerKeys /\ created = {}
      /\ identityPc[p] = "fill"
      /\ \A i \in 1..4 : identityFile[Identity!Files[i]] =
           IF i < at[p] THEN key[p] ELSE IF i = at[p] THEN TornFile ELSE Absent
      /\ \A q \in Creators \cup Readers :
           /\ identityAnswer[q] = Nothing /\ identityPc[q] # "again"
           /\ identityPc[q] \in {"signer", "summary", "state"} => last
  BY IdentityOpened DEF Identity!FillFile
<1>2. /\ UNCHANGED <<identityCmd, key, identityAnswer, created>>
      /\ identityFile' = [identityFile EXCEPT ![Identity!Files[at[p]]] = key[p]]
      /\ identityPc' = [identityPc EXCEPT ![p] = IF last THEN "created" ELSE "open"]
      /\ at' = [at EXCEPT ![p] = IF last THEN 4 ELSE at[p] + 1]
  <2>1. ~Identity!Readable(Identity!Files[at[p]])
    BY <1>1 DEF Identity!Readable
  <2>2. at' = [at EXCEPT ![p] = IF last THEN 4 ELSE at[p] + 1]
    BY <1>0, IdentityFiles DEF Identity!FillFile, Identity!TypeOK
  <2>3. QED
    BY <2>1, <2>2, IdentityFiles DEF Identity!FillFile, Identity!Goto
<1>3. /\ identityPc'[p] = (IF last THEN "created" ELSE "open")
      /\ at'[p] = (IF last THEN 4 ELSE at[p] + 1)
      /\ \A q \in (Creators \cup Readers) \ {p} : identityPc'[q] = identityPc[q]
      /\ \A i \in 1..4 : identityFile'[Identity!Files[i]] = IF i <= at[p] THEN key[p] ELSE Absent
  BY <1>0, <1>1, <1>2, IdentityFiles DEF Identity!TypeOK
<1>4. Identity!TypeOK'
  <2>1. (IF last THEN 4 ELSE at[p] + 1) \in 0..4
    BY <1>1
  <2>2. QED
    BY <1>0, <1>1, <1>2, <2>1, IdentityFiles DEF Identity!TypeOK
<1>5. Identity!Ordered'
  <2>1. \A i \in 1..3 : i \in 1..4 /\ i + 1 \in 1..4
    OBVIOUS
  <2>2. ASSUME NEW i \in 1..3, identityFile'[Identity!Files[i + 1]] # Absent
        PROVE  /\ identityFile'[Identity!Files[i]] \in SignerKeys
               /\ identityFile'[Identity!Files[i + 1]] \in {identityFile'[Identity!Files[i]], TornFile}
    BY <1>1, <1>3, <2>1, <2>2
  <2>3. QED
    BY <2>2, IdentityFiles DEF Identity!Ordered
<1>6. Identity!CreatePosition(p)'
  <2>1. CASE last
    <3>1. \A f \in Identity!Names : identityFile'[f] = key'[p]
      BY <1>1, <1>2, <1>3, <2>1, IdentityFiles
    <3>2. QED
      BY <1>1, <1>2, <1>3, <2>1, <3>1 DEF Identity!CreatePosition, Identity!Complete
  <2>2. CASE ~last
    BY <1>1, <1>2, <1>3, <2>2, IdentityFiles DEF Identity!CreatePosition
  <2>3. QED
    BY <2>1, <2>2
<1>7. \A q \in (Creators \cup Readers) \ {p} : Identity!CreatePosition(q)'
  <2>1. \A q \in (Creators \cup Readers) \ {p} : identityPc[q] \notin {"open", "fill", "created"}
    BY <1>1 DEF Identity!IInv, Identity!CreatePosition, Identity!OneCreator
  <2>2. QED
    BY <1>3, <2>1 DEF Identity!CreatePosition
<1>8. ASSUME NEW q \in Creators \cup Readers PROVE Identity!ReadPosition(q)'
  <2>1. CASE q = p
    BY <1>3, <2>1 DEF Identity!ReadPosition
  <2>2. CASE q # p /\ identityPc[q] \in {"signer", "summary", "state"}
    <3>1. last
      BY <1>1, <2>2
    <3>2. /\ identityFile'["signer"] = identityFile["signer"]
          /\ identityFile'["state"] = key[p]
      BY <1>1, <1>3, <3>1, IdentityFiles
    <3>3. key[p] # Absent
      BY <1>1, DeviceAssumption DEF Identity!KeyAssumption
    <3>4. QED
      BY <1>2, <1>3, <2>2, <3>2, <3>3 DEF Identity!IInv, Identity!ReadPosition
  <2>3. CASE q # p /\ identityPc[q] \notin {"signer", "summary", "state"}
    BY <1>1, <1>3, <2>3 DEF Identity!ReadPosition
  <2>4. QED
    BY <2>1, <2>2, <2>3
<1>9. QED
  BY <1>1, <1>2, <1>4, <1>5, <1>6, <1>7, <1>8
  DEF Identity!IInv, Identity!AnsweredIsWhole, Identity!BundleSignedByIdentity

LEMMA IdentityStep ==
  ASSUME Identity!OneCreator, Identity!IInv, Identity!Next
  PROVE  Identity!IInv'
<1> DEFINE P == Creators \cup Readers
<1>0. Identity!TypeOK
  BY DEF Identity!IInv
<1>1. ASSUME NEW p \in P, NEW kind \in Identity!Kinds(p), Identity!Start(p, kind)
      PROVE  Identity!IInv'
  <2>1. /\ identityPc' = [identityPc EXCEPT ![p] = "check"]
        /\ identityCmd' = [identityCmd EXCEPT ![p] = kind]
        /\ at' = [at EXCEPT ![p] = at[p]] /\ key' = [key EXCEPT ![p] = key[p]]
        /\ UNCHANGED <<identityFile, identityAnswer, created>>
        /\ at[p] \in 0..4 /\ key[p] \in SignerKeys \cup {Nothing}
    BY <1>0, <1>1, IdentityFiles DEF Identity!Start, Identity!Goto, Identity!TypeOK
  <2>2. QED
    BY <2>1, IdentityGoes
<1>2. ASSUME NEW p \in P, Identity!CheckAbsent(p) PROVE Identity!IInv'
  <2>1. PICK k \in SignerKeys : key' = [key EXCEPT ![p] = k]
    BY <1>2 DEF Identity!CheckAbsent, Identity!Draws
  <2>2. /\ identityPc' = [identityPc EXCEPT ![p] = "open"]
        /\ identityCmd' = [identityCmd EXCEPT ![p] = identityCmd[p]]
        /\ at' = [at EXCEPT ![p] = 1]
        /\ UNCHANGED <<identityFile, identityAnswer, created>>
        /\ p \in Creators /\ \A f \in Identity!Names : identityFile[f] = Absent
    BY <1>0, <1>2 DEF Identity!CheckAbsent, Identity!Goto, Identity!TypeOK, Identity!IInv
  <2>3. 1 \in 0..4
    OBVIOUS
  <2>4. QED
    BY <2>1, <2>2, <2>3, IdentityGoes
<1>3. ASSUME NEW p \in P, Identity!AnswerCreated(p) PROVE Identity!IInv'
  <2>1. /\ Identity!Return(p) /\ UNCHANGED <<identityFile, identityAnswer>>
        /\ created' = created \cup {key[p]} /\ key[p] \in SignerKeys /\ Identity!Complete(key[p])
    BY <1>3 DEF Identity!AnswerCreated, Identity!IInv, Identity!CreatePosition
  <2>2. /\ identityAnswer' \in [P -> Identity!Answer \cup {Nothing}]
        /\ created' \subseteq SignerKeys /\ \A k \in created' \ created : Identity!Complete(k)
    BY <1>0, <2>1 DEF Identity!TypeOK
  <2>3. QED
    BY <2>1, <2>2, IdentityReturn
<1>4. ASSUME NEW p \in P, Identity!CheckPresent(p) PROVE Identity!IInv'
  <2>1. /\ identityPc' = [identityPc EXCEPT ![p] = "signer"]
        /\ identityCmd' = [identityCmd EXCEPT ![p] = identityCmd[p]]
        /\ at' = [at EXCEPT ![p] = at[p]] /\ key' = [key EXCEPT ![p] = key[p]]
        /\ UNCHANGED <<identityFile, identityAnswer, created>>
        /\ at[p] \in 0..4 /\ key[p] \in SignerKeys \cup {Nothing}
        /\ identityFile["state"] # Absent
    BY <1>0, <1>4, IdentityFiles DEF Identity!CheckPresent, Identity!Goto, Identity!TypeOK
  <2>2. QED
    BY <2>1, IdentityGoes
<1>5. ASSUME NEW p \in P, Identity!ReadSigner(p) PROVE Identity!IInv'
  <2>1. /\ identityPc' = [identityPc EXCEPT ![p] = "summary"]
        /\ identityCmd' = [identityCmd EXCEPT ![p] = identityCmd[p]]
        /\ at' = [at EXCEPT ![p] = at[p]]
        /\ key' = [key EXCEPT ![p] = identityFile["signer"]]
        /\ UNCHANGED <<identityFile, identityAnswer, created>>
        /\ at[p] \in 0..4 /\ identityFile["signer"] \in SignerKeys
        /\ identityFile["state"] # Absent
    BY <1>0, <1>5, IdentityFiles
    DEF Identity!ReadSigner, Identity!Readable, Identity!Goto, Identity!TypeOK, Identity!IInv,
        Identity!ReadPosition
  <2>2. QED
    BY <2>1, IdentityGoes
<1>6. ASSUME NEW p \in P, Identity!ReadSummary(p) PROVE Identity!IInv'
  <2>1. /\ identityPc' = [identityPc EXCEPT ![p] = "state"]
        /\ identityCmd' = [identityCmd EXCEPT ![p] = identityCmd[p]]
        /\ at' = [at EXCEPT ![p] = at[p]] /\ key' = [key EXCEPT ![p] = key[p]]
        /\ UNCHANGED <<identityFile, identityAnswer, created>>
        /\ at[p] \in 0..4 /\ key[p] \in SignerKeys \cup {Nothing}
        /\ identityFile["state"] # Absent /\ key[p] = identityFile["signer"]
    BY <1>0, <1>6, IdentityFiles
    DEF Identity!ReadSummary, Identity!Goto, Identity!TypeOK, Identity!IInv, Identity!ReadPosition
  <2>2. QED
    BY <2>1, IdentityGoes
<1>7. ASSUME NEW p \in P, Identity!ReadState(p) PROVE Identity!IInv'
  <2>1. /\ identityPc[p] = "state" /\ key[p] = identityFile["signer"]
        /\ identityFile["state"] \in SignerKeys /\ identityFile["state"] # Absent
        /\ UNCHANGED <<identityFile, created>>
    BY <1>0, <1>7, IdentityFiles
    DEF Identity!ReadState, Identity!Readable, Identity!TypeOK, Identity!IInv, Identity!ReadPosition
  <2>2. Identity!Complete(key[p]) /\ key[p] \in SignerKeys
    <3>1. TornFile \notin SignerKeys /\ Absent \notin SignerKeys
      BY DeviceAssumption DEF Identity!KeyAssumption
    <3>2. 1 \in 1..3 /\ 2 \in 1..3 /\ 3 \in 1..3 /\ 1 + 1 = 2 /\ 2 + 1 = 3 /\ 3 + 1 = 4
      OBVIOUS
    <3>3. \A i \in 1..3 : identityFile[Identity!Files[i + 1]] \in SignerKeys =>
            identityFile[Identity!Files[i]] = identityFile[Identity!Files[i + 1]]
      <4>1. \A i \in 1..3 : identityFile[Identity!Files[i + 1]] # Absent =>
              identityFile[Identity!Files[i + 1]] \in {identityFile[Identity!Files[i]], TornFile}
        BY IdentityFiles DEF Identity!IInv, Identity!Ordered
      <4>2. QED
        BY <3>1, <4>1
    <3>4. identityFile["summary"] = identityFile["state"]
      BY <2>1, <3>2, <3>3, IdentityFiles
    <3>5. identityFile["signer"] = identityFile["summary"]
      BY <2>1, <3>2, <3>3, <3>4, IdentityFiles
    <3>6. identityFile["manifest"] = identityFile["signer"]
      BY <2>1, <3>2, <3>3, <3>4, <3>5, IdentityFiles
    <3>7. QED
      BY <2>1, <3>4, <3>5, <3>6, IdentityFiles DEF Identity!Complete
  <2>3. CASE identityCmd[p] = "status"
    <3>1. /\ Identity!Return(p)
          /\ identityAnswer' = [identityAnswer EXCEPT ![p] = [ref |-> key[p], signer |-> key[p]]]
      BY <1>7, <2>3 DEF Identity!ReadState
    <3>2. /\ identityAnswer'[p] = [ref |-> key[p], signer |-> key[p]]
          /\ \A q \in P \ {p} : identityAnswer'[q] = identityAnswer[q]
          /\ identityAnswer' \in [P -> Identity!Answer \cup {Nothing}]
      BY <1>0, <2>2, <3>1 DEF Identity!TypeOK, Identity!Answer
    <3>3. created' \subseteq SignerKeys /\ created' \ created = {}
      BY <1>0, <2>1 DEF Identity!TypeOK
    <3>4. /\ identityAnswer'[p].signer = identityAnswer'[p].ref
          /\ Identity!Complete(identityAnswer'[p].ref)
      BY <2>2, <3>2
    <3>5. QED
      BY <2>1, <3>1, <3>2, <3>3, <3>4, IdentityReturn
  <2>4. CASE identityCmd[p] # "status"
    <3>1. /\ identityPc' = [identityPc EXCEPT ![p] = "again"]
          /\ identityCmd' = [identityCmd EXCEPT ![p] = identityCmd[p]]
          /\ at' = [at EXCEPT ![p] = at[p]] /\ key' = [key EXCEPT ![p] = key[p]]
          /\ UNCHANGED identityAnswer /\ at[p] \in 0..4
      BY <1>0, <1>7, <2>4, IdentityFiles DEF Identity!ReadState, Identity!Goto, Identity!TypeOK
    <3>2. QED
      BY <2>1, <2>2, <3>1, IdentityGoes
  <2>5. QED
    BY <2>3, <2>4
<1>8. ASSUME NEW p \in P, Identity!ReadSignerAgain(p) PROVE Identity!IInv'
  <2>1. /\ Identity!Return(p) /\ UNCHANGED <<identityFile, created>>
        /\ identityAnswer' =
             [identityAnswer EXCEPT ![p] = [ref |-> key[p], signer |-> identityFile["signer"]]]
        /\ identityFile["signer"] \in SignerKeys
        /\ Identity!Complete(key[p]) /\ key[p] = identityFile["signer"]
    BY <1>0, <1>8, IdentityFiles
    DEF Identity!ReadSignerAgain, Identity!Readable, Identity!TypeOK, Identity!IInv,
        Identity!ReadPosition
  <2>2. /\ identityAnswer'[p] = [ref |-> key[p], signer |-> key[p]]
        /\ \A q \in P \ {p} : identityAnswer'[q] = identityAnswer[q]
        /\ identityAnswer' \in [P -> Identity!Answer \cup {Nothing}]
    BY <1>0, <2>1 DEF Identity!TypeOK, Identity!Answer
  <2>3. created' \subseteq SignerKeys /\ created' \ created = {}
    BY <1>0, <2>1 DEF Identity!TypeOK
  <2>4. /\ identityAnswer'[p].signer = identityAnswer'[p].ref
        /\ Identity!Complete(identityAnswer'[p].ref)
    BY <2>1, <2>2
  <2>5. QED
    BY <2>1, <2>2, <2>3, <2>4, IdentityReturn
<1>9. ASSUME NEW p \in P, Identity!Fail(p) PROVE Identity!IInv'
  <2>1. identityFile' = identityFile
    <3>1. CASE identityPc[p] = "fill"
      <4>1. at[p] \in 1..4 /\ identityFile[Identity!Files[at[p]]] = TornFile
        BY <3>1, IdentityOpened
      <4>2. [identityFile EXCEPT ![Identity!Files[at[p]]] = TornFile] = identityFile
        BY <1>0, <4>1 DEF Identity!TypeOK
      <4>3. QED
        BY <1>9, <4>2 DEF Identity!Fail
    <3>2. CASE identityPc[p] # "fill"
      BY <1>9, <3>2 DEF Identity!Fail
    <3>3. QED
      BY <3>1, <3>2
  <2>2. /\ Identity!Return(p) /\ UNCHANGED <<identityAnswer, created>>
        /\ identityAnswer' \in [P -> Identity!Answer \cup {Nothing}]
        /\ created' \subseteq SignerKeys /\ created' \ created = {}
    BY <1>0, <1>9 DEF Identity!Fail, Identity!TypeOK
  <2>3. QED
    BY <2>1, <2>2, IdentityReturn
<1>10. QED
  BY <1>1, <1>2, <1>3, <1>4, <1>5, <1>6, <1>7, <1>8, <1>9, IdentityOpen, IdentityFill
  DEF Identity!Next, Identity!Step

\* A create that writes a file has found none, so that no identity was answered.
LEMMA IdentityUntouched ==
  ASSUME Identity!IInv, Identity!Next, NEW k \in created
  PROVE  identityFile' = identityFile
<1>1. ASSUME NEW p \in Creators \cup Readers, Identity!OpenFile(p) \/ Identity!FillFile(p)
      PROVE  FALSE
  BY <1>1, IdentityOpened DEF Identity!OpenFile, Identity!FillFile
<1>2. ASSUME NEW p \in Creators \cup Readers, Identity!Fail(p) PROVE identityFile' = identityFile
  <2>1. identityPc[p] # "fill"
    BY IdentityOpened
  <2>2. QED
    BY <1>2, <2>1 DEF Identity!Fail
<1>3. QED
  BY <1>1, <1>2
  DEF Identity!Next, Identity!Step, Identity!Start, Identity!CheckAbsent, Identity!AnswerCreated,
      Identity!CheckPresent, Identity!ReadSigner, Identity!ReadSummary, Identity!ReadState,
      Identity!ReadSignerAgain

-----------------------------------------------------------------------------
(* Recovery classification *)

LEMMA RecoveryFiles ==
  /\ Recovery!Unread["trust"] = Recovery!File
  /\ Recovery!Unread["history"] = {"history", "candidates"}
  /\ Recovery!Unread["candidates"] = {"candidates"}
  /\ Recovery!After("trust") = "history" /\ Recovery!After("history") = "candidates"
  /\ Recovery!After("candidates") = "input"
  /\ Recovery!File = {"trust", "history", "candidates"}
BY DEF Recovery!Unread, Recovery!After, Recovery!File

\* A process for which no more has been held, and whose position stays.
LEMMA RecoveryFrame ==
  ASSUME Recovery!IInv, NEW p \in Classifiers,
         recoveryPc'[p] = recoveryPc[p], input'[p] = input[p],
         recoveryAnswer'[p] = recoveryAnswer[p],
         \A f \in Recovery!File : held[p][f] \subseteq held'[p][f],
         recoveryPc[p] \in Recovery!File =>
           \A f \in Recovery!Unread[recoveryPc[p]] : recoveryFile'[f] \in held'[p][f]
  PROVE  Recovery!Position(p)' /\ Recovery!AnswerPosition(p)'
<1>1. Recovery!Position(p)'
  BY RecoveryFiles DEF Recovery!IInv, Recovery!Position, Recovery!Passed
<1>2. Recovery!AnswerPosition(p)'
  <2>0. SUFFICES ASSUME Recovery!Answered(p) PROVE Recovery!AnswerPosition(p)'
    BY DEF Recovery!Answered, Recovery!AnswerPosition
  <2>1. CASE \E f \in Recovery!File, c \in {"absent", "torn"} :
                /\ recoveryAnswer[p] = Recovery!Damage(f, c) /\ c \in held[p][f]
                /\ \A g \in Recovery!File \ Recovery!Unread[f] : Recovery!Passed(p, g)
    <3>1. PICK f \in Recovery!File, c \in {"absent", "torn"} :
                /\ recoveryAnswer[p] = Recovery!Damage(f, c) /\ c \in held[p][f]
                /\ \A g \in Recovery!File \ Recovery!Unread[f] : Recovery!Passed(p, g)
      BY <2>1
    <3>2. /\ recoveryAnswer'[p] = Recovery!Damage(f, c) /\ c \in held'[p][f]
          /\ \A g \in Recovery!File \ Recovery!Unread[f] : Recovery!Passed(p, g)'
      BY <3>1 DEF Recovery!Passed
    <3>3. QED
      BY <3>2 DEF Recovery!AnswerPosition
  <2>2. CASE /\ recoveryAnswer[p].about = "none"
             /\ recoveryAnswer[p].class = Recovery!ClassOfInput(input[p])
             /\ recoveryAnswer[p].blocksSend = Recovery!BlocksOnInput(input[p])
             /\ \A f \in Recovery!File : Recovery!Passed(p, f)
    BY <2>2 DEF Recovery!AnswerPosition, Recovery!Passed
  <2>3. QED
    BY <2>0, <2>1, <2>2 DEF Recovery!IInv, Recovery!AnswerPosition
<1>3. QED
  BY <1>1, <1>2

\* What a change of a file adds to what the processes may still read.
LEMMA RecoveryChange ==
  ASSUME Recovery!IInv, NEW f \in Recovery!File, NEW c \in Recovery!Condition,
         Recovery!Becomes(f, c)
  PROVE  /\ recoveryFile' \in [Recovery!File -> Recovery!Condition]
         /\ held' \in [Classifiers -> [Recovery!File -> SUBSET Recovery!Condition]]
         /\ \A p \in Classifiers, g \in Recovery!File : held[p][g] \subseteq held'[p][g]
         /\ \A p \in Classifiers : recoveryPc[p] \in Recovery!File =>
              \A g \in Recovery!Unread[recoveryPc[p]] : recoveryFile'[g] \in held'[p][g]
<1>0. /\ recoveryFile \in [Recovery!File -> Recovery!Condition]
      /\ held \in [Classifiers -> [Recovery!File -> SUBSET Recovery!Condition]]
      /\ \A p \in Classifiers : Recovery!Position(p)
  BY DEF Recovery!IInv, Recovery!TypeOK
<1>1. /\ recoveryFile' = [recoveryFile EXCEPT ![f] = c]
      /\ held' = [p \in Classifiers |->
           IF recoveryPc[p] \in Recovery!File /\ f \in Recovery!Unread[recoveryPc[p]]
           THEN [held[p] EXCEPT ![f] = @ \cup {c}] ELSE held[p]]
  BY DEF Recovery!Becomes
<1>2. recoveryFile' \in [Recovery!File -> Recovery!Condition]
  BY <1>0, <1>1
<1>3. \A p \in Classifiers :
        /\ held'[p] \in [Recovery!File -> SUBSET Recovery!Condition]
        /\ \A g \in Recovery!File :
             held'[p][g] = IF /\ recoveryPc[p] \in Recovery!File
                              /\ f \in Recovery!Unread[recoveryPc[p]] /\ g = f
                           THEN held[p][g] \cup {c} ELSE held[p][g]
  BY <1>0, <1>1
<1>4. held' \in [Classifiers -> [Recovery!File -> SUBSET Recovery!Condition]]
  BY <1>1, <1>3
<1>5. \A p \in Classifiers, g \in Recovery!File : held[p][g] \subseteq held'[p][g]
  BY <1>3
<1>6. ASSUME NEW p \in Classifiers, recoveryPc[p] \in Recovery!File,
             NEW g \in Recovery!Unread[recoveryPc[p]]
      PROVE  recoveryFile'[g] \in held'[p][g]
  <2>1. g \in Recovery!File
    BY <1>6, RecoveryFiles
  <2>2. recoveryFile[g] \in held[p][g]
    BY <1>0, <1>6 DEF Recovery!Position
  <2>3. recoveryFile'[g] = IF g = f THEN c ELSE recoveryFile[g]
    BY <1>0, <1>1, <2>1
  <2>4. QED
    BY <1>3, <1>6, <2>1, <2>2, <2>3
<1>7. QED
  BY <1>2, <1>4, <1>5, <1>6

LEMMA RecoveryInit == Recovery!Init => Recovery!IInv
BY DEF Recovery!Init, Recovery!IInv, Recovery!TypeOK, Recovery!Position, Recovery!AnswerPosition,
       Recovery!Answered, Recovery!Passed, Recovery!File, Recovery!Condition

\* A read sees a condition that the file has at this moment, which held has noted.
LEMMA RecoveryRead ==
  ASSUME Recovery!IInv, NEW p \in Classifiers, NEW f \in Recovery!File, Recovery!ReadFile(p, f)
  PROVE  Recovery!IInv'
<1>0. /\ Recovery!TypeOK
      /\ \A q \in Classifiers : Recovery!Position(q) /\ Recovery!AnswerPosition(q)
  BY DEF Recovery!IInv
<1>1. /\ recoveryPc[p] = f /\ UNCHANGED <<recoveryFile, input, held>>
      /\ \A q \in Classifiers \ {p} :
           recoveryPc'[q] = recoveryPc[q] /\ recoveryAnswer'[q] = recoveryAnswer[q]
  BY <1>0 DEF Recovery!ReadFile, Recovery!Goto, Recovery!TypeOK
<1>2. recoveryFile[f] \in held[p][f] /\ recoveryFile[f] \in Recovery!Condition
  BY <1>0, <1>1, RecoveryFiles DEF Recovery!Position, Recovery!TypeOK
<1>3. ASSUME NEW q \in Classifiers \ {p} PROVE Recovery!Position(q)' /\ Recovery!AnswerPosition(q)'
  <2>1. recoveryPc[q] \in Recovery!File =>
          \A g \in Recovery!Unread[recoveryPc[q]] : recoveryFile'[g] \in held'[q][g]
    BY <1>0, <1>1 DEF Recovery!Position
  <2>2. QED
    BY <1>1, <2>1, RecoveryFrame
<1>4. CASE recoveryFile[f] = "sound"
  <2>1. recoveryPc' = [recoveryPc EXCEPT ![p] = Recovery!After(f)] /\ recoveryAnswer' = recoveryAnswer
    BY <1>4 DEF Recovery!ReadFile, Recovery!Goto
  <2>2. recoveryPc'[p] = Recovery!After(f)
    BY <1>0, <2>1 DEF Recovery!TypeOK
  <2>3. Recovery!TypeOK'
    BY <1>0, <1>1, <2>1, RecoveryFiles DEF Recovery!TypeOK
  <2>4. Recovery!Passed(p, f)'
    BY <1>1, <1>2, <1>4 DEF Recovery!Passed
  <2>5. Recovery!Position(p)'
    BY <1>0, <1>1, <2>2, <2>4, RecoveryFiles DEF Recovery!Position, Recovery!Passed
  <2>6. Recovery!AnswerPosition(p)'
    BY <2>2, RecoveryFiles DEF Recovery!AnswerPosition, Recovery!Answered
  <2>7. QED
    BY <1>3, <2>3, <2>5, <2>6 DEF Recovery!IInv
<1>5. CASE recoveryFile[f] # "sound"
  <2>1. /\ recoveryPc' = [recoveryPc EXCEPT ![p] = "record"]
        /\ recoveryAnswer' = [recoveryAnswer EXCEPT ![p] = Recovery!Damage(f, recoveryFile[f])]
    BY <1>5 DEF Recovery!ReadFile, Recovery!Goto
  <2>2. /\ recoveryPc'[p] = "record" /\ recoveryAnswer'[p] = Recovery!Damage(f, recoveryFile[f])
        /\ recoveryFile[f] \in {"absent", "torn"}
    BY <1>0, <1>2, <1>5, <2>1 DEF Recovery!TypeOK, Recovery!Condition
  <2>3. Recovery!Damage(f, recoveryFile[f]) \in Recovery!Answer
    BY <2>2 DEF Recovery!Damage, Recovery!Answer
  <2>4. Recovery!TypeOK'
    BY <1>0, <1>1, <2>1, <2>3 DEF Recovery!TypeOK
  <2>5. Recovery!Position(p)'
    BY <2>2 DEF Recovery!Position, Recovery!File
  <2>6. \A g \in Recovery!File \ Recovery!Unread[f] : Recovery!Passed(p, g)'
    BY <1>0, <1>1 DEF Recovery!Position, Recovery!Passed
  <2>7. Recovery!AnswerPosition(p)'
    BY <1>1, <1>2, <2>2, <2>6 DEF Recovery!AnswerPosition, Recovery!Damage
  <2>8. QED
    BY <1>3, <2>4, <2>5, <2>7 DEF Recovery!IInv
<1>6. QED
  BY <1>4, <1>5

\* What the classification of an input can be.
LEMMA RecoveryClasses ==
  ASSUME NEW i
  PROVE  Recovery!ClassOfInput(i) \in
           {"clean", "reverify", "candidate_conflict", "identity_mismatch", "reenrollment",
            "revoked", "compromised"}
BY DEF Recovery!ClassOfInput, Recovery!ClassOfKnown, Recovery!ClassOfMismatch,
       Recovery!ClassOfCandidate

LEMMA InputBlocks ==
  ASSUME NEW i \in Recovery!Input \cup {Recovery!NoInput}
  PROVE  i.blocks \in BOOLEAN
<1>1. CASE i \in Recovery!Input
  BY <1>1, Zenon DEF Recovery!Input
<1>2. CASE i = Recovery!NoInput
  <2>1. Recovery!NoInput.blocks = FALSE
    BY DEF Recovery!NoInput
  <2>2. QED
    BY <1>2, <2>1
<1>3. QED
  BY <1>1, <1>2

LEMMA RecoveryAnswer ==
  ASSUME NEW class \in {"clean", "reverify", "candidate_conflict", "identity_mismatch",
                        "reenrollment", "revoked", "compromised"},
         NEW blocks \in BOOLEAN
  PROVE  [class |-> class, about |-> "none", blocksSend |-> blocks,
          blocksPromotion |-> class \in {"revoked", "compromised"}] \in Recovery!Answer
BY DEF Recovery!Answer

\* Reads, answers, and changes of the files by anyone else.
LEMMA RecoveryStep ==
  ASSUME Recovery!IInv, Recovery!Next
  PROVE  Recovery!IInv'
<1>0. /\ Recovery!TypeOK
      /\ \A q \in Classifiers : Recovery!Position(q) /\ Recovery!AnswerPosition(q)
  BY DEF Recovery!IInv
<1>a. \A q \in Classifiers : recoveryPc[q] \in Recovery!File =>
        \A g \in Recovery!Unread[recoveryPc[q]] : recoveryFile[g] \in held[q][g]
  BY <1>0 DEF Recovery!Position
<1>1. ASSUME NEW p \in Classifiers, NEW i \in Inputs, Recovery!OrchestrateIdentityRecovery(p, i)
      PROVE  Recovery!IInv'
  <2>1. /\ UNCHANGED <<recoveryFile, recoveryAnswer>>
        /\ recoveryPc' = [recoveryPc EXCEPT ![p] = "trust"]
        /\ input' = [input EXCEPT ![p] = i]
        /\ held' = [held EXCEPT ![p] = [f \in Recovery!File |-> {recoveryFile[f]}]]
    BY <1>1 DEF Recovery!OrchestrateIdentityRecovery, Recovery!Goto
  <2>2. /\ recoveryPc'[p] = "trust"
        /\ \A f \in Recovery!File : held'[p][f] = {recoveryFile[f]}
    BY <1>0, <2>1 DEF Recovery!TypeOK
  <2>3. \A q \in Classifiers \ {p} : /\ recoveryPc'[q] = recoveryPc[q] /\ input'[q] = input[q]
                                     /\ recoveryAnswer'[q] = recoveryAnswer[q] /\ held'[q] = held[q]
    BY <1>0, <2>1 DEF Recovery!TypeOK
  <2>4. Recovery!TypeOK'
    <3>1. i \in Recovery!Input
      BY <1>1, DeviceAssumption DEF Recovery!InputsAssumption
    <3>2. QED
      BY <1>0, <2>1, <3>1 DEF Recovery!TypeOK, Recovery!File
  <2>5. Recovery!Position(p)' /\ Recovery!AnswerPosition(p)'
    BY <2>1, <2>2, RecoveryFiles DEF Recovery!Position, Recovery!AnswerPosition, Recovery!Answered
  <2>6. \A q \in Classifiers \ {p} : Recovery!Position(q)' /\ Recovery!AnswerPosition(q)'
    BY <1>a, <2>1, <2>3, RecoveryFrame
  <2>7. QED
    BY <2>4, <2>5, <2>6 DEF Recovery!IInv
<1>2. ASSUME NEW p \in Classifiers, Recovery!ClassifyInput(p) PROVE Recovery!IInv'
  <2> DEFINE class == Recovery!ClassOfInput(input[p])
             found == [class |-> class, about |-> "none",
                       blocksSend |-> Recovery!BlocksOnInput(input[p]),
                       blocksPromotion |-> class \in {"revoked", "compromised"}]
  <2>1. /\ recoveryPc[p] = "input" /\ UNCHANGED <<recoveryFile, input, held>>
        /\ recoveryPc' = [recoveryPc EXCEPT ![p] = "record"]
        /\ recoveryAnswer' = [recoveryAnswer EXCEPT ![p] = found]
    BY <1>2 DEF Recovery!ClassifyInput, Recovery!Goto
  <2>2. found \in Recovery!Answer
    <3>1. class \in {"clean", "reverify", "candidate_conflict", "identity_mismatch", "reenrollment",
                     "revoked", "compromised"}
      BY RecoveryClasses
    <3>2. input[p].blocks \in BOOLEAN
      BY <1>0, InputBlocks DEF Recovery!TypeOK
    <3>3. Recovery!BlocksOnInput(input[p]) \in BOOLEAN
      BY <3>2 DEF Recovery!BlocksOnInput
    <3> HIDE DEF class
    <3>4. QED
      BY <3>1, <3>3, RecoveryAnswer
  <2>3. /\ found.class = Recovery!ClassOfInput(input[p]) /\ found.about = "none"
        /\ found.blocksSend = Recovery!BlocksOnInput(input[p])
    OBVIOUS
  <2> HIDE DEF found
  <2>4. recoveryPc'[p] = "record" /\ recoveryAnswer'[p] = found
    BY <1>0, <2>1 DEF Recovery!TypeOK
  <2>5. Recovery!TypeOK'
    BY <1>0, <2>1, <2>2 DEF Recovery!TypeOK
  <2>6. Recovery!Position(p)'
    BY <2>4 DEF Recovery!Position, Recovery!File
  <2>7. \A f \in Recovery!File : Recovery!Passed(p, f)'
    BY <1>0, <2>1 DEF Recovery!Position, Recovery!Passed
  <2>8. Recovery!AnswerPosition(p)'
    BY <2>1, <2>3, <2>4, <2>7 DEF Recovery!AnswerPosition
  <2>9. \A q \in Classifiers \ {p} : /\ recoveryPc'[q] = recoveryPc[q]
                                     /\ recoveryAnswer'[q] = recoveryAnswer[q]
    BY <1>0, <2>1 DEF Recovery!TypeOK
  <2>10. \A q \in Classifiers \ {p} : Recovery!Position(q)' /\ Recovery!AnswerPosition(q)'
    BY <1>a, <2>1, <2>9, RecoveryFrame
  <2>11. QED
    BY <2>5, <2>6, <2>8, <2>10 DEF Recovery!IInv
<1>3. ASSUME NEW p \in Classifiers, Recovery!AppendIdentityRecoveryHistoryEvent(p)
      PROVE  Recovery!IInv'
  <2>1. /\ recoveryPc[p] = "record" /\ recoveryPc' = [recoveryPc EXCEPT ![p] = "done"]
        /\ UNCHANGED <<input, recoveryAnswer>>
    BY <1>3 DEF Recovery!AppendIdentityRecoveryHistoryEvent, Recovery!Goto
  <2>2. /\ recoveryFile' \in [Recovery!File -> Recovery!Condition]
        /\ held' \in [Classifiers -> [Recovery!File -> SUBSET Recovery!Condition]]
        /\ \A q \in Classifiers, g \in Recovery!File : held[q][g] \subseteq held'[q][g]
        /\ \A q \in Classifiers : recoveryPc[q] \in Recovery!File =>
             \A g \in Recovery!Unread[recoveryPc[q]] : recoveryFile'[g] \in held'[q][g]
    <3>1. CASE Recovery!Becomes("history", "sound")
      <4>1. "history" \in Recovery!File /\ "sound" \in Recovery!Condition
        BY DEF Recovery!File, Recovery!Condition
      <4>2. QED
        BY <3>1, <4>1, RecoveryChange
    <3>2. CASE UNCHANGED <<recoveryFile, held>>
      BY <1>0, <1>a, <3>2 DEF Recovery!TypeOK
    <3>3. QED
      BY <1>3, <3>1, <3>2 DEF Recovery!AppendIdentityRecoveryHistoryEvent
  <2>3. Recovery!TypeOK'
    BY <1>0, <2>1, <2>2 DEF Recovery!TypeOK
  <2>4. recoveryPc'[p] = "done"
    BY <1>0, <2>1 DEF Recovery!TypeOK
  <2>5. Recovery!Position(p)'
    BY <2>4 DEF Recovery!Position, Recovery!File
  <2>6. Recovery!AnswerPosition(p)'
    <3>1. CASE \E f \in Recovery!File, c \in {"absent", "torn"} :
                 /\ recoveryAnswer[p] = Recovery!Damage(f, c) /\ c \in held[p][f]
                 /\ \A g \in Recovery!File \ Recovery!Unread[f] : Recovery!Passed(p, g)
      BY <2>1, <2>2, <3>1 DEF Recovery!AnswerPosition, Recovery!Passed
    <3>2. CASE /\ recoveryAnswer[p].about = "none"
               /\ recoveryAnswer[p].class = Recovery!ClassOfInput(input[p])
               /\ recoveryAnswer[p].blocksSend = Recovery!BlocksOnInput(input[p])
               /\ \A f \in Recovery!File : Recovery!Passed(p, f)
      BY <2>1, <2>2, <3>2 DEF Recovery!AnswerPosition, Recovery!Passed
    <3>3. QED
      BY <1>0, <2>1, <3>1, <3>2 DEF Recovery!AnswerPosition, Recovery!Answered
  <2>7. \A q \in Classifiers \ {p} : recoveryPc'[q] = recoveryPc[q]
    BY <1>0, <2>1 DEF Recovery!TypeOK
  <2>8. \A q \in Classifiers \ {p} : Recovery!Position(q)' /\ Recovery!AnswerPosition(q)'
    BY <2>1, <2>2, <2>7, RecoveryFrame
  <2>9. QED
    BY <2>3, <2>5, <2>6, <2>8 DEF Recovery!IInv
<1>4. ASSUME NEW p \in Classifiers, Recovery!Return(p) PROVE Recovery!IInv'
  <2>1. /\ recoveryFile' = recoveryFile
        /\ recoveryPc' = [recoveryPc EXCEPT ![p] = "idle"]
        /\ input' = [input EXCEPT ![p] = Recovery!NoInput]
        /\ recoveryAnswer' = [recoveryAnswer EXCEPT ![p] = Recovery!NoAnswer]
        /\ held' = [held EXCEPT ![p] = [f \in Recovery!File |-> {}]]
    BY <1>4 DEF Recovery!Return, Recovery!Goto
  <2>2. recoveryPc'[p] = "idle"
    BY <1>0, <2>1 DEF Recovery!TypeOK
  <2>3. \A q \in Classifiers \ {p} : /\ recoveryPc'[q] = recoveryPc[q] /\ input'[q] = input[q]
                                     /\ recoveryAnswer'[q] = recoveryAnswer[q] /\ held'[q] = held[q]
    BY <1>0, <2>1 DEF Recovery!TypeOK
  <2>4. Recovery!TypeOK'
    BY <1>0, <2>1 DEF Recovery!TypeOK
  <2>5. Recovery!Position(p)' /\ Recovery!AnswerPosition(p)'
    BY <2>2 DEF Recovery!Position, Recovery!AnswerPosition, Recovery!Answered, Recovery!File
  <2>6. \A q \in Classifiers \ {p} : Recovery!Position(q)' /\ Recovery!AnswerPosition(q)'
    BY <1>a, <2>1, <2>3, RecoveryFrame
  <2>7. QED
    BY <2>4, <2>5, <2>6 DEF Recovery!IInv
<1>5. ASSUME NEW f \in Recovery!File, NEW c \in Recovery!Condition, Recovery!Change(f, c)
      PROVE  Recovery!IInv'
  <2>1. Recovery!Becomes(f, c) /\ UNCHANGED <<recoveryPc, input, recoveryAnswer>>
    BY <1>5 DEF Recovery!Change
  <2>2. /\ recoveryFile' \in [Recovery!File -> Recovery!Condition]
        /\ held' \in [Classifiers -> [Recovery!File -> SUBSET Recovery!Condition]]
        /\ \A q \in Classifiers, g \in Recovery!File : held[q][g] \subseteq held'[q][g]
        /\ \A q \in Classifiers : recoveryPc[q] \in Recovery!File =>
             \A g \in Recovery!Unread[recoveryPc[q]] : recoveryFile'[g] \in held'[q][g]
    BY <2>1, RecoveryChange
  <2>3. Recovery!TypeOK'
    BY <1>0, <2>1, <2>2 DEF Recovery!TypeOK
  <2>4. \A q \in Classifiers : Recovery!Position(q)' /\ Recovery!AnswerPosition(q)'
    BY <2>1, <2>2, RecoveryFrame
  <2>5. QED
    BY <2>3, <2>4 DEF Recovery!IInv
<1>6. QED
  BY <1>1, <1>2, <1>3, <1>4, <1>5, RecoveryRead DEF Recovery!Next, Recovery!Step

\* An answer that names damage names what was read; any other has read no damage.
LEMMA RecoveryReports == Recovery!IInv => Recovery!ReportsAgree
<1> SUFFICES ASSUME Recovery!IInv, NEW p \in Classifiers, Recovery!Answered(p)
             PROVE  /\ \A f \in Recovery!File, c \in {"absent", "torn"} :
                         recoveryAnswer[p] = Recovery!Damage(f, c) => c \in held[p][f]
                    /\ "sound" \notin held[p]["trust"] =>
                         \E c \in {"absent", "torn"} : recoveryAnswer[p] = Recovery!Damage("trust", c)
                    /\ "sound" \notin held[p]["history"] =>
                         \E f \in {"trust", "history"}, c \in {"absent", "torn"} :
                           recoveryAnswer[p] = Recovery!Damage(f, c)
  BY DEF Recovery!ReportsAgree
<1>1. \A f, c : Recovery!Damage(f, c).about = f
  BY DEF Recovery!Damage
<1>2. Recovery!File = {"trust", "history", "candidates"} /\ "none" \notin Recovery!File
  BY RecoveryFiles
<1>3. CASE \E f \in Recovery!File, c \in {"absent", "torn"} :
                 /\ recoveryAnswer[p] = Recovery!Damage(f, c) /\ c \in held[p][f]
                 /\ \A g \in Recovery!File \ Recovery!Unread[f] : Recovery!Passed(p, g)
  <2>1. PICK f \in Recovery!File, c \in {"absent", "torn"} :
                 /\ recoveryAnswer[p] = Recovery!Damage(f, c) /\ c \in held[p][f]
                 /\ \A g \in Recovery!File \ Recovery!Unread[f] : Recovery!Passed(p, g)
    BY <1>3
  <2>2. \A g \in Recovery!File, d \in {"absent", "torn"} :
          recoveryAnswer[p] = Recovery!Damage(g, d) => g = f /\ d = c
    <3>1. ASSUME NEW g \in Recovery!File, NEW d \in {"absent", "torn"},
                 Recovery!Damage(f, c) = Recovery!Damage(g, d)
          PROVE  g = f /\ d = c
      <4>1. /\ Recovery!Damage(f, c).about = f /\ Recovery!Damage(g, d).about = g
            /\ Recovery!Damage(f, c).class = IF c = "absent" THEN "missing" ELSE "corrupt"
            /\ Recovery!Damage(g, d).class = IF d = "absent" THEN "missing" ELSE "corrupt"
        BY DEF Recovery!Damage
      <4>2. QED
        BY <3>1, <4>1
    <3>2. QED
      BY <2>1, <3>1
  <2>3. "sound" \notin held[p]["trust"] => f = "trust"
    BY <1>2, <2>1, RecoveryFiles DEF Recovery!Passed
  <2>4. "sound" \notin held[p]["history"] => f \in {"trust", "history"}
    BY <1>2, <2>1, RecoveryFiles DEF Recovery!Passed
  <2>5. QED
    BY <2>1, <2>2, <2>3, <2>4
<1>4. CASE recoveryAnswer[p].about = "none" /\ \A f \in Recovery!File : Recovery!Passed(p, f)
  BY <1>1, <1>2, <1>4 DEF Recovery!Passed
<1>5. QED
  BY <1>3, <1>4 DEF Recovery!IInv, Recovery!AnswerPosition

\* An answer about sound files is the classification of the input.
LEMMA RecoveryHarmless == Recovery!IInv => Recovery!CleanIsHarmless
<1> SUFFICES ASSUME Recovery!IInv, NEW p \in Classifiers, Recovery!Answered(p),
                    \A f \in Recovery!File : held[p][f] = {"sound"},
                    ~recoveryAnswer[p].blocksSend
             PROVE  /\ input[p].known \notin {"changed", "revoked", "compromised"}
                    /\ \/ /\ input[p].mismatch \in {"none", "candidate_only", "continuity_observation"}
                          /\ input[p].candidate \notin {"conflicts_known_device", "rejected", "unverified"}
                       \/ input[p].mismatch = "review_required_conflict" /\ ~input[p].blocks
  BY DEF Recovery!CleanIsHarmless
<1>1. ~Recovery!BlocksOnInput(input[p])
  BY DEF Recovery!IInv, Recovery!AnswerPosition
<1>2. CASE Recovery!ClassOfInput(input[p]) = "clean"
  <2>1. /\ input[p].known \notin {"revoked", "compromised", "changed"}
        /\ input[p].mismatch \notin {"reverify_required", "review_required_conflict",
                                     "changed_candidate", "blocked_revoked", "blocked_compromised"}
        /\ input[p].candidate \notin {"conflicts_known_device", "rejected", "unverified"}
    BY <1>2 DEF Recovery!ClassOfInput, Recovery!ClassOfKnown, Recovery!ClassOfMismatch,
                Recovery!ClassOfCandidate
  <2>2. input[p] \in Recovery!Input \cup {Recovery!NoInput}
    BY DEF Recovery!IInv, Recovery!TypeOK
  <2>3. input[p].mismatch \in Recovery!Classification \cup {"none"}
    BY <2>2 DEF Recovery!Input, Recovery!NoInput
  <2>4. QED
    BY <2>1, <2>3 DEF Recovery!Classification
<1>3. CASE Recovery!ClassOfInput(input[p]) # "clean"
  <2>1. /\ Recovery!ClassOfInput(input[p]) = "candidate_conflict"
        /\ input[p].mismatch = "review_required_conflict" /\ ~input[p].blocks
    BY <1>1, <1>3 DEF Recovery!BlocksOnInput
  <2>2. input[p].known \notin {"revoked", "compromised", "changed"}
    BY <2>1 DEF Recovery!ClassOfInput, Recovery!ClassOfKnown
  <2>3. QED
    BY <2>1, <2>2
<1>4. QED
  BY <1>2, <1>3

-----------------------------------------------------------------------------
(* The inspection and the onboarding workflow *)

\* A set of natural numbers has a first element.
LEMMA FirstOf ==
  ASSUME NEW S \in SUBSET Nat, S # {}
  PROVE  \E i \in S : \A j \in S : ~(j < i)
<1>1. PICK i \in S : \A j \in S : ~(<<j, i>> \in OpToRel(<, Nat))
  BY WFMin, NatLessThanWellFounded
<1>2. \A j \in S : j < i => <<j, i>> \in OpToRel(<, Nat)
  BY DEF OpToRel
<1>3. QED
  BY <1>1, <1>2

\* "aligned" is the classification of no other evidence.
LEMMA MismatchAligned ==
  ASSUME NEW r, NEW s
  PROVE  /\ Inspection!Mismatch(r, s) # "workflow_ready"
         /\ Inspection!Mismatch(r, s) = "aligned" <=>
              /\ r.member = "active" /\ s.group = "present"
              /\ s.kp # "missing" /\ s.welcome \notin {"missing", "persisted"}
              /\ ~Inspection!Differs(r, s, {"device"}) /\ ~Inspection!Differs(r, s, {"sidecar"})
              /\ ~Inspection!Differs(r, s, {"conversation"})
              /\ ~Inspection!Differs(r, s, {"space"})
<1> DEFINE c1 == "unsupported" \in {r.member, s.group} \/ "missing" \in {s.kp, s.welcome}
           c2 == Inspection!Differs(r, s, {"device"})
           c3 == Inspection!Differs(r, s, {"sidecar"})
           c4 == Inspection!Differs(r, s, {"conversation"})
           c5 == Inspection!Differs(r, s, {"space"})
           c6 == s.welcome = "persisted"
           c7 == r.member = "active" /\ s.group = "absent"
           c8 == r.member = "inactive" /\ s.welcome \in {"joined", "acked"}
           c9 == r.member = "inactive" /\ s.kp # "none"
           c10 == r.member = "inactive" /\ s.group = "present"
           c11 == r.member = "active" /\ s.group = "present"
           c12 == r.member \in {"pending", "unknown"} \/ s.group = "unknown"
           p1 == <<"unsupported_or_unknown_state_version", c1>>
           p2 == <<"local_device_id_mismatch", c2>>
           p3 == <<"sidecar_device_label_mismatch", c3>>
           p4 == <<"conversation_label_mismatch", c4>>
           p5 == <<"mls_conversation_present_wrong_relay_space", c5>>
           p6 == <<"incomplete_local_consume_or_join", c6>>
           p7 == <<"relay_member_active_but_mls_group_absent", c7>>
           p8 == <<"welcome_receipt_joined_but_cypher_member_inactive", c8>>
           p9 == <<"keypackage_receipt_exists_but_cypher_member_inactive", c9>>
           p10 == <<"relay_member_inactive_but_mls_group_present", c10>>
           p11 == <<"aligned", c11>>
           p12 == <<"stale_or_ambiguous", c12>>
           p13 == <<"unsupported_or_unknown_state_version", TRUE>>
<1>1. Inspection!Mismatches(r, s) =
        <<p1, p2, p3, p4, p5, p6, p7, p8, p9, p10, p11, p12, p13>>
  BY Zenon DEF Inspection!Mismatches
<1>2. PICK m : m = Inspection!Mismatches(r, s)
  OBVIOUS
<1> HIDE DEF p1, p2, p3, p4, p5, p6, p7, p8, p9, p10, p11, p12, p13
<1>3. /\ m[1] = p1 /\ m[2] = p2 /\ m[3] = p3 /\ m[4] = p4 /\ m[5] = p5 /\ m[6] = p6
      /\ m[7] = p7 /\ m[8] = p8 /\ m[9] = p9 /\ m[10] = p10 /\ m[11] = p11 /\ m[12] = p12
      /\ m[13] = p13 /\ DOMAIN m = 1..13 /\ Len(m) = 13
  BY <1>1, <1>2
<1> HIDE DEF c1, c2, c3, c4, c5, c6, c7, c8, c9, c10, c11, c12
<1>4. \A l, c : <<l, c>>[1] = l /\ <<l, c>>[2] = c
  OBVIOUS
<1>5. /\ m[1][2] = c1 /\ m[2][2] = c2 /\ m[3][2] = c3 /\ m[4][2] = c4 /\ m[5][2] = c5
      /\ m[6][2] = c6 /\ m[7][2] = c7 /\ m[8][2] = c8 /\ m[9][2] = c9 /\ m[10][2] = c10
      /\ m[11][2] = c11 /\ m[13][2] = TRUE /\ m[11][1] = "aligned"
  BY <1>3, <1>4 DEF p1, p2, p3, p4, p5, p6, p7, p8, p9, p10, p11, p12, p13
<1>6. \A i \in 1..13 : m[i][1] # "workflow_ready" /\ (m[i][1] = "aligned" => i = 11)
  <2>1. \A i \in 1..13 : i = 1 \/ i = 2 \/ i = 3 \/ i = 4 \/ i = 5 \/ i = 6 \/ i = 7 \/ i = 8
                         \/ i = 9 \/ i = 10 \/ i = 11 \/ i = 12 \/ i = 13
    OBVIOUS
  <2>2. QED
    BY <1>3, <1>4, <2>1
    DEF p1, p2, p3, p4, p5, p6, p7, p8, p9, p10, p11, p12, p13
<1> DEFINE First(i) == m[i][2] /\ \A j \in 1..i - 1 : ~m[j][2]
           first == CHOOSE i \in 1..13 : First(i)
<1>7. \E i \in 1..13 : First(i)
  <2> DEFINE S == {i \in 1..13 : m[i][2]}
  <2>1. S \in SUBSET Nat /\ 13 \in S
    BY <1>3, <1>5, <1>6
  <2> HIDE DEF S
  <2>2. PICK i \in S : \A j \in S : ~(j < i)
    BY <2>1, FirstOf
  <2>3. i \in 1..13 /\ m[i][2]
    BY <2>2 DEF S
  <2>4. \A j \in 1..i - 1 : j \in 1..13 /\ j < i
    BY <2>3
  <2>5. \A j \in 1..i - 1 : ~m[j][2]
    BY <2>2, <2>4 DEF S
  <2>6. QED
    BY <2>3, <2>5
<1>8. first \in 1..13 /\ First(first)
  BY <1>7, Zenon
<1>9. Inspection!Mismatch(r, s) = m[first][1]
  BY <1>2, <1>3, <1>5, <1>6 DEF Inspection!Mismatch
<1> HIDE DEF first
<1>10. Inspection!Mismatch(r, s) # "workflow_ready"
  BY <1>3, <1>5, <1>6, <1>8, <1>9
<1>11. Inspection!Mismatch(r, s) = "aligned" <=> first = 11
  BY <1>3, <1>5, <1>6, <1>8, <1>9
<1>12. first = 11 <=> First(11)
  <2>1. ASSUME First(11) PROVE first = 11
    <3>1. first < 11 => first \in 1..11 - 1
      BY <1>8
    <3>2. 11 < first => 11 \in 1..first - 1
      BY <1>8
    <3>3. ~(first < 11) /\ ~(11 < first)
      BY <1>8, <2>1, <3>1, <3>2, Zenon
    <3>4. QED
      BY <1>8, <3>3
  <2>2. QED
    BY <1>8, <2>1
<1>13. First(11) <=> /\ m[11][2]
                    /\ ~m[1][2] /\ ~m[2][2] /\ ~m[3][2] /\ ~m[4][2] /\ ~m[5][2]
                    /\ ~m[6][2] /\ ~m[7][2] /\ ~m[8][2] /\ ~m[9][2] /\ ~m[10][2]
  <2>1. \A j : j \in 1..11 - 1 <=> j \in {1, 2, 3, 4, 5, 6, 7, 8, 9, 10}
    OBVIOUS
  <2>2. QED
    BY <2>1, Zenon
<1>14. First(11) <=>
        /\ r.member = "active" /\ s.group = "present"
        /\ s.kp # "missing" /\ s.welcome \notin {"missing", "persisted"}
        /\ ~Inspection!Differs(r, s, {"device"}) /\ ~Inspection!Differs(r, s, {"sidecar"})
        /\ ~Inspection!Differs(r, s, {"conversation"}) /\ ~Inspection!Differs(r, s, {"space"})
  <2>1. First(11) <=> /\ c11 /\ ~c1 /\ ~c2 /\ ~c3 /\ ~c4 /\ ~c5
                      /\ ~c6 /\ ~c7 /\ ~c8 /\ ~c9 /\ ~c10
    BY <1>5, <1>13, Zenon
  <2> HIDE DEF First
  <2>2. c11 => ~c7 /\ ~c8 /\ ~c9 /\ ~c10
    BY DEF c7, c8, c9, c10, c11
  <2>3. c11 /\ ~c1 /\ ~c6 <=> /\ r.member = "active" /\ s.group = "present"
                              /\ s.kp # "missing" /\ s.welcome \notin {"missing", "persisted"}
    BY DEF c1, c6, c11
  <2>4. QED
    BY <2>1, <2>2, <2>3 DEF c2, c3, c4, c5
<1>15. QED
  BY <1>10, <1>11, <1>12, <1>14

LEMMA InspectionNames ==
  /\ Foreign \in [KeyPackages \cup Welcomes -> SUBSET Inspection!Names]
  /\ Requests \subseteq Inspection!Request
  /\ Nothing \notin KeyPackages \cup Welcomes \cup Workflows
  /\ Nothing \notin Inspection!Request /\ Nothing \notin Inspection!Report
  /\ \A x \in Inspection!Unreadable : x \notin Inspection!Report
BY DeviceAssumption DEF Inspection!OnboardingAssumption

\* Nothing contradicts the names when none of them is contradicted.
LEMMA DiffersInName ==
  ASSUME NEW r \in Inspection!Request, NEW s \in Inspection!Seen,
         s.kp # "none" => r.kp # Nothing, s.welcome # "none" => r.welcome # Nothing,
         ~Inspection!Differs(r, s, {"device"}), ~Inspection!Differs(r, s, {"sidecar"}),
         ~Inspection!Differs(r, s, {"conversation"}), ~Inspection!Differs(r, s, {"space"})
  PROVE  /\ s.kp # "none" => Foreign[r.kp] = {}
         /\ s.welcome # "none" => Foreign[r.welcome] = {}
         /\ ~Inspection!Differs(r, s, Inspection!Names)
<1>1. \A f \in SUBSET Inspection!Names :
        f \cap {"device"} = {} /\ f \cap {"sidecar"} = {} /\ f \cap {"conversation"} = {}
        /\ f \cap {"space"} = {} => f = {}
  BY DEF Inspection!Names
<1>2. /\ r.kp \in KeyPackages \cup {Nothing} /\ r.welcome \in Welcomes \cup {Nothing}
  BY DEF Inspection!Request
<1>3. s.kp # "none" => Foreign[r.kp] \in SUBSET Inspection!Names /\ Foreign[r.kp] = {}
  BY <1>1, <1>2, InspectionNames DEF Inspection!Differs
<1>4. s.welcome # "none" => Foreign[r.welcome] \in SUBSET Inspection!Names /\ Foreign[r.welcome] = {}
  BY <1>1, <1>2, InspectionNames DEF Inspection!Differs
<1>5. QED
  BY <1>3, <1>4 DEF Inspection!Differs

\* What a ready report has seen: everything, complete and of the right names.
LEMMA ReadyReport ==
  ASSUME Inspection!IInv, NEW report \in Inspection!Report, Inspection!DatedReport(report)
  PROVE  Inspection!ReadyIsTrue(report)
<1> DEFINE r == report.request
           s == report.seen
<1> SUFFICES ASSUME Inspection!Classification(r, s) = "workflow_ready"
             PROVE  /\ group
                    /\ r.kp # Nothing /\ kp[r.kp] = "acked" /\ Foreign[r.kp] = {}
                    /\ r.welcome # Nothing /\ welcome[r.welcome] = "acked"
                    /\ Foreign[r.welcome] = {}
  BY DEF Inspection!ReadyIsTrue
<1>1. r \in Inspection!Request /\ s \in Inspection!Seen
  BY DEF Inspection!Report
<1>2. Inspection!Dated(r, s)
  BY DEF Inspection!DatedReport
<1> HIDE DEF r, s
<1>3. Inspection!Mismatch(r, s) = "aligned" /\ s.kp = "acked" /\ s.welcome = "acked"
  BY MismatchAligned DEF Inspection!Classification, Inspection!StagesComplete
<1>4. /\ r.kp # Nothing /\ kp[r.kp] = "acked"
      /\ r.welcome # Nothing /\ welcome[r.welcome] = "acked"
  BY <1>2, <1>3 DEF Inspection!Dated
<1>5. Foreign[r.kp] = {} /\ Foreign[r.welcome] = {}
  BY <1>1, <1>3, <1>4, MismatchAligned, DiffersInName
<1>6. group
  <2>1. r.welcome \in Welcomes
    BY <1>1, <1>4 DEF Inspection!Request
  <2>2. Inspection!SameConversation(r.welcome)
    BY <1>5 DEF Inspection!SameConversation
  <2>3. QED
    BY <1>4, <2>1, <2>2 DEF Inspection!IInv, Inspection!JoinedHaveGroup
<1>7. QED
  BY <1>4, <1>5, <1>6

LEMMA InspectionReady == Inspection!IInv => Inspection!ReadyStaysTrue
<1> SUFFICES ASSUME Inspection!IInv PROVE Inspection!ReadyStaysTrue
  OBVIOUS
<1>1. published \notin Inspection!Unreadable =>
        published \in Inspection!Report /\ Inspection!DatedReport(published)
  BY DEF Inspection!IInv, Inspection!TypeOK
<1>2. \A p \in Inspectors : inspectAnswer[p] # Nothing =>
        inspectAnswer[p] \in Inspection!Report /\ Inspection!DatedReport(inspectAnswer[p])
  BY DEF Inspection!IInv, Inspection!TypeOK
<1>3. QED
  BY <1>1, <1>2, ReadyReport DEF Inspection!ReadyStaysTrue

LEMMA InspectionAllowed == Inspection!IInv => Inspection!AllowedWhenAligned
<1> SUFFICES ASSUME Inspection!IInv, NEW p \in Inspectors, inspectAnswer[p] # Nothing,
                    inspectAnswer[p].request.workflow = Nothing
             PROVE  LET r == inspectAnswer[p].request
                        s == inspectAnswer[p].seen
                    IN  Inspection!Allowed(inspectAnswer[p]) <=>
                          /\ r.member = "active" /\ s.group = "present"
                          /\ s.kp # "missing" /\ s.welcome \notin {"missing", "persisted"}
                          /\ ~Inspection!Differs(r, s, Inspection!Names)
  BY DEF Inspection!AllowedWhenAligned
<1> DEFINE r == inspectAnswer[p].request
           s == inspectAnswer[p].seen
<1>1. /\ r \in Inspection!Request /\ s \in Inspection!Seen /\ r.workflow = Nothing
      /\ s.kp # "none" => r.kp # Nothing
      /\ s.welcome # "none" => r.welcome # Nothing
  BY DEF Inspection!IInv, Inspection!TypeOK, Inspection!Report, Inspection!DatedReport,
         Inspection!Dated
<1>2. Inspection!Allowed(inspectAnswer[p]) <=>
        Inspection!Classification(r, s) \in {"aligned", "workflow_ready"}
  BY DEF Inspection!Allowed
<1> HIDE DEF r, s
<1>3. Inspection!Allowed(inspectAnswer[p]) <=> Inspection!Mismatch(r, s) = "aligned"
  BY <1>1, <1>2, MismatchAligned DEF Inspection!Classification
<1>4. ~Inspection!Differs(r, s, Inspection!Names) <=>
        /\ ~Inspection!Differs(r, s, {"device"}) /\ ~Inspection!Differs(r, s, {"sidecar"})
        /\ ~Inspection!Differs(r, s, {"conversation"}) /\ ~Inspection!Differs(r, s, {"space"})
  <2>1. ~Inspection!Differs(r, s, Inspection!Names) =>
          /\ ~Inspection!Differs(r, s, {"device"}) /\ ~Inspection!Differs(r, s, {"sidecar"})
          /\ ~Inspection!Differs(r, s, {"conversation"}) /\ ~Inspection!Differs(r, s, {"space"})
    BY DEF Inspection!Differs, Inspection!Names
  <2>2. QED
    BY <1>1, <2>1, DiffersInName
<1>5. QED
  BY <1>3, <1>4, MismatchAligned DEF r, s

LEMMA InspectionInit == Inspection!Init => Inspection!IInv
<1> SUFFICES ASSUME Inspection!Init PROVE Inspection!IInv
  OBVIOUS
<1>1. Inspection!NothingSeen \in Inspection!Seen
  BY DEF Inspection!NothingSeen, Inspection!Seen
<1>2. Inspection!TypeOK
  BY <1>1
  DEF Inspection!Init, Inspection!ReportInit, Inspection!TypeOK, Inspection!KpStages,
      Inspection!WelcomeStages, Inspection!Unreadable
<1>3. QED
  BY <1>2
  DEF Inspection!Init, Inspection!ReportInit, Inspection!IInv, Inspection!JoinedHaveGroup,
      Inspection!Unreadable, Inspection!Position

\* A step of one process, which leaves the evidence.
LEMMA InspectionMoves ==
  ASSUME Inspection!IInv, NEW p \in Inspectors, UNCHANGED <<group, kp, welcome>>,
         NEW to \in {"idle", "load", "stat", "keypackage", "welcome",
                     "open", "fill", "rename", "print"},
         NEW c \in Inspection!Request \cup {Nothing}, NEW s \in Inspection!Seen,
         NEW a \in Inspection!Report \cup {Nothing},
         inspectPc' = [inspectPc EXCEPT ![p] = to],
         inspectCmd' = [inspectCmd EXCEPT ![p] = c],
         inspectSeen' = [inspectSeen EXCEPT ![p] = s],
         inspectAnswer' = [inspectAnswer EXCEPT ![p] = a],
         to = "idle" <=> c = Nothing,
         to \in {"idle", "load", "stat"} => s = Inspection!NothingSeen,
         c # Nothing => Inspection!Dated(c, s),
         a # Nothing => Inspection!DatedReport(a),
         tmp' \in Inspection!Report \cup Inspection!Unreadable,
         published' \in Inspection!Report \cup Inspection!Unreadable,
         handle' \in [Inspectors -> {"none", "tmp", "published", "unlinked"}],
         tmp' \notin Inspection!Unreadable => Inspection!DatedReport(tmp)',
         published' \notin Inspection!Unreadable => Inspection!DatedReport(published)'
  PROVE  Inspection!IInv'
<1>0. Inspection!TypeOK
  BY DEF Inspection!IInv
<1>1. /\ inspectPc'[p] = to /\ inspectCmd'[p] = c /\ inspectSeen'[p] = s /\ inspectAnswer'[p] = a
      /\ \A q \in Inspectors \ {p} :
           /\ inspectPc'[q] = inspectPc[q] /\ inspectCmd'[q] = inspectCmd[q]
           /\ inspectSeen'[q] = inspectSeen[q] /\ inspectAnswer'[q] = inspectAnswer[q]
  BY <1>0 DEF Inspection!TypeOK
<1>2. Inspection!TypeOK'
  BY <1>0 DEF Inspection!TypeOK, Inspection!Unreadable
<1>3. Inspection!JoinedHaveGroup'
  BY DEF Inspection!IInv, Inspection!JoinedHaveGroup
<1>4. \A q \in Inspectors : inspectAnswer'[q] # Nothing => Inspection!DatedReport(inspectAnswer[q])'
  BY <1>1 DEF Inspection!IInv, Inspection!DatedReport, Inspection!Dated
<1>5. \A q \in Inspectors : Inspection!Position(q)'
  BY <1>1 DEF Inspection!IInv, Inspection!Position, Inspection!Dated
<1>6. QED
  BY <1>2, <1>3, <1>4, <1>5 DEF Inspection!IInv, Inspection!Unreadable

\* ... and the report as well.
LEMMA InspectionLooks ==
  ASSUME Inspection!IInv, NEW p \in Inspectors, UNCHANGED <<group, kp, welcome, tmp, published>>,
         NEW to \in {"idle", "load", "stat", "keypackage", "welcome",
                     "open", "fill", "rename", "print"},
         NEW c \in Inspection!Request \cup {Nothing}, NEW s \in Inspection!Seen,
         NEW a \in Inspection!Report \cup {Nothing},
         inspectPc' = [inspectPc EXCEPT ![p] = to],
         inspectCmd' = [inspectCmd EXCEPT ![p] = c],
         inspectSeen' = [inspectSeen EXCEPT ![p] = s],
         inspectAnswer' = [inspectAnswer EXCEPT ![p] = a],
         to = "idle" <=> c = Nothing,
         to \in {"idle", "load", "stat"} => s = Inspection!NothingSeen,
         c # Nothing => Inspection!Dated(c, s),
         a # Nothing => Inspection!DatedReport(a),
         handle' \in [Inspectors -> {"none", "tmp", "published", "unlinked"}]
  PROVE  Inspection!IInv'
<1>1. /\ tmp' \in Inspection!Report \cup Inspection!Unreadable
      /\ published' \in Inspection!Report \cup Inspection!Unreadable
  BY DEF Inspection!IInv, Inspection!TypeOK
<1>2. /\ tmp' \notin Inspection!Unreadable => Inspection!DatedReport(tmp)'
      /\ published' \notin Inspection!Unreadable => Inspection!DatedReport(published)'
  BY DEF Inspection!IInv, Inspection!DatedReport, Inspection!Dated
<1>3. QED
  BY <1>1, <1>2, InspectionMoves

\* What is known of a process before a step.
LEMMA InspectionKnown ==
  ASSUME Inspection!IInv, NEW p \in Inspectors
  PROVE  /\ inspectCmd' = inspectCmd => inspectCmd' = [inspectCmd EXCEPT ![p] = inspectCmd[p]]
         /\ inspectSeen' = inspectSeen => inspectSeen' = [inspectSeen EXCEPT ![p] = inspectSeen[p]]
         /\ inspectAnswer' = inspectAnswer =>
              inspectAnswer' = [inspectAnswer EXCEPT ![p] = inspectAnswer[p]]
         /\ inspectCmd[p] \in Inspection!Request \cup {Nothing} /\ inspectSeen[p] \in Inspection!Seen
         /\ inspectAnswer[p] \in Inspection!Report \cup {Nothing}
         /\ inspectAnswer[p] # Nothing => Inspection!DatedReport(inspectAnswer[p])
         /\ inspectPc[p] = "idle" <=> inspectCmd[p] = Nothing
         /\ inspectCmd[p] # Nothing => Inspection!Dated(inspectCmd[p], inspectSeen[p])
         /\ inspectPc[p] \in {"idle", "load", "stat"} => inspectSeen[p] = Inspection!NothingSeen
         /\ handle \in [Inspectors -> {"none", "tmp", "published", "unlinked"}]
BY DEF Inspection!IInv, Inspection!TypeOK, Inspection!Position

\* ... at the end of a command.
LEMMA InspectionForget ==
  ASSUME Inspection!IInv, NEW p \in Inspectors, Inspection!Forget(p),
         UNCHANGED <<group, kp, welcome, tmp, published>>,
         handle' \in [Inspectors -> {"none", "tmp", "published", "unlinked"}],
         NEW a \in Inspection!Report \cup {Nothing},
         inspectAnswer' = [inspectAnswer EXCEPT ![p] = a],
         a # Nothing => Inspection!DatedReport(a)
  PROVE  Inspection!IInv'
<1>1. /\ inspectPc' = [inspectPc EXCEPT ![p] = "idle"]
      /\ inspectCmd' = [inspectCmd EXCEPT ![p] = Nothing]
      /\ inspectSeen' = [inspectSeen EXCEPT ![p] = Inspection!NothingSeen]
  BY DEF Inspection!Forget, Inspection!Goto
<1>2. Inspection!NothingSeen \in Inspection!Seen
  BY DEF Inspection!NothingSeen, Inspection!Seen
<1>3. QED
  BY <1>1, <1>2, InspectionLooks

\* A step of the evidence.
LEMMA InspectionEvidence ==
  ASSUME Inspection!IInv,
         UNCHANGED <<tmp, published, handle, inspectPc, inspectCmd, inspectSeen, inspectAnswer>>,
         group' \in BOOLEAN,
         kp' \in [KeyPackages -> Inspection!KpStages],
         welcome' \in [Welcomes -> Inspection!WelcomeStages],
         \A k \in KeyPackages : kp[k] = "acked" => kp'[k] = "acked",
         \A w \in Welcomes : welcome[w] = "acked" => welcome'[w] = "acked",
         Inspection!JoinedHaveGroup'
  PROVE  Inspection!IInv'
<1>0. Inspection!TypeOK
  BY DEF Inspection!IInv
<1>1. Inspection!TypeOK'
  BY <1>0 DEF Inspection!TypeOK, Inspection!Unreadable
<1>2. ASSUME NEW r \in Inspection!Request, NEW s, Inspection!Dated(r, s)
      PROVE  /\ s.kp # "none" => r.kp # Nothing
             /\ s.kp = "acked" => kp'[r.kp] = "acked"
             /\ s.welcome # "none" => r.welcome # Nothing
             /\ s.welcome = "acked" => welcome'[r.welcome] = "acked"
  BY <1>2 DEF Inspection!Dated, Inspection!Request
<1>3. ASSUME NEW report \in Inspection!Report, Inspection!DatedReport(report)
      PROVE  Inspection!DatedReport(report)'
  BY <1>2, <1>3 DEF Inspection!DatedReport, Inspection!Dated, Inspection!Report
<1>4. /\ tmp' \notin Inspection!Unreadable => Inspection!DatedReport(tmp)'
      /\ published' \notin Inspection!Unreadable => Inspection!DatedReport(published)'
      /\ \A p \in Inspectors : inspectAnswer'[p] # Nothing =>
           Inspection!DatedReport(inspectAnswer[p])'
  <2>1. ASSUME NEW report \in Inspection!Report, Inspection!DatedReport(report)
        PROVE  LET r == report.request
                   s == report.seen
               IN  /\ s.kp # "none" => r.kp # Nothing
                   /\ s.kp = "acked" => kp'[r.kp] = "acked"
                   /\ s.welcome # "none" => r.welcome # Nothing
                   /\ s.welcome = "acked" => welcome'[r.welcome] = "acked"
    BY <1>2, <2>1 DEF Inspection!DatedReport, Inspection!Report
  <2>2. QED
    BY <1>0, <2>1 DEF Inspection!IInv, Inspection!TypeOK, Inspection!DatedReport, Inspection!Dated
<1>5. \A p \in Inspectors : Inspection!Position(p)'
  BY <1>0, <1>2 DEF Inspection!IInv, Inspection!TypeOK, Inspection!Position, Inspection!Dated
<1>6. QED
  BY <1>1, <1>4, <1>5 DEF Inspection!IInv, Inspection!Unreadable

\* What a command has read so far, while it runs.
LEMMA InspectionDated ==
  ASSUME Inspection!IInv, NEW p \in Inspectors, inspectPc[p] # "idle"
  PROVE  /\ inspectCmd[p] \in Inspection!Request /\ inspectCmd[p] # Nothing
         /\ Inspection!Dated(inspectCmd[p], inspectSeen[p])
BY DEF Inspection!IInv, Inspection!TypeOK, Inspection!Position

\* Evidence only advances, commands read it, and reports carry what they have read.
LEMMA InspectionStep ==
  ASSUME Inspection!IInv, Inspection!Next
  PROVE  Inspection!IInv'
<1>0. Inspection!TypeOK
  BY DEF Inspection!IInv
<1> USE DEF Inspection!Goto, Inspection!evidence, Inspection!reportVars
<1>1. CASE Inspection!CreateGroup
  <2>1. /\ group' = TRUE
        /\ UNCHANGED <<kp, welcome, tmp, published, handle, inspectPc, inspectCmd, inspectSeen,
                       inspectAnswer>>
    BY <1>1 DEF Inspection!CreateGroup
  <2>2. Inspection!JoinedHaveGroup'
    BY <2>1 DEF Inspection!JoinedHaveGroup
  <2>3. /\ group' \in BOOLEAN /\ kp' \in [KeyPackages -> Inspection!KpStages]
        /\ welcome' \in [Welcomes -> Inspection!WelcomeStages]
    BY <1>0, <2>1 DEF Inspection!TypeOK
  <2>4. QED
    BY <2>1, <2>2, <2>3, InspectionEvidence
<1>2. ASSUME NEW k \in KeyPackages, Inspection!AdvanceKeyPackage(k) PROVE Inspection!IInv'
  <2>1. /\ UNCHANGED <<group, welcome, tmp, published, handle, inspectPc, inspectCmd, inspectSeen,
                       inspectAnswer>>
        /\ \/ kp[k] = "missing" /\ kp' = [kp EXCEPT ![k] = "persisted"]
           \/ kp[k] = "persisted" /\ kp' = [kp EXCEPT ![k] = "acked"]
    BY <1>2 DEF Inspection!AdvanceKeyPackage
  <2>2. /\ group' \in BOOLEAN /\ welcome' \in [Welcomes -> Inspection!WelcomeStages]
        /\ kp' \in [KeyPackages -> Inspection!KpStages]
        /\ \A l \in KeyPackages : kp[l] = "acked" => kp'[l] = "acked"
    BY <1>0, <2>1 DEF Inspection!TypeOK, Inspection!KpStages
  <2>3. Inspection!JoinedHaveGroup'
    BY <2>1 DEF Inspection!IInv, Inspection!JoinedHaveGroup
  <2>4. QED
    BY <2>1, <2>2, <2>3, InspectionEvidence
<1>3. ASSUME NEW w \in Welcomes, Inspection!AdvanceWelcome(w) PROVE Inspection!IInv'
  <2>1. /\ UNCHANGED <<group, kp, tmp, published, handle, inspectPc, inspectCmd, inspectSeen,
                       inspectAnswer>>
        /\ \/ welcome[w] = "missing" /\ welcome' = [welcome EXCEPT ![w] = "persisted"]
           \/ /\ welcome[w] = "persisted"
              /\ Inspection!SameConversation(w) => group
              /\ welcome' = [welcome EXCEPT ![w] = "joined"]
           \/ welcome[w] = "joined" /\ welcome' = [welcome EXCEPT ![w] = "acked"]
    BY <1>3 DEF Inspection!AdvanceWelcome
  <2>2. /\ group' \in BOOLEAN /\ kp' \in [KeyPackages -> Inspection!KpStages]
        /\ welcome' \in [Welcomes -> Inspection!WelcomeStages]
        /\ \A v \in Welcomes : welcome[v] = "acked" => welcome'[v] = "acked"
    BY <1>0, <2>1 DEF Inspection!TypeOK, Inspection!WelcomeStages
  <2>3. Inspection!JoinedHaveGroup'
    BY <1>0, <2>1 DEF Inspection!IInv, Inspection!TypeOK, Inspection!JoinedHaveGroup,
                      Inspection!SameConversation
  <2>4. QED
    BY <2>1, <2>2, <2>3, InspectionEvidence
<1>4. ASSUME NEW p \in Inspectors, NEW r \in Requests, Inspection!Start(p, r)
      PROVE  Inspection!IInv'
  <2> DEFINE to == IF r.workflow = Nothing THEN "stat" ELSE "load"
  <2>1. /\ inspectPc[p] = "idle" /\ UNCHANGED <<group, kp, welcome, tmp, published, handle>>
        /\ inspectPc' = [inspectPc EXCEPT ![p] = to]
        /\ inspectCmd' = [inspectCmd EXCEPT ![p] = r]
        /\ inspectSeen' = [inspectSeen EXCEPT ![p] = inspectSeen[p]]
        /\ inspectAnswer' = [inspectAnswer EXCEPT ![p] = Nothing]
    BY <1>4, InspectionKnown DEF Inspection!Start
  <2>2. /\ to \in {"stat", "load"} /\ r \in Inspection!Request /\ r # Nothing
        /\ inspectSeen[p] = Inspection!NothingSeen
    BY <2>1, InspectionNames, InspectionKnown
  <2>3. Inspection!Dated(r, inspectSeen[p])
    BY <2>2 DEF Inspection!Dated, Inspection!NothingSeen
  <2> HIDE DEF to
  <2>4. /\ inspectCmd[p] \in Inspection!Request \cup {Nothing}
        /\ inspectSeen[p] \in Inspection!Seen
        /\ inspectAnswer[p] \in Inspection!Report \cup {Nothing}
        /\ inspectAnswer[p] # Nothing => Inspection!DatedReport(inspectAnswer[p])
        /\ handle' \in [Inspectors -> {"none", "tmp", "published", "unlinked"}]
    BY <2>1, InspectionKnown
  <2>5. QED
    BY <2>1, <2>2, <2>3, <2>4, InspectionLooks
<1>5. ASSUME NEW p \in Inspectors, Inspection!NoReport(p) PROVE Inspection!IInv'
  <2>1. /\ inspectPc[p] = "load" /\ UNCHANGED <<group, kp, welcome, tmp, published, handle>>
        /\ inspectPc' = [inspectPc EXCEPT ![p] = "stat"]
        /\ inspectCmd' = [inspectCmd EXCEPT ![p] = inspectCmd[p]]
        /\ inspectSeen' = [inspectSeen EXCEPT ![p] = inspectSeen[p]]
        /\ inspectAnswer' = [inspectAnswer EXCEPT ![p] = inspectAnswer[p]]
    BY <1>5, InspectionKnown DEF Inspection!NoReport
  <2>2. /\ inspectCmd[p] \in Inspection!Request \cup {Nothing}
        /\ inspectSeen[p] \in Inspection!Seen
        /\ inspectAnswer[p] \in Inspection!Report \cup {Nothing}
        /\ inspectAnswer[p] # Nothing => Inspection!DatedReport(inspectAnswer[p])
        /\ handle' \in [Inspectors -> {"none", "tmp", "published", "unlinked"}]
    BY <2>1, InspectionKnown
  <2>3. /\ inspectCmd[p] # Nothing /\ inspectSeen[p] = Inspection!NothingSeen
        /\ Inspection!Dated(inspectCmd[p], inspectSeen[p])
    BY <2>1, InspectionKnown
  <2>4. QED
    BY <2>1, <2>2, <2>3, InspectionLooks
<1>6. ASSUME NEW p \in Inspectors, Inspection!Replay(p) PROVE Inspection!IInv'
  <2>1. /\ Inspection!Forget(p) /\ UNCHANGED <<group, kp, welcome, tmp, published, handle>>
        /\ published \notin Inspection!Unreadable
        /\ inspectAnswer' = [inspectAnswer EXCEPT ![p] = published]
    BY <1>6 DEF Inspection!Replay
  <2>2. published \in Inspection!Report /\ Inspection!DatedReport(published)
    BY <1>0, <2>1 DEF Inspection!IInv, Inspection!TypeOK
  <2>3. QED
    BY <2>1, <2>2, InspectionKnown, InspectionForget
<1>7. ASSUME NEW p \in Inspectors, Inspection!LoadFails(p) PROVE Inspection!IInv'
  <2>1. /\ Inspection!Forget(p) /\ UNCHANGED <<group, kp, welcome, tmp, published, handle>>
        /\ inspectAnswer' = [inspectAnswer EXCEPT ![p] = inspectAnswer[p]]
    BY <1>7, InspectionKnown DEF Inspection!LoadFails
  <2>2. QED
    BY <2>1, InspectionKnown, InspectionForget
<1>8. ASSUME NEW p \in Inspectors, Inspection!StatConversation(p) PROVE Inspection!IInv'
  <2>1. PICK found \in {"none", "present", "absent", "unknown", "unsupported"} :
          inspectSeen' = [inspectSeen EXCEPT ![p].group = found]
    <3>1. inspectCmd[p] \in Inspection!Request
      BY <1>8, InspectionKnown DEF Inspection!StatConversation
    <3>2. inspectCmd[p].group \in {"auto", "present", "absent", "unknown", "unsupported"}
      BY <3>1 DEF Inspection!Request
    <3>3. QED
      BY <1>8, <3>2 DEF Inspection!StatConversation, Inspection!Probe
  <2>2. /\ inspectPc[p] = "stat" /\ UNCHANGED <<group, kp, welcome, tmp, published, handle>>
        /\ inspectPc' = [inspectPc EXCEPT ![p] = "keypackage"]
        /\ inspectCmd' = [inspectCmd EXCEPT ![p] = inspectCmd[p]]
        /\ inspectAnswer' = [inspectAnswer EXCEPT ![p] = inspectAnswer[p]]
    BY <1>8, InspectionKnown DEF Inspection!StatConversation
  <2> DEFINE s == [inspectSeen[p] EXCEPT !.group = found]
  <2>3. inspectSeen' = [inspectSeen EXCEPT ![p] = s]
    BY <1>0, <2>1 DEF Inspection!TypeOK
  <2>4. /\ s \in Inspection!Seen /\ s.kp = inspectSeen[p].kp /\ s.welcome = inspectSeen[p].welcome
    BY <2>1, InspectionKnown DEF Inspection!Seen
  <2> HIDE DEF s
  <2>5. inspectCmd[p] # Nothing /\ Inspection!Dated(inspectCmd[p], s)
    BY <2>2, <2>4, InspectionDated DEF Inspection!Dated
  <2>6. /\ inspectCmd[p] \in Inspection!Request \cup {Nothing}
        /\ inspectSeen[p] \in Inspection!Seen
        /\ inspectAnswer[p] \in Inspection!Report \cup {Nothing}
        /\ inspectAnswer[p] # Nothing => Inspection!DatedReport(inspectAnswer[p])
        /\ handle' \in [Inspectors -> {"none", "tmp", "published", "unlinked"}]
    BY <2>2, InspectionKnown
  <2>7. QED
    BY <2>2, <2>3, <2>4, <2>5, <2>6, InspectionLooks
<1>9. ASSUME NEW p \in Inspectors, Inspection!ReadKeyPackage(p) PROVE Inspection!IInv'
  <2>1. /\ inspectPc[p] = "keypackage" /\ UNCHANGED <<group, kp, welcome, tmp, published, handle>>
        /\ inspectPc' = [inspectPc EXCEPT ![p] = "welcome"]
        /\ inspectCmd' = [inspectCmd EXCEPT ![p] = inspectCmd[p]]
        /\ inspectAnswer' = [inspectAnswer EXCEPT ![p] = inspectAnswer[p]]
        /\ inspectCmd[p] \in Inspection!Request /\ inspectCmd[p] # Nothing
        /\ Inspection!Dated(inspectCmd[p], inspectSeen[p])
    BY <1>9, InspectionKnown, InspectionDated DEF Inspection!ReadKeyPackage
  <2>2. CASE inspectCmd[p].kp = Nothing
    <3>1. inspectSeen' = [inspectSeen EXCEPT ![p] = inspectSeen[p]]
      BY <1>9, <2>2, InspectionKnown DEF Inspection!ReadKeyPackage
    <3>2. /\ inspectCmd[p] \in Inspection!Request \cup {Nothing}
          /\ inspectSeen[p] \in Inspection!Seen
          /\ inspectAnswer[p] \in Inspection!Report \cup {Nothing}
          /\ inspectAnswer[p] # Nothing => Inspection!DatedReport(inspectAnswer[p])
          /\ handle' \in [Inspectors -> {"none", "tmp", "published", "unlinked"}]
      BY <2>1, InspectionKnown
    <3>3. QED
      BY <2>1, <3>1, <3>2, InspectionLooks
  <2>3. CASE inspectCmd[p].kp # Nothing
    <3>1. PICK found \in {kp[inspectCmd[p].kp], "missing"} :
            inspectSeen' = [inspectSeen EXCEPT ![p].kp = found]
      BY <1>9, <2>3 DEF Inspection!ReadKeyPackage
    <3>2. inspectCmd[p].kp \in KeyPackages
      BY <2>1, <2>3 DEF Inspection!Request
    <3>3. found \in Inspection!KpStages
      BY <1>0, <3>1, <3>2 DEF Inspection!TypeOK, Inspection!KpStages
    <3> DEFINE s == [inspectSeen[p] EXCEPT !.kp = found]
    <3>4. inspectSeen' = [inspectSeen EXCEPT ![p] = s]
      BY <1>0, <3>1 DEF Inspection!TypeOK
    <3>5. s \in Inspection!Seen /\ s.kp = found /\ s.welcome = inspectSeen[p].welcome
      BY <3>3, InspectionKnown DEF Inspection!Seen
    <3> HIDE DEF s
    <3>6. Inspection!Dated(inspectCmd[p], s)
      BY <2>1, <2>3, <3>1, <3>5, InspectionDated DEF Inspection!Dated
    <3>7. /\ inspectCmd[p] \in Inspection!Request \cup {Nothing}
          /\ inspectSeen[p] \in Inspection!Seen
          /\ inspectAnswer[p] \in Inspection!Report \cup {Nothing}
          /\ inspectAnswer[p] # Nothing => Inspection!DatedReport(inspectAnswer[p])
          /\ handle' \in [Inspectors -> {"none", "tmp", "published", "unlinked"}]
      BY <2>1, InspectionKnown
    <3>8. QED
      BY <2>1, <3>4, <3>5, <3>6, <3>7, InspectionLooks
  <2>4. QED
    BY <2>2, <2>3
<1>10. ASSUME NEW p \in Inspectors, Inspection!ReadWelcome(p) PROVE Inspection!IInv'
  <2> DEFINE to == IF inspectCmd[p].workflow = Nothing THEN "print" ELSE "open"
  <2>1. /\ inspectPc[p] = "welcome" /\ UNCHANGED <<group, kp, welcome, tmp, published, handle>>
        /\ inspectPc' = [inspectPc EXCEPT ![p] = to]
        /\ inspectCmd' = [inspectCmd EXCEPT ![p] = inspectCmd[p]]
        /\ inspectAnswer' = [inspectAnswer EXCEPT ![p] = inspectAnswer[p]]
        /\ inspectCmd[p] \in Inspection!Request /\ inspectCmd[p] # Nothing
        /\ Inspection!Dated(inspectCmd[p], inspectSeen[p]) /\ to \in {"print", "open"}
    BY <1>10, InspectionKnown, InspectionDated DEF Inspection!ReadWelcome
  <2> HIDE DEF to
  <2>2. CASE inspectSeen' = inspectSeen
    <3>1. inspectSeen' = [inspectSeen EXCEPT ![p] = inspectSeen[p]]
      BY <2>2, InspectionKnown
    <3>2. /\ inspectSeen[p] \in Inspection!Seen
          /\ inspectAnswer[p] \in Inspection!Report \cup {Nothing}
          /\ inspectAnswer[p] # Nothing => Inspection!DatedReport(inspectAnswer[p])
          /\ handle' \in [Inspectors -> {"none", "tmp", "published", "unlinked"}]
      BY <2>1, InspectionKnown
    <3>3. QED
      BY <2>1, <3>1, <3>2, InspectionLooks
  <2>3. CASE /\ inspectCmd[p].welcome # Nothing
             /\ \E found \in {welcome[inspectCmd[p].welcome], "missing"} :
                  inspectSeen' = [inspectSeen EXCEPT ![p].welcome = found]
    <3>1. PICK found \in {welcome[inspectCmd[p].welcome], "missing"} :
            inspectSeen' = [inspectSeen EXCEPT ![p].welcome = found]
      BY <2>3
    <3>2. inspectCmd[p].welcome \in Welcomes
      BY <2>1, <2>3 DEF Inspection!Request
    <3>3. found \in Inspection!WelcomeStages
      BY <1>0, <3>1, <3>2 DEF Inspection!TypeOK, Inspection!WelcomeStages
    <3> DEFINE s == [inspectSeen[p] EXCEPT !.welcome = found]
    <3>4. inspectSeen' = [inspectSeen EXCEPT ![p] = s]
      BY <1>0, <3>1 DEF Inspection!TypeOK
    <3>5. s \in Inspection!Seen /\ s.welcome = found /\ s.kp = inspectSeen[p].kp
      BY <3>3, InspectionKnown DEF Inspection!Seen
    <3> HIDE DEF s
    <3>6. Inspection!Dated(inspectCmd[p], s)
      BY <2>1, <2>3, <3>1, <3>5, InspectionDated DEF Inspection!Dated
    <3>7. /\ inspectCmd[p] \in Inspection!Request \cup {Nothing}
          /\ inspectSeen[p] \in Inspection!Seen
          /\ inspectAnswer[p] \in Inspection!Report \cup {Nothing}
          /\ inspectAnswer[p] # Nothing => Inspection!DatedReport(inspectAnswer[p])
          /\ handle' \in [Inspectors -> {"none", "tmp", "published", "unlinked"}]
      BY <2>1, InspectionKnown
    <3>8. QED
      BY <2>1, <3>4, <3>5, <3>6, <3>7, InspectionLooks
  <2>4. QED
    BY <1>10, <2>2, <2>3 DEF Inspection!ReadWelcome
<1>11. ASSUME NEW p \in Inspectors, inspectPc[p] \in {"fill", "print"}
       PROVE  /\ Inspection!Draft(p) \in Inspection!Report
              /\ Inspection!DatedReport(Inspection!Draft(p))
  <2>1. inspectCmd[p] \in Inspection!Request /\ inspectCmd[p] # Nothing
    BY <1>11, InspectionKnown
  <2>2. QED
    BY <2>1, InspectionKnown DEF Inspection!Draft, Inspection!DatedReport, Inspection!Report
<1>12. ASSUME NEW p \in Inspectors, Inspection!Answer(p) PROVE Inspection!IInv'
  <2>1. /\ Inspection!Forget(p) /\ UNCHANGED <<group, kp, welcome, tmp, published, handle>>
        /\ inspectPc[p] = "print"
        /\ inspectAnswer' = [inspectAnswer EXCEPT ![p] = Inspection!Draft(p)]
    BY <1>12 DEF Inspection!Answer
  <2>2. QED
    BY <1>11, <2>1, InspectionKnown, InspectionForget
<1>13. ASSUME NEW p \in Inspectors, Inspection!Crash(p) PROVE Inspection!IInv'
  <2>1. /\ Inspection!Forget(p) /\ UNCHANGED <<group, kp, welcome, tmp, published>>
        /\ inspectAnswer' = [inspectAnswer EXCEPT ![p] = inspectAnswer[p]]
        /\ handle' = [handle EXCEPT ![p] = "none"]
    BY <1>13, InspectionKnown DEF Inspection!Crash, Inspection!Close
  <2>2. handle' \in [Inspectors -> {"none", "tmp", "published", "unlinked"}]
    BY <1>0, <2>1 DEF Inspection!TypeOK
  <2>3. QED
    BY <2>1, <2>2, InspectionKnown, InspectionForget
<1>14. ASSUME NEW p \in Inspectors, Inspection!PublishFails(p) PROVE Inspection!IInv'
  <2>1. /\ Inspection!Forget(p) /\ UNCHANGED <<group, kp, welcome, tmp, published, handle>>
        /\ inspectAnswer' = [inspectAnswer EXCEPT ![p] = inspectAnswer[p]]
    BY <1>14, InspectionKnown DEF Inspection!PublishFails, Inspection!RenameFails
  <2>2. QED
    BY <2>1, InspectionKnown, InspectionForget
<1>15. ASSUME NEW p \in Inspectors,
              Inspection!OpenReport(p) \/ Inspection!FillReport(p) \/ Inspection!PublishReport(p)
       PROVE  Inspection!IInv'
  <2>1. PICK to \in {"fill", "rename", "print"} :
          /\ inspectPc[p] \in {"open", "fill", "rename"} /\ UNCHANGED <<group, kp, welcome>>
          /\ inspectPc' = [inspectPc EXCEPT ![p] = to]
          /\ inspectCmd' = [inspectCmd EXCEPT ![p] = inspectCmd[p]]
          /\ inspectSeen' = [inspectSeen EXCEPT ![p] = inspectSeen[p]]
          /\ inspectAnswer' = [inspectAnswer EXCEPT ![p] = inspectAnswer[p]]
    BY <1>15, InspectionKnown
    DEF Inspection!OpenReport, Inspection!FillReport, Inspection!PublishReport
  <2>2. handle' \in [Inspectors -> {"none", "tmp", "published", "unlinked"}]
    BY <1>0, <1>15
    DEF Inspection!OpenReport, Inspection!OpenTmp, Inspection!FillReport, Inspection!Fill,
        Inspection!PublishReport, Inspection!Rename, Inspection!TypeOK
  <2>3. /\ \/ tmp' \in Inspection!Unreadable
           \/ tmp' = tmp
           \/ inspectPc[p] = "fill" /\ tmp' = Inspection!Draft(p)
        /\ \/ published' \in Inspection!Unreadable
           \/ published' = published \/ published' = tmp
           \/ inspectPc[p] = "fill" /\ published' = Inspection!Draft(p)
    <3>1. CASE Inspection!OpenReport(p)
      BY <3>1 DEF Inspection!OpenReport, Inspection!OpenTmp, Inspection!Unreadable
    <3>2. CASE Inspection!FillReport(p)
      BY <3>2 DEF Inspection!FillReport, Inspection!Fill, Inspection!Overwritten,
                  Inspection!Unreadable
    <3>3. CASE Inspection!PublishReport(p)
      BY <3>3 DEF Inspection!PublishReport, Inspection!Rename, Inspection!Unreadable
    <3>4. QED
      BY <1>15, <3>1, <3>2, <3>3
  <2>4. \A f : f \in Inspection!Report /\ Inspection!DatedReport(f) =>
          /\ f.seen.kp # "none" => f.request.kp # Nothing
          /\ f.seen.kp = "acked" => kp'[f.request.kp] = "acked"
          /\ f.seen.welcome # "none" => f.request.welcome # Nothing
          /\ f.seen.welcome = "acked" => welcome'[f.request.welcome] = "acked"
    BY <2>1 DEF Inspection!DatedReport, Inspection!Dated
  <2>5. /\ tmp \in Inspection!Unreadable
           \/ (tmp \in Inspection!Report /\ Inspection!DatedReport(tmp))
        /\ published \in Inspection!Unreadable
           \/ (published \in Inspection!Report /\ Inspection!DatedReport(published))
    BY DEF Inspection!IInv, Inspection!TypeOK
  <2>6. /\ tmp' \in Inspection!Unreadable
           \/ (tmp' \in Inspection!Report /\ Inspection!DatedReport(tmp'))
        /\ published' \in Inspection!Unreadable
           \/ (published' \in Inspection!Report /\ Inspection!DatedReport(published'))
    BY <1>11, <2>3, <2>5
  <2>7. /\ tmp' \notin Inspection!Unreadable =>
             tmp' \in Inspection!Report /\ Inspection!DatedReport(tmp)'
        /\ published' \notin Inspection!Unreadable =>
             published' \in Inspection!Report /\ Inspection!DatedReport(published)'
    BY <2>4, <2>6 DEF Inspection!DatedReport, Inspection!Dated
  <2>8. inspectPc[p] # "idle" /\ inspectCmd[p] # Nothing
    BY <2>1, InspectionDated
  <2>9. /\ inspectCmd[p] \in Inspection!Request \cup {Nothing}
        /\ inspectSeen[p] \in Inspection!Seen
        /\ inspectAnswer[p] \in Inspection!Report \cup {Nothing}
        /\ inspectAnswer[p] # Nothing => Inspection!DatedReport(inspectAnswer[p])
        /\ Inspection!Dated(inspectCmd[p], inspectSeen[p])
    BY <2>1, <2>8, InspectionKnown
  <2>10. /\ tmp' \in Inspection!Report \cup Inspection!Unreadable
         /\ published' \in Inspection!Report \cup Inspection!Unreadable
    BY <2>7
  <2>11. UNCHANGED <<group, kp, welcome>> /\ to \notin {"idle", "load", "stat"}
    BY <2>1
  <2>12. QED
    BY <2>1, <2>2, <2>7, <2>8, <2>9, <2>10, <2>11, InspectionMoves
<1>16. QED
  BY <1>1, <1>2, <1>3, <1>4, <1>5, <1>6, <1>7, <1>8, <1>9, <1>10, <1>12, <1>13, <1>14, <1>15
  DEF Inspection!Next, Inspection!Step

-----------------------------------------------------------------------------
(* The local trust binding and the candidate of Gate C *)

\* The first changed field that moves the state moves it to a warning; the state
\* stays when no field but the Relay Space has changed, or when it is that warning.
LEMMA ChangedStates ==
  ASSUME NEW change
  PROVE  /\ Binding!ChangedState(change) \in Binding!Changed \cup {binding.state}
         /\ \/ Binding!ChangedState(change) \in Binding!Changed
            \/ {f \in Binding!Fields : Binding!Differs(change, f)} \subseteq {"space"}
         /\ {f \in Binding!Fields : Binding!Differs(change, f)} \subseteq {"space"} =>
              Binding!ChangedState(change) = binding.state
<1> DEFINE Moves(i) == /\ Binding!Differs(change, Binding!Order[i])
                       /\ Binding!MovesTo[Binding!Order[i]] # binding.state
<1>1. /\ Len(Binding!Order) = 4
      /\ Binding!Order[1] = "signer" /\ Binding!Order[2] = "device"
      /\ Binding!Order[3] = "key" /\ Binding!Order[4] = "account"
      /\ \A i \in 1..4 : /\ Binding!MovesTo[Binding!Order[i]] \in Binding!Changed
                         /\ Binding!Order[i] \in Binding!Fields \ {"space"}
  BY DEF Binding!Order, Binding!MovesTo, Binding!Changed, Binding!Fields
<1>2. CASE \A i \in 1..4 : ~Moves(i)
  <2>1. Binding!ChangedState(change) = binding.state
    BY <1>1, <1>2 DEF Binding!ChangedState
  <2>2. QED
    BY <1>1, <1>2, <2>1 DEF Binding!Fields
<1>3. CASE \E i \in 1..4 : Moves(i)
  <2> DEFINE first == CHOOSE i \in 1..4 : Moves(i) /\ \A j \in 1..i - 1 : ~Moves(j)
  <2>1. \E i \in 1..4 : Moves(i) /\ \A j \in 1..i - 1 : ~Moves(j)
    <3>1. Moves(1) \/ Moves(2) \/ Moves(3) \/ Moves(4)
      BY <1>3
    <3>2. Moves(1) => \A j \in 1..1 - 1 : ~Moves(j)
      OBVIOUS
    <3>3. Moves(2) /\ ~Moves(1) => \A j \in 1..2 - 1 : ~Moves(j)
      OBVIOUS
    <3>4. Moves(3) /\ ~Moves(1) /\ ~Moves(2) => \A j \in 1..3 - 1 : ~Moves(j)
      OBVIOUS
    <3>5. Moves(4) /\ ~Moves(1) /\ ~Moves(2) /\ ~Moves(3) => \A j \in 1..4 - 1 : ~Moves(j)
      OBVIOUS
    <3>6. 1 \in 1..4 /\ 2 \in 1..4 /\ 3 \in 1..4 /\ 4 \in 1..4
      OBVIOUS
    <3> HIDE DEF Moves
    <3>7. QED
      BY <3>1, <3>2, <3>3, <3>4, <3>5, <3>6, Zenon
  <2>2. first \in 1..4 /\ Moves(first)
    BY <2>1
  <2>3. Binding!ChangedState(change) = Binding!MovesTo[Binding!Order[first]]
    BY <1>1, <1>3 DEF Binding!ChangedState
  <2>4. /\ Binding!Differs(change, Binding!Order[first])
        /\ Binding!Order[first] \in Binding!Fields \ {"space"}
        /\ Binding!MovesTo[Binding!Order[first]] \in Binding!Changed
    <3> HIDE DEF first
    <3>1. QED
      BY <1>1, <2>2
  <2> HIDE DEF first
  <2>5. QED
    BY <2>3, <2>4
<1>4. QED
  BY <1>2, <1>3

LEMMA BindingFields ==
  ASSUME binding \in Binding!Binding
  PROVE  /\ binding.state \in Binding!Changed \cup {"candidate_observed", "promoted_local_trust",
                                                     "demoted", "revoked"}
         /\ binding.warnings \subseteq Binding!Warning
         /\ binding # Absent
BY DeviceAssumption DEF Binding!Binding, Binding!MissingAssumption

LEMMA BindingInit == Binding!Init => Binding!IInv
BY DEF Binding!Init, Binding!IInv, Binding!TypeOK, Binding!CandidateIsClean,
       Binding!PromotedIsClean, Binding!ChangeIsLoud

\* A change adds to the warnings, and moves the state unless only the space changed.
LEMMA BindingApply ==
  ASSUME Binding!IInv, NEW change \in Binding!Changes, Binding!Apply(change)
  PROVE  Binding!IInv'
<1> DEFINE fields == {f \in Binding!Fields : Binding!Differs(change, f)}
<1>0. /\ binding \in Binding!Binding /\ changes \subseteq Binding!Fields
      /\ binding.state \in Binding!Changed \cup {"candidate_observed", "promoted_local_trust",
                                                 "demoted", "revoked"}
      /\ binding.warnings \subseteq Binding!Warning
  BY BindingFields DEF Binding!IInv, Binding!TypeOK, Binding!Apply
<1>1. /\ binding' = [binding EXCEPT !.state = Binding!ChangedState(change),
                                    !.warnings = @ \cup fields]
      /\ changes' = changes \cup fields
  BY DEF Binding!Apply
<1>2. /\ binding'.state = Binding!ChangedState(change)
      /\ binding'.warnings = binding.warnings \cup fields
      /\ binding'.promotion = binding.promotion /\ binding'.ending = binding.ending
  BY <1>0, <1>1 DEF Binding!Binding
<1>3. /\ binding'.state \in Binding!Changed \cup {binding.state}
      /\ binding'.state \in Binding!Changed \/ fields \subseteq {"space"}
      /\ fields \subseteq {"space"} => binding'.state = binding.state
  BY <1>0, <1>2, ChangedStates DEF Binding!Changed
<1>4. binding' \in Binding!Binding /\ changes' \subseteq Binding!Fields
  <2>1. fields \subseteq Binding!Warning /\ fields \subseteq Binding!Fields
    BY DEF Binding!Warning
  <2> HIDE DEF fields
  <2>2. QED
    BY <1>0, <1>1, <1>2, <1>3, <2>1 DEF Binding!Binding
<1> HIDE DEF fields
<1>5. Binding!TypeOK' /\ binding' # Absent
  BY <1>4, DeviceAssumption DEF Binding!TypeOK, Binding!MissingAssumption
<1>6. Binding!CandidateIsClean' /\ Binding!PromotedIsClean' /\ Binding!ChangeIsLoud'
  BY <1>0, <1>1, <1>2, <1>3
  DEF Binding!Apply, Binding!IInv, Binding!CandidateIsClean, Binding!PromotedIsClean,
      Binding!ChangeIsLoud, Binding!Changed
<1>7. QED
  BY <1>5, <1>6 DEF Binding!IInv

\* A decision of the operator leaves the warnings.
LEMMA BindingEvent ==
  ASSUME Binding!IInv, NEW event \in Events \cup {Nothing},
         Binding!Promote(event) \/ Binding!Demote(event) \/ Binding!Revoke(event)
  PROVE  Binding!IInv'
<1>0. /\ binding \in Binding!Binding /\ changes' = changes /\ event \in Events
      /\ changes \subseteq Binding!Fields
      /\ binding.warnings \subseteq Binding!Warning
  BY BindingFields
  DEF Binding!IInv, Binding!TypeOK, Binding!Promote, Binding!Demote, Binding!Revoke, Binding!End
<1>1. /\ binding' \in Binding!Binding
      /\ binding.warnings \subseteq binding'.warnings
      /\ \/ /\ binding.state = "candidate_observed" /\ binding'.state = "promoted_local_trust"
            /\ binding'.promotion = event
         \/ binding'.state \in {"demoted", "revoked"} /\ binding'.ending = event
  <2>1. CASE Binding!Promote(event)
    BY <1>0, <2>1 DEF Binding!Promote, Binding!Binding, Binding!Warning, Binding!Changed
  <2>2. CASE Binding!Demote(event)
    BY <1>0, <2>2 DEF Binding!Demote, Binding!End, Binding!Binding, Binding!Warning, Binding!Changed
  <2>3. CASE Binding!Revoke(event)
    BY <1>0, <2>3 DEF Binding!Revoke, Binding!End, Binding!Binding, Binding!Warning, Binding!Changed
  <2>4. QED
    BY <2>1, <2>2, <2>3
<1>2. binding # Absent /\ binding' # Absent
  BY <1>0, <1>1, DeviceAssumption DEF Binding!MissingAssumption
<1>3. QED
  BY <1>0, <1>1, <1>2
  DEF Binding!IInv, Binding!TypeOK, Binding!CandidateIsClean, Binding!PromotedIsClean,
      Binding!ChangeIsLoud, Binding!Changed

LEMMA BindingStep ==
  ASSUME Binding!IInv, Binding!Next
  PROVE  Binding!IInv'
<1>1. ASSUME NEW e \in Binding!Evidence, Binding!Observe(e) PROVE Binding!IInv'
  <2>1. /\ binding' \in Binding!Binding /\ changes = {} /\ changes' = {}
        /\ binding'.state = "candidate_observed"
    BY <1>1
    DEF Binding!IInv, Binding!Observe, Binding!Candidate, Binding!Binding, Binding!Evidence,
        Binding!Changed
  <2>2. binding' # Absent
    BY <2>1, DeviceAssumption DEF Binding!MissingAssumption
  <2>3. QED
    BY <2>1, <2>2
    DEF Binding!IInv, Binding!TypeOK, Binding!CandidateIsClean, Binding!PromotedIsClean,
        Binding!ChangeIsLoud
<1>2. QED
  BY <1>1, BindingApply, BindingEvent DEF Binding!Next

LEMMA CandidateInit == Candidate!Init => Candidate!IInv
BY DEF Candidate!Init, Candidate!IInv, Candidate!TypeOK, Candidate!Evidence,
       Candidate!WarningsAreLatest, Candidate!PromotedIsUncontradicted,
       Candidate!ChangeWaitsForOperator

LEMMA CandidateStep ==
  ASSUME Candidate!IInv, Candidate!Next
  PROVE  Candidate!IInv'
<1> USE DEF Candidate!IInv, Candidate!TypeOK
<1>0. Absent \notin Candidate!Candidate
  BY DeviceAssumption DEF Candidate!MissingAssumption
<1>1. ASSUME NEW e \in Candidate!Evidence, Candidate!Observe(e) PROVE Candidate!IInv'
  <2>1. /\ candidate' \in Candidate!Candidate /\ latest' = e /\ unreviewed' = FALSE
        /\ candidate'.evidence = e /\ candidate'.warnings = {}
        /\ candidate'.state = "candidate_observed"
    BY <1>1 DEF Candidate!Observe, Candidate!Candidate
  <2>2. candidate' # Absent
    BY <1>0, <2>1
  <2>3. \A f \in Candidate!Fields : ~Candidate!Contradicts(latest, f)'
    BY <2>1 DEF Candidate!Contradicts
  <2>4. {f \in Candidate!Fields : Candidate!Contradicts(latest, f)'} = {}
    BY <2>3, Zenon
  <2>5. Candidate!WarningsAreLatest'
    BY <2>1, <2>4 DEF Candidate!WarningsAreLatest
  <2>6. QED
    BY <1>1, <2>1, <2>2, <2>5 DEF Candidate!PromotedIsUncontradicted, Candidate!ChangeWaitsForOperator
<1>2. ASSUME NEW e \in Candidate!Evidence, Candidate!Apply(e) PROVE Candidate!IInv'
  <2> DEFINE warnings == {f \in Candidate!Fields : Candidate!Contradicts(e, f)}
  <2>1. /\ candidate \in Candidate!Candidate /\ latest' = e
        /\ candidate' = [candidate EXCEPT !.warnings = warnings,
             !.state = IF warnings = {} THEN @ ELSE "changed_lineage_warning"]
        /\ unreviewed' = (unreviewed \/ warnings # {})
    BY <1>2 DEF Candidate!Apply
  <2>2. /\ candidate' \in Candidate!Candidate
        /\ candidate'.evidence = candidate.evidence /\ candidate'.warnings = warnings
        /\ candidate'.promotion = candidate.promotion
        /\ candidate'.state = IF warnings = {} THEN candidate.state ELSE "changed_lineage_warning"
    <3>1. warnings \subseteq Candidate!Fields
      OBVIOUS
    <3> HIDE DEF warnings
    <3>2. QED
      BY <2>1, <3>1 DEF Candidate!Candidate
  <2>3. \A f \in Candidate!Fields : Candidate!Contradicts(e, f)' <=> f \in warnings
    BY <2>2 DEF Candidate!Contradicts
  <2>4. candidate # Absent /\ candidate' # Absent
    BY <1>0, <2>1, <2>2
  <2>5. \A f \in Candidate!Fields : Candidate!Contradicts(latest, f)' <=> f \in warnings
    BY <2>1, <2>2 DEF Candidate!Contradicts
  <2>6. warnings \subseteq Candidate!Fields
    OBVIOUS
  <2> HIDE DEF warnings
  <2>7. QED
    BY <2>1, <2>2, <2>4, <2>5, <2>6
    DEF Candidate!WarningsAreLatest, Candidate!PromotedIsUncontradicted,
        Candidate!ChangeWaitsForOperator
<1>3. ASSUME NEW event \in Events \cup {Nothing},
             Candidate!Review(event) \/ Candidate!Promote(event) \/ Candidate!Revoke(event)
      PROVE  Candidate!IInv'
  <2>1. /\ candidate \in Candidate!Candidate /\ event \in Events
        /\ unreviewed' = FALSE /\ latest' = latest
    BY <1>3 DEF Candidate!Review, Candidate!Promote, Candidate!Revoke, Candidate!Decide
  <2>2. /\ candidate' \in Candidate!Candidate
        /\ candidate'.evidence = candidate.evidence /\ candidate'.warnings = candidate.warnings
        /\ \/ candidate'.state \in {"operator_review_required", "revoked"}
           \/ candidate.warnings = {} /\ candidate'.promotion = event
    BY <1>3, <2>1 DEF Candidate!Review, Candidate!Promote, Candidate!Revoke, Candidate!Candidate
  <2>3. candidate # Absent /\ candidate' # Absent
    BY <1>0, <2>1, <2>2
  <2>4. \A f \in Candidate!Fields : Candidate!Contradicts(latest, f)' <=> Candidate!Contradicts(latest, f)
    BY <2>1, <2>2 DEF Candidate!Contradicts
  <2>5. candidate.warnings = {f \in Candidate!Fields : Candidate!Contradicts(latest, f)}
    BY <2>3 DEF Candidate!WarningsAreLatest
  <2>6. QED
    BY <2>1, <2>2, <2>3, <2>4, <2>5
    DEF Candidate!WarningsAreLatest, Candidate!PromotedIsUncontradicted,
        Candidate!ChangeWaitsForOperator
<1>4. QED
  BY <1>1, <1>2, <1>3 DEF Candidate!Next

-----------------------------------------------------------------------------
(* The device: one part moves, the others stand still *)

\* A process that is running is answered by a replay of the report of its own
\* workflow, or from the report that it has drawn up for its own request.
LEMMA InspectionAnswers ==
  ASSUME Inspection!IInv, [Inspection!Next]_Inspection!vars,
         NEW p \in Inspectors, inspectPc[p] # "idle", inspectAnswer'[p] # inspectAnswer[p]
  PROVE  inspectAnswer'[p].request.workflow = inspectCmd[p].workflow
<1>0. inspectAnswer \in [Inspectors -> Inspection!Report \cup {Nothing}]
  BY DEF Inspection!IInv, Inspection!TypeOK
<1>1. ASSUME inspectAnswer' = inspectAnswer PROVE FALSE
  BY <1>1
<1>2. ASSUME NEW q \in Inspectors, NEW a, q # p, inspectAnswer' = [inspectAnswer EXCEPT ![q] = a]
      PROVE  FALSE
  BY <1>0, <1>2
<1>3. ASSUME NEW q \in Inspectors, NEW r \in Requests, Inspection!Start(q, r) PROVE FALSE
  BY <1>2, <1>3 DEF Inspection!Start
<1>4. CASE \E q \in Inspectors : Inspection!Replay(q)
  BY <1>0, <1>2, <1>4 DEF Inspection!Replay
<1>5. CASE \E q \in Inspectors : Inspection!Answer(q)
  BY <1>0, <1>2, <1>5 DEF Inspection!Answer, Inspection!Draft
<1>6. ASSUME NEW q \in Inspectors,
             Inspection!Step(q) /\ ~Inspection!Replay(q) /\ ~Inspection!Answer(q)
      PROVE  FALSE
  BY <1>1, <1>6
  DEF Inspection!Step, Inspection!NoReport, Inspection!LoadFails, Inspection!StatConversation,
      Inspection!ReadKeyPackage, Inspection!ReadWelcome, Inspection!OpenReport,
      Inspection!FillReport, Inspection!PublishReport, Inspection!PublishFails
<1>7. CASE UNCHANGED Inspection!vars
  BY <1>1, <1>7 DEF Inspection!vars
<1>8. QED
  BY <1>1, <1>3, <1>4, <1>5, <1>6, <1>7
  DEF Inspection!Next, Inspection!CreateGroup, Inspection!AdvanceKeyPackage,
      Inspection!AdvanceWelcome, Inspection!Crash

\* The invariants speak of their own variables only.
LEMMA StateFrame ==
  ASSUME UNCHANGED stateVars
  PROVE  /\ State!IInv => State!IInv'
         /\ State!SpaceIInv => State!SpaceIInv'
BY DEF stateVars, State!IInv, State!TypeOK, State!Readable, State!Sound,
       State!Issued, State!Position, State!SpaceIInv, State!Alone, State!SpacePosition

LEMMA IdentityFrame ==
  ASSUME Identity!IInv, UNCHANGED identityVars
  PROVE  Identity!IInv'
BY DEF identityVars, Identity!IInv, Identity!TypeOK, Identity!Ordered, Identity!CreatePosition,
       Identity!ReadPosition, Identity!AnsweredIsWhole, Identity!BundleSignedByIdentity,
       Identity!Complete

LEMMA RecoveryStill ==
  ASSUME Recovery!IInv, UNCHANGED recoveryVars
  PROVE  Recovery!IInv'
BY DEF recoveryVars, Recovery!IInv, Recovery!TypeOK, Recovery!Position, Recovery!AnswerPosition,
       Recovery!Answered, Recovery!Passed

LEMMA InspectionFrame ==
  ASSUME Inspection!IInv, UNCHANGED inspectVars
  PROVE  Inspection!IInv'
BY DEF inspectVars, Inspection!IInv, Inspection!TypeOK, Inspection!JoinedHaveGroup,
       Inspection!DatedReport, Inspection!Dated, Inspection!Position

LEMMA BindingFrame ==
  ASSUME Binding!IInv, UNCHANGED bindingVars
  PROVE  Binding!IInv'
BY DEF bindingVars, Binding!IInv, Binding!TypeOK, Binding!CandidateIsClean,
       Binding!PromotedIsClean, Binding!ChangeIsLoud

LEMMA CandidateFrame ==
  ASSUME Candidate!IInv, UNCHANGED candidateVars
  PROVE  Candidate!IInv'
BY DEF candidateVars, Candidate!IInv, Candidate!TypeOK, Candidate!WarningsAreLatest,
       Candidate!PromotedIsUncontradicted, Candidate!ChangeWaitsForOperator, Candidate!Contradicts

\* One part moves by a step of its own module.
LEMMA DeviceStep ==
  ASSUME DeviceIInv, [DeviceNext]_deviceVars
  PROVE  DeviceIInv'
<1> USE DEF DeviceIInv
<1>1. ASSUME StateNext \/ SpaceNext, part' = part PROVE DeviceIInv'
  <2>1. State!Next /\ UNCHANGED <<recoveryVars, inspectVars, bindingVars, candidateVars>>
    BY <1>1 DEF StateNext, SpaceNext
  <2>2. State!IInv'
    BY <2>1, StateStep
  <2>3. ASSUME part = "space" PROVE State!SpaceIInv'
    <3>1. State!Alone'
      BY <1>1, <2>3 DEF StateNext, SpaceNext, State!Alone
    <3>2. QED
      BY <2>1, <2>2, <2>3, <3>1, StateSpaceStep
  <2>4. QED
    BY <1>1, <2>1, <2>2, <2>3, RecoveryStill, InspectionFrame, BindingFrame, CandidateFrame
<1>2. ASSUME IdentityNext, part' = part PROVE DeviceIInv'
  BY <1>2, StateFrame, RecoveryStill, InspectionFrame, BindingFrame, CandidateFrame
  DEF IdentityNext
<1>3. ASSUME RecoveryNext, part' = part PROVE DeviceIInv'
  BY <1>3, RecoveryStep, StateFrame, InspectionFrame, BindingFrame, CandidateFrame
  DEF RecoveryNext
<1>4. ASSUME InspectionNext, part' = part PROVE DeviceIInv'
  BY <1>4, InspectionStep, StateFrame, RecoveryStill, BindingFrame, CandidateFrame
  DEF InspectionNext
<1>5. ASSUME BindingNext, part' = part PROVE DeviceIInv'
  BY <1>5, BindingStep, StateFrame, RecoveryStill, InspectionFrame, CandidateFrame
  DEF BindingNext
<1>6. ASSUME CandidateNext, part' = part PROVE DeviceIInv'
  BY <1>6, CandidateStep, StateFrame, RecoveryStill, InspectionFrame, BindingFrame
  DEF CandidateNext
<1>7. CASE UNCHANGED deviceVars
  BY <1>7, StateFrame, RecoveryStill, InspectionFrame, BindingFrame, CandidateFrame
  DEF deviceVars
<1>8. QED
  BY <1>1, <1>2, <1>3, <1>4, <1>5, <1>6, <1>7 DEF DeviceNext

\* What every part keeps, whichever moves.
THEOREM DeviceInductive == DeviceSpec => []DeviceIInv
<1>1. DeviceInit => DeviceIInv
  BY StateInit, StateSpaceInit, RecoveryInit, InspectionInit, BindingInit, CandidateInit
  DEF DeviceInit, DeviceIInv
<1>2. QED
  BY <1>1, DeviceStep, PTL DEF DeviceSpec

\* A state.json never pairs a server, an account and a device of different commands,
\* and every request goes to the server that issued what it names, however commands
\* of any number of processes interleave between Load and Save; while they do not
\* interleave, so do Relay Space claims and member changes.
THEOREM StateStaysSound == DeviceSpec => []StateIsSound
<1>1. DeviceIInv => StateIsSound
  BY StateIssued, StateSpaceIssued DEF DeviceIInv, StateIsSound, State!IInv
<1>2. QED
  BY <1>1, DeviceInductive, PTL

\* A recovery classification names damage that the files had while it ran, and lets
\* through nothing that calls for a block, whatever is written meanwhile.
THEOREM RecoveryStaysSound == DeviceSpec => []RecoveryIsSound
<1>1. DeviceIInv => RecoveryIsSound
  BY RecoveryReports, RecoveryHarmless DEF DeviceIInv, RecoveryIsSound, Recovery!IInv
<1>2. QED
  BY <1>1, DeviceInductive, PTL

\* The order of the classifications leaves "aligned" to the one case it stands for.
THEOREM InspectionStaysSound == DeviceSpec => []InspectionIsSound
<1>1. DeviceIInv => InspectionIsSound
  BY InspectionAllowed DEF DeviceIInv, InspectionIsSound, Inspection!IInv
<1>2. QED
  BY <1>1, DeviceInductive, PTL

\* "workflow_ready" stays true of any number of receipts and workflows, and of
\* commands that overwrite and replay each other's report.
THEOREM ReadyIsKept == DeviceSpec => []ReadyStaysTrue
<1>1. DeviceIInv => ReadyStaysTrue
  BY InspectionReady DEF DeviceIInv, ReadyStaysTrue
<1>2. QED
  BY <1>1, DeviceInductive, PTL

\* No command is answered about another workflow.
THEOREM OwnWorkflow == DeviceSpec => AnswersOwnWorkflow
<1>1. ASSUME DeviceIInv, [DeviceNext]_deviceVars
      PROVE  [\A p \in Inspectors :
                inspectPc[p] # "idle" /\ inspectAnswer'[p] # inspectAnswer[p] =>
                  inspectAnswer'[p].request.workflow = inspectCmd[p].workflow]_Inspection!vars
  <2>1. [Inspection!Next]_Inspection!vars
    BY <1>1
    DEF DeviceNext, deviceVars, StateNext, SpaceNext, IdentityNext, RecoveryNext,
        InspectionNext, BindingNext, CandidateNext, inspectVars, Inspection!vars,
        Inspection!evidence, Inspection!reportVars
  <2>2. Inspection!IInv
    BY <1>1 DEF DeviceIInv
  <2>3. QED
    BY <2>1, <2>2, InspectionAnswers
<1>2. QED
  BY <1>1, DeviceInductive, PTL
  DEF DeviceSpec, AnswersOwnWorkflow, Inspection!AnswersOwnWorkflow

\* A promoted binding or candidate has had its event and nothing that contradicts it
\* since, after any sequence of calls.
THEOREM LocalTrustStaysSound == DeviceSpec => []LocalTrustIsSound
<1>1. DeviceIInv => LocalTrustIsSound
  BY DEF DeviceIInv, LocalTrustIsSound, Binding!IInv, Candidate!IInv
<1>2. QED
  BY <1>1, DeviceInductive, PTL

-----------------------------------------------------------------------------
(* The identity, while one process creates it *)

LEMMA IdentityMoves ==
  ASSUME [DeviceNext]_deviceVars
  PROVE  Identity!Next \/ UNCHANGED identityVars
BY DEF DeviceNext, deviceVars, StateNext, SpaceNext, IdentityNext, RecoveryNext,
       InspectionNext, BindingNext, CandidateNext

\* While one process creates, files are written in order and read as they are.
THEOREM IdentityInductive ==
  ASSUME Identity!OneCreator
  PROVE  DeviceSpec => []Identity!IInv
<1>1. DeviceInit => Identity!IInv
  BY IdentityInit DEF DeviceInit
<1>2. Identity!IInv /\ [DeviceNext]_deviceVars => Identity!IInv'
  BY IdentityMoves, IdentityStep, IdentityFrame
<1>3. QED
  BY <1>1, <1>2, PTL DEF DeviceSpec

\* A half-written identity is never answered, and a public bundle is signed by the
\* identity it names, for any readers beside the one process that creates.
THEOREM IdentityStaysWhole ==
  ASSUME Identity!OneCreator
  PROVE  DeviceSpec => []IdentityIsWhole
<1>1. Identity!IInv => IdentityIsWhole
  BY DEF Identity!IInv, IdentityIsWhole
<1>2. QED
  BY <1>1, IdentityInductive, PTL

\* No create touches the files of an identity that was answered as created.
THEOREM IdentityIsKept ==
  ASSUME Identity!OneCreator
  PROVE  DeviceSpec => IdentityStays
<1>1. ASSUME Identity!IInv, [DeviceNext]_deviceVars
      PROVE  [\A k \in created :
                \A f \in Identity!Names : identityFile'[f] = identityFile[f]]_identityFile
  <2>1. CASE Identity!Next
    BY <1>1, <2>1, IdentityUntouched
  <2>2. CASE UNCHANGED identityVars
    BY <2>2 DEF identityVars
  <2>3. QED
    BY <1>1, <2>1, <2>2, IdentityMoves
<1>2. QED
  BY <1>1, IdentityInductive, PTL DEF DeviceSpec, IdentityStays, Identity!IdentityStays
=============================================================================
