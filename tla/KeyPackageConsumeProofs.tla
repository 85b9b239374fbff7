---------------------- MODULE KeyPackageConsumeProofs ----------------------
(***************************************************************************)
(* Machine-checked safety of openmls-relay-keypackage-consume-dev, for any *)
(* number of processes, envelopes and receipt directories: the inductive   *)
(* invariant IInv, true and final receipts, and the refinement of          *)
(* RelayDelivery.  One lemma says what a step does to the files, and the   *)
(* invariant follows from it and from the exclusion of the lock.           *)
(***************************************************************************)
EXTENDS KeyPackageConsume, TLAPS

ProcessStep(p) == Step(p) \/ Failure(p) \/ \E c \in Command : Start(p, c)

-----------------------------------------------------------------------------
(* Types *)

LEMMA NoCommandIsNone == NoCommand \notin Command
BY ConsumeAssumption DEF NoCommand, Command

LEMMA CommandInDirectory ==
  ASSUME TypeOK, NEW p \in Procs, Position(p), pc[p] # "idle"
  PROVE  cmd[p] \in Command /\ cmd[p].envelope \in Envelopes /\ Dir(p) \in Directories
<1>1. cmd[p] \in Command
  BY DEF TypeOK, Position
<1>2. cmd[p].envelope \in Envelopes
  BY <1>1 DEF Command
<1>3. QED
  BY <1>1, <1>2, ConsumeAssumption DEF Dir

LEMMA InitType == Init => TypeOK
<1> SUFFICES ASSUME Init PROVE TypeOK
  OBVIOUS
<1>1. /\ relay \in [Envelopes -> {"unsent", "queued", "acknowledged"}]
      /\ lock \in BOOLEAN
      /\ artifact \in [Directories -> Envelopes \cup {NoEnvelope}]
      /\ receipt \in [Directories -> Receipt \cup {NoReceipt}]
  BY DEF Init
<1>2. /\ pc \in [Procs -> {"idle", "acquire"} \cup Active]
      /\ cmd \in [Procs -> Command \cup {NoCommand}]
      /\ note \in [Procs -> Receipt \cup {NoReceipt}]
  BY DEF Init
<1>3. QED
  BY <1>1, <1>2 DEF TypeOK

LEMMA NextType == IInv /\ [Next]_vars => TypeOK'
<1> SUFFICES ASSUME IInv, [Next]_vars PROVE TypeOK'
  OBVIOUS
<1>0. TypeOK /\ \A p \in Procs : Position(p)
  BY DEF IInv
<1>1. CASE UNCHANGED vars
  BY <1>0, <1>1 DEF TypeOK, vars, files
<1>2. ASSUME NEW e \in Envelopes, Submit(e) PROVE TypeOK'
  BY <1>0, <1>2 DEF TypeOK, Submit, files
<1>3. ASSUME NEW p \in Procs, NEW c \in Command, Start(p, c) PROVE TypeOK'
  BY <1>0, <1>3 DEF TypeOK, Start, Goto, files
<1>4. ASSUME NEW p \in Procs, LockUnavailable(p) \/ Release(p) \/ Crash(p) PROVE TypeOK'
  BY <1>0, <1>4 DEF TypeOK, LockUnavailable, Release, Crash, Forget, Goto, files
<1>5. ASSUME NEW p \in Procs,
             \/ AcquireLock(p) \/ FreshConsume(p) \/ RetryAck(p) \/ NothingToDo(p)
             \/ SelectKeyPackage(p) \/ NoKeyPackage(p) \/ IOFailure(p)
      PROVE  TypeOK'
  <2>1. UNCHANGED <<relay, artifact, receipt, cmd>> /\ lock' \in BOOLEAN
    BY <1>0, <1>5
    DEF TypeOK, AcquireLock, FreshConsume, RetryAck, NothingToDo, SelectKeyPackage,
        NoKeyPackage, IOFailure, files
  <2>2. pc' \in [Procs -> {"idle", "acquire"} \cup Active]
    BY <1>0, <1>5
    DEF TypeOK, AcquireLock, FreshConsume, RetryAck, NothingToDo, SelectKeyPackage,
        NoKeyPackage, IOFailure, Goto, Active
  <2>3. note' \in [Procs -> Receipt \cup {NoReceipt}]
    <3>1. CASE RetryAck(p)
      <4>1. Dir(p) \in Directories
        BY <1>0, <3>1, CommandInDirectory DEF RetryAck
      <4>2. QED
        BY <1>0, <3>1, <4>1 DEF TypeOK, RetryAck
    <3>2. CASE ~RetryAck(p)
      BY <1>0, <1>5, <3>2
      DEF TypeOK, AcquireLock, FreshConsume, NothingToDo, SelectKeyPackage, NoKeyPackage,
          IOFailure
    <3>3. QED
      BY <3>1, <3>2
  <2>4. QED
    BY <1>0, <2>1, <2>2, <2>3 DEF TypeOK
<1>6. ASSUME NEW p \in Procs, PersistKeyPackage(p) PROVE TypeOK'
  <2>1. cmd[p].envelope \in Envelopes
    BY <1>0, <1>6, CommandInDirectory DEF PersistKeyPackage
  <2>2. QED
    BY <1>0, <1>6, <2>1 DEF TypeOK, PersistKeyPackage, Goto, Active
<1>7. ASSUME NEW p \in Procs, NEW r \in Receipt, WriteReceipt(p, r)
      PROVE  /\ receipt' \in [Directories -> Receipt \cup {NoReceipt}]
             /\ note' \in [Procs -> Receipt \cup {NoReceipt}]
             /\ UNCHANGED <<relay, lock, artifact, cmd>>
  BY <1>0, <1>7 DEF TypeOK, WriteReceipt
<1>8. ASSUME NEW p \in Procs, WriteConsumed(p) \/ WriteAcked(p) PROVE TypeOK'
  <2>1. \E r \in Receipt : WriteReceipt(p, r)
    <3>1. CASE WriteConsumed(p)
      <4>1. cmd[p].envelope \in Envelopes
        BY <1>0, <3>1, CommandInDirectory DEF WriteConsumed
      <4>2. [envelope |-> cmd[p].envelope, acked |-> FALSE] \in Receipt
        BY <4>1 DEF Receipt
      <4>3. QED
        BY <3>1, <4>2 DEF WriteConsumed
    <3>2. CASE WriteAcked(p)
      <4>1. note[p] \in Receipt
        BY <1>0, <3>2 DEF WriteAcked, Position
      <4>2. [note[p] EXCEPT !.acked = TRUE] \in Receipt
        BY <4>1 DEF Receipt
      <4>3. QED
        BY <3>2, <4>2 DEF WriteAcked
    <3>3. QED
      BY <1>8, <3>1, <3>2
  <2>2. pc' \in [Procs -> {"idle", "acquire"} \cup Active]
    BY <1>0, <1>8 DEF TypeOK, WriteConsumed, WriteAcked, Goto, Active
  <2>3. QED
    BY <1>0, <1>7, <2>1, <2>2 DEF TypeOK
<1>9. ASSUME NEW p \in Procs, NEW a \in BOOLEAN, Ack(p, a) PROVE TypeOK'
  BY <1>0, <1>9 DEF TypeOK, Ack, Goto, Active, files
<1>10. CASE RemoveStaleLock
  BY <1>0, <1>10 DEF TypeOK, RemoveStaleLock
<1>11. QED
  BY <1>1, <1>2, <1>3, <1>4, <1>5, <1>6, <1>8, <1>9, <1>10 DEF Next, Step, Failure

-----------------------------------------------------------------------------
(* What a step does *)

\* A step of p leaves the memory of the others alone.
LEMMA OthersUntouched ==
  ASSUME TypeOK, NEW p \in Procs, NEW q \in Procs, p # q, ProcessStep(p)
  PROVE  pc'[q] = pc[q] /\ cmd'[q] = cmd[q] /\ note'[q] = note[q]
<1>1. pc'[q] = pc[q]
  BY DEF TypeOK, ProcessStep, Step, Failure, Start, AcquireLock, LockUnavailable, Release,
     FreshConsume, RetryAck, NothingToDo, SelectKeyPackage, NoKeyPackage,
     PersistKeyPackage, WriteConsumed, Ack, WriteAcked, IOFailure, Crash, Forget, Goto
<1>2. cmd'[q] = cmd[q]
  BY DEF TypeOK, ProcessStep, Step, Failure, Start, AcquireLock, LockUnavailable, Release,
     FreshConsume, RetryAck, NothingToDo, SelectKeyPackage, NoKeyPackage,
     PersistKeyPackage, WriteConsumed, Ack, WriteAcked, IOFailure, Crash, Forget,
     WriteReceipt
<1>3. note'[q] = note[q]
  BY DEF TypeOK, ProcessStep, Step, Failure, Start, AcquireLock, LockUnavailable, Release,
     FreshConsume, RetryAck, NothingToDo, SelectKeyPackage, NoKeyPackage,
     PersistKeyPackage, WriteConsumed, Ack, WriteAcked, IOFailure, Crash, Forget,
     WriteReceipt
<1>4. QED
  BY <1>1, <1>2, <1>3

\* Only a process inside the critical section writes the files or acknowledges.
LEMMA OutsideTheLock ==
  ASSUME TypeOK, NEW p \in Procs, ProcessStep(p), pc[p] \notin Active
  PROVE  UNCHANGED <<relay, artifact, receipt>>
BY DEF ProcessStep, Step, Failure, Start, AcquireLock, LockUnavailable, Release,
   FreshConsume, RetryAck, NothingToDo, SelectKeyPackage, NoKeyPackage,
   PersistKeyPackage, WriteConsumed, Ack, WriteAcked, IOFailure, Crash, files, Active

\* Of the steps of p, one writes the artifact, two the receipt and one the relay.
LEMMA WhoWrites ==
  ASSUME NEW p \in Procs, ProcessStep(p)
  PROVE  /\ artifact' # artifact => PersistKeyPackage(p)
         /\ receipt' # receipt => WriteConsumed(p) \/ WriteAcked(p)
         /\ relay' # relay => \E a \in BOOLEAN : Ack(p, a)
BY DEF ProcessStep, Step, Failure, Start, AcquireLock, LockUnavailable, Release,
   FreshConsume, RetryAck, NothingToDo, SelectKeyPackage, NoKeyPackage,
   PersistKeyPackage, WriteConsumed, Ack, WriteAcked, IOFailure, Crash, files,
   WriteReceipt

-----------------------------------------------------------------------------
(* Consumed KeyPackages stay *)

Kept(d) ==
  /\ artifact[d] # NoEnvelope => artifact'[d] = artifact[d]
  /\ receipt[d] # NoReceipt =>
       /\ receipt'[d] # NoReceipt
       /\ receipt'[d].envelope = receipt[d].envelope
       /\ receipt[d].acked => receipt'[d].acked

\* A step of p that writes a file finds none, or the one it has in memory.
LEMMA NextKept ==
  ASSUME IInv, [Next]_vars, NEW d \in Directories
  PROVE  Kept(d)
<1>0. TypeOK /\ \A p \in Procs : Position(p)
  BY DEF IInv
<1>1. CASE UNCHANGED <<artifact, receipt>>
  BY <1>1 DEF Kept
<1>2. ASSUME NEW p \in Procs, PersistKeyPackage(p) PROVE Kept(d)
  <2>1. artifact[Dir(p)] = NoEnvelope
    BY <1>0, <1>2 DEF PersistKeyPackage, Position
  <2>2. QED
    BY <1>0, <1>2, <2>1 DEF TypeOK, PersistKeyPackage, Kept
<1>3. ASSUME NEW p \in Procs, WriteConsumed(p) PROVE Kept(d)
  <2>1. receipt[Dir(p)] = NoReceipt
    BY <1>0, <1>3 DEF WriteConsumed, Position
  <2>2. QED
    BY <1>0, <1>3, <2>1 DEF TypeOK, WriteConsumed, WriteReceipt, Kept
<1>4. ASSUME NEW p \in Procs, WriteAcked(p) PROVE Kept(d)
  <2>1. receipt[Dir(p)] = note[p] /\ note[p] \in Receipt
    BY <1>0, <1>4 DEF WriteAcked, Position
  <2>2. receipt' = [receipt EXCEPT ![Dir(p)] = [note[p] EXCEPT !.acked = TRUE]]
        /\ artifact' = artifact
    BY <1>4 DEF WriteAcked, WriteReceipt
  <2>3. [note[p] EXCEPT !.acked = TRUE] \in Receipt
        /\ [note[p] EXCEPT !.acked = TRUE].envelope = note[p].envelope
        /\ [note[p] EXCEPT !.acked = TRUE].acked
    BY <2>1 DEF Receipt
  <2>4. CASE d = Dir(p)
    BY <1>0, <2>1, <2>2, <2>3, <2>4, ConsumeAssumption DEF TypeOK, Kept
  <2>5. CASE d # Dir(p)
    BY <1>0, <2>2, <2>5 DEF TypeOK, Kept
  <2>6. QED
    BY <2>4, <2>5
<1>5. CASE UNCHANGED vars \/ RemoveStaleLock \/ \E e \in Envelopes : Submit(e)
  BY <1>1, <1>5 DEF vars, files, RemoveStaleLock, Submit
<1>6. ASSUME NEW p \in Procs, ProcessStep(p) PROVE Kept(d)
  BY <1>1, <1>2, <1>3, <1>4, <1>6, WhoWrites
<1>7. QED
  BY <1>5, <1>6 DEF Next, ProcessStep

\* The relay never takes an acknowledgement back.
LEMMA AcknowledgedStays ==
  ASSUME IInv, [Next]_vars, NEW e \in Envelopes, relay[e] = "acknowledged"
  PROVE  relay'[e] = "acknowledged"
<1>0. TypeOK
  BY DEF IInv
<1>1. CASE \E f \in Envelopes : Submit(f)
  BY <1>0, <1>1 DEF TypeOK, Submit
<1>2. ASSUME NEW p \in Procs, ProcessStep(p) PROVE relay'[e] = "acknowledged"
  BY <1>0, <1>2, WhoWrites DEF TypeOK, Ack
<1>3. CASE UNCHANGED vars \/ RemoveStaleLock
  BY <1>3 DEF vars, RemoveStaleLock
<1>4. QED
  BY <1>1, <1>2, <1>3 DEF Next, ProcessStep

-----------------------------------------------------------------------------
(* The lock *)

LEMMA NextLock == IInv /\ [Next]_vars => LockExclusive'
<1> SUFFICES ASSUME IInv, [Next]_vars PROVE LockExclusive'
  OBVIOUS
<1>0. TypeOK /\ LockExclusive
  BY DEF IInv
<1>1. CASE UNCHANGED <<lock, pc>>
  BY <1>0, <1>1 DEF LockExclusive
<1>2. CASE RemoveStaleLock
  BY <1>0, <1>2 DEF LockExclusive, RemoveStaleLock
<1>3. CASE UNCHANGED vars \/ \E e \in Envelopes : Submit(e)
  BY <1>1, <1>3 DEF vars, files, Submit
<1>4. ASSUME NEW p \in Procs, ProcessStep(p) PROVE LockExclusive'
  <2>0. \A q \in Procs : q # p => pc'[q] = pc[q]
    BY <1>0, <1>4, OthersUntouched
  <2>1. CASE AcquireLock(p)
    <3>1. ~lock /\ lock'
      BY <2>1 DEF AcquireLock
    <3>2. \A q \in Procs : pc[q] \notin Active
      BY <1>0, <3>1 DEF LockExclusive
    <3>3. QED
      BY <2>0, <3>1, <3>2 DEF LockExclusive
  <2>2. CASE Release(p)
    <3>1. pc[p] \in Active /\ pc'[p] = "idle"
      BY <1>0, <2>2 DEF TypeOK, Release, Forget, Goto, Active
    <3>2. \A q \in Procs : pc'[q] \notin Active
      BY <1>0, <2>0, <3>1 DEF LockExclusive, Active
    <3>3. QED
      BY <3>2 DEF LockExclusive
  <2>3. CASE ~AcquireLock(p) /\ ~Release(p)
    <3>1. lock' = lock
      BY <1>4, <2>3
      DEF ProcessStep, Step, Failure, Start, LockUnavailable, FreshConsume, RetryAck,
          NothingToDo, SelectKeyPackage, NoKeyPackage, PersistKeyPackage, WriteConsumed,
          WriteReceipt, Ack, WriteAcked, IOFailure, Crash, files
    <3>2. pc'[p] \in Active => pc[p] \in Active
      BY <1>0, <1>4, <2>3
      DEF TypeOK, ProcessStep, Step, Failure, Start, LockUnavailable, FreshConsume,
          RetryAck, NothingToDo, SelectKeyPackage, NoKeyPackage, PersistKeyPackage,
          WriteConsumed, Ack, WriteAcked, IOFailure, Crash, Forget, Goto, Active
    <3>3. QED
      BY <1>0, <2>0, <3>1, <3>2 DEF LockExclusive
  <2>4. QED
    BY <2>1, <2>2, <2>3
<1>5. QED
  BY <1>2, <1>3, <1>4 DEF Next, ProcessStep

-----------------------------------------------------------------------------
(* Receipts and acknowledgements *)

LEMMA NextReceipts == IInv /\ [Next]_vars => ReceiptsTruthful'
<1> SUFFICES ASSUME IInv, [Next]_vars, NEW d \in Directories, receipt'[d] # NoReceipt
             PROVE  ReceiptTrue(receipt[d], d)'
  BY DEF ReceiptsTruthful
<1>0. TypeOK /\ ReceiptsTruthful /\ \A p \in Procs : Position(p)
  BY DEF IInv
<1>1. CASE receipt'[d] = receipt[d]
  <2>1. ReceiptTrue(receipt[d], d) /\ receipt[d] \in Receipt
    BY <1>0, <1>1 DEF ReceiptsTruthful, TypeOK
  <2>2. receipt[d].envelope \in Envelopes
    BY <2>1 DEF Receipt
  <2>3. artifact'[d] = artifact[d]
    BY <2>1, <2>2, NextKept, ConsumeAssumption DEF ReceiptTrue, Kept
  <2>4. QED
    BY <1>1, <2>1, <2>2, <2>3, AcknowledgedStays DEF ReceiptTrue
<1>2. ASSUME NEW p \in Procs, WriteConsumed(p), receipt'[d] # receipt[d]
      PROVE  ReceiptTrue(receipt[d], d)'
  <2>1. /\ receipt' = [receipt EXCEPT ![Dir(p)] =
                         [envelope |-> cmd[p].envelope, acked |-> FALSE]]
        /\ artifact' = artifact /\ artifact[Dir(p)] = cmd[p].envelope
    BY <1>0, <1>2 DEF WriteConsumed, WriteReceipt, Position
  <2>2. d = Dir(p) /\ receipt'[d] = [envelope |-> cmd[p].envelope, acked |-> FALSE]
    BY <1>0, <1>2, <2>1 DEF TypeOK
  <2>3. QED
    BY <2>1, <2>2 DEF ReceiptTrue, Dir
<1>3. ASSUME NEW p \in Procs, WriteAcked(p), receipt'[d] # receipt[d]
      PROVE  ReceiptTrue(receipt[d], d)'
  <2>1. /\ receipt' = [receipt EXCEPT ![Dir(p)] = [note[p] EXCEPT !.acked = TRUE]]
        /\ UNCHANGED <<artifact, relay>>
        /\ receipt[Dir(p)] = note[p] /\ note[p] \in Receipt
        /\ note[p].envelope = cmd[p].envelope
        /\ relay[cmd[p].envelope] = "acknowledged"
    BY <1>0, <1>3 DEF WriteAcked, WriteReceipt, Position
  <2>2. d = Dir(p) /\ receipt'[d] = [note[p] EXCEPT !.acked = TRUE]
    BY <1>0, <1>3, <2>1 DEF TypeOK
  <2>3. receipt'[d].envelope = cmd[p].envelope
    BY <2>1, <2>2 DEF Receipt
  <2>4. ReceiptTrue(receipt[d], d)
    BY <1>0, <2>1, <2>2, ConsumeAssumption DEF ReceiptsTruthful
  <2>5. QED
    BY <2>1, <2>2, <2>3, <2>4 DEF ReceiptTrue
<1>4. CASE UNCHANGED vars \/ RemoveStaleLock \/ \E e \in Envelopes : Submit(e)
  BY <1>1, <1>4 DEF vars, files, RemoveStaleLock, Submit
<1>5. ASSUME NEW p \in Procs, ProcessStep(p) PROVE ReceiptTrue(receipt[d], d)'
  BY <1>1, <1>2, <1>3, <1>5, WhoWrites
<1>6. QED
  BY <1>4, <1>5 DEF Next, ProcessStep

\* A persisted KeyPackage stays persisted.
LEMMA PersistedStays ==
  ASSUME IInv, [Next]_vars, NEW e \in Envelopes, e \in Persisted
  PROVE  e \in Persisted'
BY NextKept, ConsumeAssumption DEF Persisted, Kept

\* An acknowledgement is sent for a persisted KeyPackage.
LEMMA AckOfPersisted ==
  ASSUME IInv, NEW p \in Procs, NEW a \in BOOLEAN, Ack(p, a)
  PROVE  /\ cmd[p].envelope \in Envelopes
         /\ cmd[p].envelope \in Persisted
         /\ relay' = [relay EXCEPT ![cmd[p].envelope] = "acknowledged"]
         /\ UNCHANGED files
<1>1. cmd[p].envelope \in Envelopes /\ Dir(p) \in Directories
  BY CommandInDirectory DEF IInv, Ack
<1>2. /\ receipt[Dir(p)] = note[p] /\ note[p] \in Receipt
      /\ note[p].envelope = cmd[p].envelope
  BY DEF IInv, Position, Ack
<1>3. ReceiptTrue(receipt[Dir(p)], Dir(p))
  BY <1>1, <1>2, ConsumeAssumption DEF IInv, ReceiptsTruthful
<1>4. QED
  BY <1>1, <1>2, <1>3, ConsumeAssumption DEF Ack, Persisted, ReceiptTrue, Dir

LEMMA NextAcked == IInv /\ [Next]_vars => AckedArePersisted'
<1> SUFFICES ASSUME IInv, [Next]_vars, NEW e \in Envelopes, relay'[e] = "acknowledged"
             PROVE  e \in Persisted'
  BY DEF AckedArePersisted
<1>0. TypeOK /\ AckedArePersisted
  BY DEF IInv
<1>1. CASE relay[e] = "acknowledged"
  BY <1>0, <1>1, PersistedStays DEF AckedArePersisted
<1>2. CASE relay[e] # "acknowledged"
  <2>1. ASSUME NEW p \in Procs, NEW a \in BOOLEAN, Ack(p, a) PROVE e \in Persisted'
    BY <1>0, <1>2, <2>1, AckOfPersisted, PersistedStays DEF TypeOK
  <2>2. ASSUME NEW f \in Envelopes, Submit(f) PROVE FALSE
    BY <1>0, <1>2, <2>2 DEF TypeOK, Submit
  <2>3. ~(UNCHANGED vars \/ RemoveStaleLock)
    BY <1>2 DEF vars, RemoveStaleLock
  <2>4. QED
    BY <1>2, <2>1, <2>2, <2>3, WhoWrites DEF Next, ProcessStep
<1>3. QED
  BY <1>1, <1>2

-----------------------------------------------------------------------------
(* Positions *)

\* What p has read stays true while another process moves: either p is outside
\* the lock, or the other one is.
LEMMA PositionOfOther ==
  ASSUME IInv, NEW p \in Procs, NEW q \in Procs, p # q, ProcessStep(p), [Next]_vars
  PROVE  Position(q)'
<1>0. TypeOK /\ LockExclusive /\ Position(q)
  BY DEF IInv
<1>1. pc'[q] = pc[q] /\ cmd'[q] = cmd[q] /\ note'[q] = note[q]
  BY <1>0, OthersUntouched
<1>2. CASE pc[q] \in Active
  <2>1. UNCHANGED <<relay, artifact, receipt>>
    BY <1>0, <1>2, OutsideTheLock DEF LockExclusive
  <2>2. QED
    BY <1>0, <1>1, <2>1 DEF Position, Dir
<1>3. CASE pc[q] \notin Active
  BY <1>0, <1>1, <1>3 DEF Position, Active
<1>4. QED
  BY <1>2, <1>3

LEMMA PositionOfActor ==
  ASSUME IInv, NEW p \in Procs, ProcessStep(p), TypeOK'
  PROVE  Position(p)'
<1>0. TypeOK /\ Position(p)
  BY DEF IInv
<1>1. CASE LockUnavailable(p) \/ Release(p) \/ Crash(p)
  <2>1. pc'[p] = "idle" /\ cmd'[p] = NoCommand
    BY <1>0, <1>1 DEF TypeOK, LockUnavailable, Release, Crash, Forget, Goto
  <2>2. QED
    BY <2>1 DEF Position
<1>2. ASSUME NEW c \in Command, Start(p, c) PROVE Position(p)'
  <2>1. pc'[p] = "acquire" /\ cmd'[p] = c
    BY <1>0, <1>2 DEF TypeOK, Start, Goto
  <2>2. QED
    BY <2>1, NoCommandIsNone DEF Position
<1>3. CASE AcquireLock(p) \/ NothingToDo(p) \/ NoKeyPackage(p) \/ IOFailure(p)
  <2>1. /\ pc[p] # "idle" /\ pc'[p] \in {"check", "release"} /\ cmd' = cmd
    BY <1>0, <1>3
    DEF TypeOK, AcquireLock, NothingToDo, NoKeyPackage, IOFailure, Goto, Active
  <2>2. QED
    BY <1>0, <2>1 DEF Position
<1>4. CASE FreshConsume(p)
  <2>1. /\ pc[p] = "check" /\ pc'[p] = "inbox"
        /\ receipt[Dir(p)] = NoReceipt /\ artifact[Dir(p)] = NoEnvelope
        /\ UNCHANGED <<cmd, artifact, receipt>>
    BY <1>0, <1>4 DEF TypeOK, FreshConsume, Goto, files
  <2>2. QED
    BY <1>0, <2>1 DEF Position, Dir
<1>5. CASE RetryAck(p)
  <2>1. /\ pc[p] = "check" /\ pc'[p] = "ack" /\ note'[p] = receipt[Dir(p)]
        /\ receipt[Dir(p)] # NoReceipt /\ receipt[Dir(p)].envelope = cmd[p].envelope
        /\ UNCHANGED <<cmd, artifact, receipt>>
    BY <1>0, <1>5 DEF TypeOK, RetryAck, Goto, files
  <2>2. receipt[Dir(p)] \in Receipt
    BY <1>0, <2>1, CommandInDirectory DEF TypeOK
  <2>3. QED
    BY <1>0, <2>1, <2>2 DEF Position, Dir
<1>6. CASE SelectKeyPackage(p)
  <2>1. pc[p] = "inbox" /\ pc'[p] = "persist" /\ UNCHANGED <<cmd, artifact, receipt>>
    BY <1>0, <1>6 DEF TypeOK, SelectKeyPackage, Goto, files
  <2>2. QED
    BY <1>0, <2>1 DEF Position, Dir
<1>7. CASE PersistKeyPackage(p)
  <2>1. pc[p] = "persist" /\ UNCHANGED <<cmd, receipt>> /\ Dir(p) \in Directories
    BY <1>0, <1>7, CommandInDirectory DEF PersistKeyPackage
  <2>2. \/ pc'[p] = "receipt" /\ artifact'[Dir(p)] = cmd[p].envelope
        \/ pc'[p] = "release"
    BY <1>0, <1>7, <2>1 DEF TypeOK, PersistKeyPackage, Goto
  <2>3. QED
    BY <1>0, <2>1, <2>2 DEF Position, Dir
<1>8. CASE WriteConsumed(p)
  <2>0. pc[p] = "receipt" /\ cmd[p].envelope \in Envelopes /\ Dir(p) \in Directories
    BY <1>0, <1>8, CommandInDirectory DEF WriteConsumed
  <2>1. pc'[p] = "ack" /\ cmd' = cmd
        /\ receipt'[Dir(p)] = [envelope |-> cmd[p].envelope, acked |-> FALSE]
        /\ note'[p] = [envelope |-> cmd[p].envelope, acked |-> FALSE]
    BY <1>0, <1>8, <2>0 DEF TypeOK, WriteConsumed, WriteReceipt, Goto
  <2>2. note'[p] \in Receipt
    BY <2>0, <2>1 DEF Receipt
  <2>3. QED
    BY <1>0, <2>0, <2>1, <2>2 DEF Position, Dir
<1>9. ASSUME NEW a \in BOOLEAN, Ack(p, a) PROVE Position(p)'
  <2>1. /\ pc[p] = "ack" /\ pc'[p] \in {"record_ack", "release"}
        /\ UNCHANGED <<cmd, note, receipt>>
    BY <1>0, <1>9 DEF TypeOK, Ack, Goto, files
  <2>2. relay'[cmd[p].envelope] = "acknowledged"
    BY <1>0, <1>9, AckOfPersisted DEF TypeOK
  <2>3. QED
    BY <1>0, <2>1, <2>2 DEF Position, Dir
<1>10. CASE WriteAcked(p)
  <2>1. pc[p] = "record_ack" /\ pc'[p] = "release" /\ cmd' = cmd
    BY <1>0, <1>10 DEF TypeOK, WriteAcked, WriteReceipt, Goto
  <2>2. QED
    BY <1>0, <2>1 DEF Position
<1>11. QED
  BY <1>1, <1>2, <1>3, <1>4, <1>5, <1>6, <1>7, <1>8, <1>9, <1>10
  DEF ProcessStep, Step, Failure

LEMMA NextPosition == IInv /\ [Next]_vars => \A q \in Procs : Position(q)'
<1> SUFFICES ASSUME IInv, [Next]_vars, NEW q \in Procs PROVE Position(q)'
  OBVIOUS
<1>0. TypeOK /\ Position(q)
  BY DEF IInv
<1>1. CASE UNCHANGED vars \/ RemoveStaleLock
  BY <1>0, <1>1 DEF vars, files, RemoveStaleLock, Position, Dir
<1>2. ASSUME NEW e \in Envelopes, Submit(e) PROVE Position(q)'
  <2>1. UNCHANGED <<pc, cmd, note, artifact, receipt>>
        /\ relay[e] = "unsent" /\ relay' = [relay EXCEPT ![e] = "queued"]
    BY <1>2 DEF Submit, files
  <2>2. pc[q] = "record_ack" => relay'[cmd[q].envelope] = "acknowledged"
    <3> SUFFICES ASSUME pc[q] = "record_ack" PROVE relay'[cmd[q].envelope] = "acknowledged"
      OBVIOUS
    <3>1. relay[cmd[q].envelope] = "acknowledged"
      BY <1>0 DEF Position
    <3>2. QED
      BY <1>0, <2>1, <3>1 DEF TypeOK
  <2>3. QED
    BY <1>0, <2>1, <2>2 DEF Position, Dir
<1>3. ASSUME NEW p \in Procs, ProcessStep(p) PROVE Position(q)'
  <2>1. TypeOK'
    BY NextType
  <2>2. QED
    BY <1>3, <2>1, PositionOfOther, PositionOfActor
<1>4. QED
  BY <1>1, <1>2, <1>3 DEF Next, ProcessStep

-----------------------------------------------------------------------------
(* Theorems *)

LEMMA InitIInv == Init => IInv
<1> SUFFICES ASSUME Init PROVE IInv
  OBVIOUS
<1>1. LockExclusive /\ ReceiptsTruthful /\ AckedArePersisted
  BY DEF Init, LockExclusive, ReceiptsTruthful, AckedArePersisted, Active
<1>2. \A p \in Procs : Position(p)
  BY DEF Init, Position
<1>3. QED
  BY <1>1, <1>2, InitType DEF IInv

\* The inductive invariant of the consume command.
THEOREM Inductive == Spec => []IInv
<1>1. IInv /\ [Next]_vars => IInv'
  BY NextType, NextLock, NextReceipts, NextAcked, NextPosition DEF IInv
<1>2. QED
  BY <1>1, InitIInv, PTL DEF Spec

\* A receipt on disk names the KeyPackage beside it, and claims no acknowledgement
\* the relay has not taken, whatever crashed before.
THEOREM ReceiptsAreTrue == Spec => []ReceiptsTruthful
<1>1. IInv => ReceiptsTruthful
  BY DEF IInv
<1>2. QED
  BY <1>1, Inductive, PTL

\* No consume replaces the KeyPackage file of another, or takes a receipt back.
THEOREM ConsumedIsFinal == Spec => ConsumedStays
<1>1. IInv /\ [Next]_vars =>
        [\A d \in Directories :
           /\ artifact[d] # NoEnvelope => artifact'[d] = artifact[d]
           /\ receipt[d] # NoReceipt =>
                /\ receipt'[d] # NoReceipt
                /\ receipt'[d].envelope = receipt[d].envelope
                /\ receipt[d].acked => receipt'[d].acked]_vars
  BY NextKept DEF Kept
<1>2. QED
  BY <1>1, Inductive, PTL DEF Spec, ConsumedStays

-----------------------------------------------------------------------------
(* Refinement *)

Acknowledged == {e \in Envelopes : relay[e] = "acknowledged"}

LEMMA InitDelivery == Init => Delivery!Init
BY ConsumeAssumption DEF Init, Delivery!Init, Persisted

\* Between one state and the next at most one envelope becomes persisted, by its
\* receipt, or acknowledged.
LEMMA NextDelivery == IInv /\ [Next]_vars => [Delivery!Next]_(Delivery!vars)
<1> SUFFICES ASSUME IInv, [Next]_vars PROVE [Delivery!Next]_(Delivery!vars)
  OBVIOUS
<1>0. TypeOK /\ \A p \in Procs : Position(p)
  BY DEF IInv
<1>1. CASE UNCHANGED <<Persisted, Acknowledged>>
  BY <1>1 DEF Delivery!vars, Acknowledged
<1>2. ASSUME NEW p \in Procs, PersistKeyPackage(p) PROVE UNCHANGED <<Persisted, Acknowledged>>
  <2>1. artifact[Dir(p)] = NoEnvelope /\ receipt[Dir(p)] = NoReceipt
        /\ Dir(p) \in Directories
    BY <1>0, <1>2, CommandInDirectory DEF PersistKeyPackage, Position
  <2>2. UNCHANGED <<relay, receipt>>
        /\ \A d \in Directories : d # Dir(p) => artifact'[d] = artifact[d]
    BY <1>0, <1>2 DEF TypeOK, PersistKeyPackage
  <2>3. QED
    BY <2>1, <2>2, ConsumeAssumption DEF Persisted, Acknowledged
<1>3. ASSUME NEW p \in Procs, WriteConsumed(p) PROVE Delivery!Process(cmd[p].envelope)
  <2>1. /\ cmd[p].envelope \in Envelopes /\ Dir(p) \in Directories
        /\ receipt[Dir(p)] = NoReceipt /\ artifact[Dir(p)] = cmd[p].envelope
    BY <1>0, <1>3, CommandInDirectory DEF WriteConsumed, Position
  <2>2. UNCHANGED <<relay, artifact>>
        /\ receipt'[Dir(p)] # NoReceipt
        /\ \A d \in Directories : d # Dir(p) => receipt'[d] = receipt[d]
    <3>1. [envelope |-> cmd[p].envelope, acked |-> FALSE] \in Receipt
      BY <2>1 DEF Receipt
    <3>2. QED
      BY <1>0, <1>3, <2>1, <3>1, ConsumeAssumption DEF TypeOK, WriteConsumed, WriteReceipt
  <2>3. Persisted' = Persisted \cup {cmd[p].envelope}
    BY <2>1, <2>2, ConsumeAssumption DEF Persisted, Dir
  <2>4. QED
    BY <2>2, <2>3 DEF Delivery!Process, Acknowledged
<1>4. ASSUME NEW p \in Procs, WriteAcked(p) PROVE UNCHANGED <<Persisted, Acknowledged>>
  <2>1. /\ Dir(p) \in Directories /\ receipt[Dir(p)] = note[p] /\ note[p] \in Receipt
    BY <1>0, <1>4, CommandInDirectory DEF WriteAcked, Position
  <2>2. [note[p] EXCEPT !.acked = TRUE] \in Receipt
    BY <2>1 DEF Receipt
  <2>3. UNCHANGED <<relay, artifact>>
        /\ receipt'[Dir(p)] # NoReceipt
        /\ \A d \in Directories : d # Dir(p) => receipt'[d] = receipt[d]
    BY <1>0, <1>4, <2>1, <2>2, ConsumeAssumption DEF TypeOK, WriteAcked, WriteReceipt
  <2>4. receipt[Dir(p)] # NoReceipt
    BY <2>1, ConsumeAssumption
  <2>5. QED
    BY <2>3, <2>4, ConsumeAssumption DEF Persisted, Acknowledged
<1>5. ASSUME NEW p \in Procs, NEW a \in BOOLEAN, Ack(p, a)
      PROVE  Delivery!Acknowledge(cmd[p].envelope) /\ cmd[p].envelope \in Envelopes
  <2>1. /\ cmd[p].envelope \in Envelopes /\ cmd[p].envelope \in Persisted
        /\ relay' = [relay EXCEPT ![cmd[p].envelope] = "acknowledged"]
        /\ UNCHANGED <<artifact, receipt>>
    BY <1>5, AckOfPersisted DEF files
  <2>2. Acknowledged' = Acknowledged \cup {cmd[p].envelope}
    BY <1>0, <2>1 DEF TypeOK, Acknowledged
  <2>3. QED
    BY <2>1, <2>2 DEF Delivery!Acknowledge, Acknowledged, Persisted
<1>6. ASSUME NEW e \in Envelopes, Submit(e) PROVE UNCHANGED <<Persisted, Acknowledged>>
  BY <1>0, <1>6 DEF TypeOK, Submit, files, Persisted, Acknowledged
<1>7. CASE UNCHANGED vars \/ RemoveStaleLock
  BY <1>1, <1>7 DEF vars, files, RemoveStaleLock, Persisted, Acknowledged
<1>8. ASSUME NEW p \in Procs, ProcessStep(p) PROVE [Delivery!Next]_(Delivery!vars)
  <2>1. CASE UNCHANGED <<relay, artifact, receipt>>
    BY <1>1, <2>1 DEF Persisted, Acknowledged
  <2>2. CASE PersistKeyPackage(p) \/ WriteAcked(p)
    BY <1>1, <1>2, <1>4, <2>2
  <2>3. CASE WriteConsumed(p)
    <3>1. cmd[p].envelope \in Envelopes
      BY <1>0, <2>3, CommandInDirectory DEF WriteConsumed
    <3>2. QED
      BY <1>3, <2>3, <3>1 DEF Delivery!Next
  <2>4. CASE \E a \in BOOLEAN : Ack(p, a)
    <3>1. /\ cmd[p].envelope \in Envelopes
          /\ Delivery!Acknowledge(cmd[p].envelope)
      BY <1>5, <2>4
    <3>2. PICK e \in Envelopes : e = cmd[p].envelope
      BY <3>1
    <3>3. Delivery!Acknowledge(e)
      BY <3>1, <3>2 DEF Delivery!Acknowledge
    <3>4. QED
      BY <3>3 DEF Delivery!Next
  <2>5. QED
    BY <1>8, <2>1, <2>2, <2>3, <2>4, WhoWrites
<1>9. QED
  BY <1>1, <1>6, <1>7, <1>8 DEF Next, ProcessStep

\* The command implements RelayDelivery: no KeyPackage envelope is acknowledged
\* before its file and its receipt are on disk.
THEOREM DeliveryRefinement == Spec => ImplementsDelivery
<1>1. Init => Delivery!Init
  BY InitDelivery
<1>2. IInv /\ [Next]_vars => [Delivery!Next]_(Delivery!vars)
  BY NextDelivery
<1>3. QED
  BY <1>1, <1>2, Inductive, PTL DEF Spec, ImplementsDelivery, Delivery!Spec
=============================================================================
