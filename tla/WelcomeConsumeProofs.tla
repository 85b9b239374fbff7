----------------------- MODULE WelcomeConsumeProofs -----------------------
(***************************************************************************)
(* Machine-checked safety of the Welcome commands, for any number of       *)
(* processes, envelopes, conversations and receipt directories: the        *)
(* inductive invariant IInv, truthful receipts that only advance, and the  *)
(* refinement of RelayDelivery (no acknowledgement before the join).       *)
(***************************************************************************)
EXTENDS WelcomeConsume, TLAPS

-----------------------------------------------------------------------------
(* Type correctness *)

DataTypes ==
  /\ relay \in [Envelopes -> {"unsent", "queued", "acknowledged"}]
  /\ lock \in BOOLEAN
  /\ artifact \in [Directories -> Envelopes \cup {NoEnvelope}]
  /\ receipt \in [Directories -> Receipt \cup {NoReceipt}]
  /\ conversations \in [Conversations -> Envelopes \cup {NoEnvelope}]
  /\ child \in [Procs -> Child]
  /\ pc \in [Procs -> {"idle", "acquire"} \cup Active]
  /\ cmd \in [Procs -> Command]
  /\ mail \in [Procs -> Envelopes \cup {NoEnvelope}]
  /\ note \in [Procs -> Receipt \cup {NoReceipt}]

LEMMA TypeParts == TypeOK <=> DataTypes /\ \A p \in Procs : PositionOK(p)
BY DEF TypeOK, DataTypes

LEMMA ConsumeArguments ==
  ASSUME NEW c \in Command, c.kind = "consume"
  PROVE  c.envelope \in Envelopes /\ c.conversation \in Conversations
BY DEF Command, NoCommand, ConsumeCommand, JoinCommand

LEMMA JoinArguments ==
  ASSUME NEW c \in Command, c # NoCommand
  PROVE  /\ c.kind \in {"consume", "join"}
         /\ c.conversation \in Conversations
         /\ c.kind = "join" => c.ack \in BOOLEAN
BY DEF Command, NoCommand, ConsumeCommand, JoinCommand

LEMMA ChildArguments ==
  ASSUME NEW c \in Child, c.state # "none"
  PROVE  /\ c.state \in {"running", "joined", "failed"}
         /\ c.job \in Job /\ c.job.envelope \in Envelopes
         /\ c.job.conversation \in Conversations
BY DEF Child, NoChild, Job

LEMMA ReceiptSteps ==
  ASSUME NEW r \in Receipt
  PROVE  /\ [r EXCEPT !.attempted = TRUE] \in Receipt
         /\ [r EXCEPT !.joined = TRUE] \in Receipt
         /\ [r EXCEPT !.acked = TRUE] \in Receipt
BY DEF Receipt

LEMMA InitType == Init => TypeOK
<1> SUFFICES ASSUME Init PROVE TypeOK
  OBVIOUS
<1>1. DataTypes
  BY DEF Init, DataTypes, Child, Command
<1>2. \A p \in Procs : PositionOK(p)
  BY DEF Init, PositionOK, ConsumeOnly, Selected, Noted, NoCommand, NoChild
<1>3. QED
  BY <1>1, <1>2, TypeParts

LEMMA NextDataTypes == TypeOK /\ [Next]_vars => DataTypes'
<1> SUFFICES ASSUME TypeOK, [Next]_vars PROVE DataTypes'
  OBVIOUS
<1>0. DataTypes /\ \A p \in Procs : PositionOK(p)
  BY TypeParts
<1> USE DEF DataTypes, memory, records
<1>1. CASE UNCHANGED vars
  BY <1>0, <1>1 DEF vars
<1>2. ASSUME NEW e \in Envelopes, Submit(e)
      PROVE  DataTypes'
  BY <1>0, <1>2 DEF Submit
<1>3. ASSUME NEW p \in Procs, Start(p)
      PROVE  DataTypes'
  <2>1. ASSUME NEW e \in Envelopes, NEW c \in Conversations, StartConsume(p, e, c)
        PROVE  DataTypes'
    BY <1>0, <2>1 DEF StartConsume, Goto, Command, ConsumeCommand
  <2>2. ASSUME NEW c \in Conversations, NEW ack \in BOOLEAN, StartJoin(p, c, ack)
        PROVE  DataTypes'
    BY <1>0, <2>2 DEF StartJoin, Goto, Command, JoinCommand, Active
  <2>3. QED
    BY <1>3, <2>1, <2>2 DEF Start
<1>4. ASSUME NEW p \in Procs, LockUnavailable(p) \/ Release(p)
      PROVE  DataTypes'
  BY <1>0, <1>4 DEF LockUnavailable, Release, Forget, Goto, Command
<1>5. ASSUME NEW p \in Procs, Crash(p)
      PROVE  DataTypes'
  <2>1. child' \in [Procs -> Child]
    BY <1>0, <1>5 DEF Crash, Child
  <2>2. QED
    BY <1>0, <1>5, <2>1 DEF Crash, Forget, Goto, Command
<1>6. ASSUME NEW p \in Procs,
             AcquireLock(p) \/ FreshConsume(p) \/ NothingToDo(p) \/ SelectWelcome(p)
             \/ NoWelcome(p) \/ IOFailure(p)
      PROVE  DataTypes'
  <2>1. CASE AcquireLock(p) \/ FreshConsume(p)
    BY <1>0, <2>1 DEF AcquireLock, FreshConsume, Goto, Active
  <2>2. CASE NothingToDo(p) \/ NoWelcome(p) \/ IOFailure(p)
    <3>1. Return(p)
      BY <2>2 DEF NothingToDo, NoWelcome, IOFailure
    <3>2. QED
      BY <1>0, <3>1 DEF Return, Goto, Active
  <2>3. CASE SelectWelcome(p)
    BY <1>0, <2>3 DEF SelectWelcome, Goto, Active
  <2>4. QED
    BY <1>6, <2>1, <2>2, <2>3
<1>7. ASSUME NEW p \in Procs, RetryAck(p)
      PROVE  DataTypes'
  <2>1. cmd[p].kind = "consume"
    BY <1>0, <1>7 DEF RetryAck, PositionOK, ConsumeOnly
  <2>2. cmd[p].envelope \in Envelopes /\ Dir(p) \in Directories
    BY <1>0, <2>1, ConsumeArguments, DirectoryAssumption DEF Dir
  <2>3. QED
    BY <1>0, <1>7, <2>2 DEF RetryAck, Goto, Active
<1>8. ASSUME NEW p \in Procs, PersistWelcome(p)
      PROVE  DataTypes'
  <2>1. mail[p] \in Envelopes
    BY <1>0, <1>8 DEF PersistWelcome, PositionOK, Selected
  <2>2. QED
    BY <1>0, <1>8, <2>1 DEF PersistWelcome, Goto, Active
<1>9. ASSUME NEW p \in Procs, NEW r \in Receipt, WriteReceipt(p, r)
      PROVE  /\ receipt' \in [Directories -> Receipt \cup {NoReceipt}]
             /\ note' \in [Procs -> Receipt \cup {NoReceipt}]
  BY <1>0, <1>9 DEF WriteReceipt
<1>10. ASSUME NEW p \in Procs, WritePersisted(p)
       PROVE  DataTypes'
  <2>1. cmd[p].kind = "consume" /\ mail[p] \in Envelopes
    BY <1>0, <1>10 DEF WritePersisted, PositionOK, ConsumeOnly, Selected
  <2>2. cmd[p].conversation \in Conversations
    BY <1>0, <2>1, ConsumeArguments
  <2>3. [envelope |-> mail[p], conversation |-> cmd[p].conversation,
         attempted |-> FALSE, joined |-> FALSE, acked |-> FALSE] \in Receipt
    BY <2>1, <2>2 DEF Receipt
  <2>4. /\ receipt' \in [Directories -> Receipt \cup {NoReceipt}]
        /\ note' \in [Procs -> Receipt \cup {NoReceipt}]
    BY <1>9, <1>10, <2>3 DEF WritePersisted
  <2>5. QED
    BY <1>0, <1>10, <2>4 DEF WritePersisted, Goto, Active
<1>11. ASSUME NEW p \in Procs, WriteAttempt(p) \/ WriteJoined(p) \/ WriteAcked(p)
       PROVE  DataTypes'
  <2>1. note[p] \in Receipt
    BY <1>0, <1>11
    DEF WriteAttempt, WriteJoined, WriteAcked, PositionOK, ConsumeOnly, Noted
  <2>2. /\ receipt' \in [Directories -> Receipt \cup {NoReceipt}]
        /\ note' \in [Procs -> Receipt \cup {NoReceipt}]
    BY <1>9, <1>11, <2>1, ReceiptSteps DEF WriteAttempt, WriteJoined, WriteAcked
  <2>3. QED
    BY <1>0, <1>11, <2>2 DEF WriteAttempt, WriteJoined, WriteAcked, Goto, Active
<1>12. ASSUME NEW p \in Procs, RunSidecar(p)
       PROVE  DataTypes'
  <2>1. mail[p] \in Envelopes /\ cmd[p] # NoCommand
    BY <1>0, <1>12 DEF RunSidecar, PositionOK, Selected
  <2>2. cmd[p].conversation \in Conversations
    BY <1>0, <2>1, JoinArguments
  <2>3. child' \in [Procs -> Child]
    BY <1>0, <1>12, <2>1, <2>2 DEF RunSidecar, Child, Job
  <2>4. QED
    BY <1>0, <1>12, <2>3 DEF RunSidecar, Goto, Active
<1>13. ASSUME NEW p \in Procs, JoinReported(p) \/ JoinNotReported(p)
       PROVE  DataTypes'
  BY <1>0, <1>13 DEF JoinReported, JoinNotReported, Goto, Active, Child
<1>14. ASSUME NEW p \in Procs, SidecarJoins(p) \/ SidecarFails(p)
       PROVE  DataTypes'
  <2>1. child[p].job \in Job /\ child[p].job.envelope \in Envelopes
    BY <1>0, <1>14, ChildArguments DEF SidecarJoins, SidecarFails
  <2>2. child' \in [Procs -> Child]
    BY <1>0, <1>14, <2>1 DEF SidecarJoins, SidecarFails, ChildExits, Child
  <2>3. QED
    BY <1>0, <1>14, <2>1, <2>2 DEF SidecarJoins, SidecarFails
<1>15. ASSUME NEW p \in Procs, Ack(p) \/ AckAnswerLost(p)
       PROVE  DataTypes'
  BY <1>0, <1>15 DEF Ack, AckAnswerLost, Goto, Active
<1>16. CASE RemoveStaleLock
  BY <1>0, <1>16 DEF RemoveStaleLock
<1>17. QED
  BY <1>1, <1>2, <1>3, <1>4, <1>5, <1>6, <1>7, <1>8, <1>10, <1>11, <1>12, <1>13, <1>14,
     <1>15, <1>16
  DEF Next, Step

\* What a step does to the process it is not about.
LEMMA OthersUntouched ==
  ASSUME TypeOK, NEW p \in Procs, NEW q \in Procs, p # q,
         Start(p) \/ Step(p) \/ Crash(p) \/ SidecarJoins(p) \/ SidecarFails(p)
  PROVE  /\ pc'[q] = pc[q] /\ cmd'[q] = cmd[q] /\ child'[q] = child[q]
         /\ mail'[q] = mail[q] /\ note'[q] = note[q]
<1>0. DataTypes
  BY TypeParts
<1>1. pc'[q] = pc[q] /\ cmd'[q] = cmd[q]
  BY <1>0
  DEF DataTypes, Start, StartConsume, StartJoin, Step, Crash, SidecarJoins, SidecarFails,
      AcquireLock, LockUnavailable, Release, FreshConsume, RetryAck, NothingToDo,
      SelectWelcome, NoWelcome, PersistWelcome, WritePersisted, WriteAttempt, RunSidecar,
      JoinReported, JoinNotReported, WriteJoined, Ack, AckAnswerLost, WriteAcked,
      IOFailure, Return, Forget, Goto
<1>2. child'[q] = child[q]
  BY <1>0
  DEF DataTypes, Start, StartConsume, StartJoin, Step, Crash, SidecarJoins, SidecarFails,
      AcquireLock, LockUnavailable, Release, FreshConsume, RetryAck, NothingToDo,
      SelectWelcome, NoWelcome, PersistWelcome, WritePersisted, WriteAttempt, RunSidecar,
      JoinReported, JoinNotReported, WriteJoined, Ack, AckAnswerLost, WriteAcked,
      IOFailure, Return, ChildExits
<1>3. mail'[q] = mail[q] /\ note'[q] = note[q]
  BY <1>0
  DEF DataTypes, Start, StartConsume, StartJoin, Step, Crash, SidecarJoins, SidecarFails,
      AcquireLock, LockUnavailable, Release, FreshConsume, RetryAck, NothingToDo,
      SelectWelcome, NoWelcome, PersistWelcome, WritePersisted, WriteAttempt, RunSidecar,
      JoinReported, JoinNotReported, WriteJoined, Ack, AckAnswerLost, WriteAcked,
      IOFailure, Return, Forget, WriteReceipt, memory
<1>4. QED
  BY <1>1, <1>2, <1>3

\* The positions of the process that moves.
LEMMA ActorPosition ==
  ASSUME TypeOK, NEW p \in Procs,
         Start(p) \/ Step(p) \/ Crash(p) \/ SidecarJoins(p) \/ SidecarFails(p)
  PROVE  PositionOK(p)'
<1>0. DataTypes /\ PositionOK(p)
  BY TypeParts
<1>01. child[p].state \in {"joined", "failed"} => pc[p] = "wait"
  BY <1>0 DEF PositionOK
<1> USE DEF PositionOK, ConsumeOnly, Selected, Noted, memory
<1>1. CASE Start(p)
  <2>1. child'[p] = NoChild /\ cmd'[p] # NoCommand
        /\ \/ pc'[p] = "acquire" /\ cmd'[p].kind = "consume"
           \/ pc'[p] = "inbox"
    BY <1>0, <1>1 DEF DataTypes, Start, StartConsume, StartJoin, Goto, NoCommand
  <2>2. QED
    BY <2>1 DEF NoChild
<1>2. CASE LockUnavailable(p) \/ Release(p) \/ Crash(p)
  <2>1. pc'[p] = "idle" /\ cmd'[p] = NoCommand
    BY <1>0, <1>2 DEF DataTypes, LockUnavailable, Release, Crash, Forget, Goto
  <2>2. child'[p].state \notin {"joined", "failed"}
    <3>1. CASE LockUnavailable(p) \/ Release(p)
      BY <1>01, <3>1 DEF LockUnavailable, Release
    <3>2. CASE Crash(p)
      <4>1. child'[p] = IF child[p].state = "running" THEN child[p] ELSE NoChild
        BY <1>0, <3>2 DEF DataTypes, Crash
      <4>2. NoChild.state = "none"
        BY DEF NoChild
      <4>3. QED
        BY <4>1, <4>2
    <3>3. QED
      BY <1>2, <3>1, <3>2
  <2>3. QED
    BY <2>1, <2>2
<1>3. CASE SidecarJoins(p) \/ SidecarFails(p)
  <2>1. UNCHANGED <<pc, cmd, mail, note>>
    BY <1>3 DEF SidecarJoins, SidecarFails
  <2>2. \E status \in {"joined", "failed"} :
          child'[p] = IF pc[p] = "wait" THEN [state |-> status, job |-> child[p].job]
                      ELSE NoChild
    BY <1>0, <1>3 DEF DataTypes, SidecarJoins, SidecarFails, ChildExits
  <2>3. child'[p].state \in {"joined", "failed"} => pc[p] = "wait"
    BY <2>2 DEF NoChild
  <2>4. pc[p] = "wait" => child'[p] # NoChild
    BY <2>2 DEF NoChild
  <2>5. QED
    BY <1>0, <2>1, <2>3, <2>4
<1>4. CASE AcquireLock(p) \/ FreshConsume(p) \/ NothingToDo(p) \/ NoWelcome(p) \/ IOFailure(p)
  <2>1. UNCHANGED <<child, cmd, mail, note>> /\ pc[p] \notin {"idle", "wait"}
    BY <1>4
    DEF AcquireLock, FreshConsume, NothingToDo, NoWelcome, IOFailure, Return, Active
  <2>2. \/ pc'[p] \in {"inbox", "release"}
        \/ pc'[p] = "check" /\ pc[p] = "acquire"
    BY <1>0, <1>4
    DEF DataTypes, AcquireLock, FreshConsume, NothingToDo, NoWelcome, IOFailure, Return, Goto
  <2>3. QED
    BY <1>0, <1>01, <2>1, <2>2
<1>5. CASE RetryAck(p)
  <2>1. cmd[p].kind = "consume" /\ cmd[p] # NoCommand
    BY <1>0, <1>5 DEF RetryAck
  <2>2. cmd[p].envelope \in Envelopes /\ Dir(p) \in Directories
    BY <1>0, <2>1, ConsumeArguments, DirectoryAssumption DEF Dir, DataTypes
  <2>3. mail'[p] \in Envelopes /\ note'[p] \in Receipt /\ pc'[p] = "ack"
        /\ UNCHANGED <<cmd, child>>
    BY <1>0, <1>5, <2>2 DEF DataTypes, RetryAck, Goto
  <2>4. QED
    BY <1>01, <1>5, <2>1, <2>3 DEF RetryAck
<1>6. CASE SelectWelcome(p)
  <2>1. mail'[p] \in Envelopes /\ UNCHANGED <<cmd, child>> /\ pc[p] = "inbox"
        /\ \/ pc'[p] = "persist" /\ cmd[p].kind = "consume"
           \/ pc'[p] = "join" /\ cmd[p].kind # "consume"
    BY <1>0, <1>6 DEF DataTypes, SelectWelcome, Goto
  <2>2. QED
    BY <1>0, <1>01, <2>1
<1>7. CASE PersistWelcome(p)
  <2>1. pc'[p] = "receipt" /\ pc[p] = "persist" /\ UNCHANGED <<cmd, child, mail, note>>
    BY <1>0, <1>7 DEF DataTypes, PersistWelcome, Goto
  <2>2. QED
    BY <1>0, <1>01, <2>1
<1>8. CASE WritePersisted(p) \/ WriteAttempt(p) \/ WriteJoined(p) \/ WriteAcked(p)
  <2>1. pc[p] \in ConsumeOnly \cap Selected /\ UNCHANGED <<cmd, child, mail>>
        /\ pc'[p] \in {"attempt", "join", "ack", "release"}
    BY <1>0, <1>8
    DEF DataTypes, WritePersisted, WriteAttempt, WriteJoined, WriteAcked, Goto
  <2>2. cmd[p].kind = "consume" /\ mail[p] \in Envelopes /\ cmd[p] # NoCommand
    BY <1>0, <2>1
  <2>3. note'[p] \in Receipt
    <3>1. cmd[p].conversation \in Conversations
      BY <1>0, <2>2, ConsumeArguments DEF DataTypes
    <3>2. CASE WritePersisted(p)
      BY <1>0, <2>2, <3>1, <3>2 DEF DataTypes, WritePersisted, WriteReceipt, Receipt
    <3>3. CASE WriteAttempt(p) \/ WriteJoined(p) \/ WriteAcked(p)
      <4>1. note[p] \in Receipt
        BY <1>0, <2>2, <3>3 DEF WriteAttempt, WriteJoined, WriteAcked
      <4>2. QED
        BY <1>0, <3>3, <4>1, ReceiptSteps
        DEF DataTypes, WriteAttempt, WriteJoined, WriteAcked, WriteReceipt
    <3>4. QED
      BY <1>8, <3>2, <3>3
  <2>4. QED
    BY <1>01, <2>1, <2>2, <2>3
<1>9. CASE RunSidecar(p)
  <2>1. child'[p] # NoChild /\ child'[p].state = "running"
    BY <1>0, <1>9 DEF DataTypes, RunSidecar, NoChild
  <2>2. pc[p] = "join" /\ pc'[p] = "wait" /\ UNCHANGED <<cmd, mail, note>>
    BY <1>0, <1>9 DEF DataTypes, RunSidecar, Goto
  <2>3. QED
    BY <1>0, <2>1, <2>2
<1>10. CASE JoinReported(p) \/ JoinNotReported(p)
  <2>1. child'[p] = NoChild /\ UNCHANGED <<cmd, mail, note>> /\ pc[p] = "wait"
    BY <1>0, <1>10 DEF DataTypes, JoinReported, JoinNotReported
  <2>2. \/ pc'[p] = "record" /\ cmd[p].kind = "consume"
        \/ pc'[p] = "ack" /\ cmd[p].kind # "consume"
        \/ pc'[p] = "release"
    BY <1>0, <1>10 DEF DataTypes, JoinReported, JoinNotReported, Goto
  <2>3. QED
    BY <1>0, <2>1, <2>2 DEF NoChild
<1>11. CASE Ack(p) \/ AckAnswerLost(p)
  <2>1. pc[p] = "ack" /\ UNCHANGED <<cmd, child, mail, note>>
        /\ \/ pc'[p] = "record_ack" /\ cmd[p].kind = "consume"
           \/ pc'[p] = "release"
    BY <1>0, <1>11 DEF DataTypes, Ack, AckAnswerLost, Goto
  <2>2. QED
    BY <1>0, <1>01, <2>1
<1>12. QED
  BY <1>1, <1>2, <1>3, <1>4, <1>5, <1>6, <1>7, <1>8, <1>9, <1>10, <1>11 DEF Step

LEMMA NextPositions == TypeOK /\ [Next]_vars => \A q \in Procs : PositionOK(q)'
<1> SUFFICES ASSUME TypeOK, [Next]_vars, NEW q \in Procs PROVE PositionOK(q)'
  OBVIOUS
<1>0. PositionOK(q)
  BY TypeParts
<1>1. CASE UNCHANGED vars \/ RemoveStaleLock \/ \E e \in Envelopes : Submit(e)
  BY <1>0, <1>1 DEF vars, memory, RemoveStaleLock, Submit, PositionOK
<1>2. ASSUME NEW p \in Procs,
             Start(p) \/ Step(p) \/ Crash(p) \/ SidecarJoins(p) \/ SidecarFails(p)
      PROVE  PositionOK(q)'
  <2>1. CASE p = q
    BY <1>2, <2>1, ActorPosition
  <2>2. CASE p # q
    <3>1. /\ pc'[q] = pc[q] /\ cmd'[q] = cmd[q] /\ child'[q] = child[q]
          /\ mail'[q] = mail[q] /\ note'[q] = note[q]
      BY <1>2, <2>2, OthersUntouched
    <3>2. QED
      BY <1>0, <3>1 DEF PositionOK
  <2>3. QED
    BY <2>1, <2>2
<1>3. QED
  BY <1>1, <1>2 DEF Next

\* Every file, child process, position and memory has its type.
THEOREM TypeCorrect == Spec => []TypeOK
<1>1. TypeOK /\ [Next]_vars => TypeOK'
  BY NextDataTypes, NextPositions DEF TypeOK, DataTypes
<1>2. QED
  BY InitType, <1>1, PTL DEF Spec
-----------------------------------------------------------------------------
(* The lock, and what never changes again *)

LEMMA NextLock == TypeOK /\ LockExclusive /\ [Next]_vars => LockExclusive'
<1> SUFFICES ASSUME TypeOK, LockExclusive, [Next]_vars PROVE LockExclusive'
  OBVIOUS
<1>0. DataTypes /\ \A p \in Procs : PositionOK(p)
  BY TypeParts
<1> USE DEF LockExclusive
<1>1. CASE UNCHANGED vars \/ \E e \in Envelopes : Submit(e)
  BY <1>1 DEF vars, Submit, HoldsLock
<1>2. CASE RemoveStaleLock
  BY <1>2 DEF RemoveStaleLock, HoldsLock
<1>3. ASSUME NEW p \in Procs,
             Start(p) \/ Step(p) \/ Crash(p) \/ SidecarJoins(p) \/ SidecarFails(p)
      PROVE  LockExclusive'
  <2>1. \A q \in Procs : q # p => (HoldsLock(q)' <=> HoldsLock(q))
    BY <1>3, OthersUntouched DEF HoldsLock
  <2>2. CASE AcquireLock(p)
    BY <2>1, <2>2 DEF AcquireLock
  <2>3. CASE Release(p)
    <3>1. pc'[p] = "idle" /\ pc[p] = "release"
      BY <1>0, <2>3 DEF DataTypes, Release, Forget, Goto
    <3>2. ~HoldsLock(p)'
      BY <3>1 DEF HoldsLock, Active
    <3>3. cmd[p].kind = "consume" => HoldsLock(p)
      BY <3>1 DEF HoldsLock, Active
    <3>4. lock' = IF cmd[p].kind = "consume" THEN FALSE ELSE lock
      BY <2>3 DEF Release
    <3>5. QED
      BY <2>1, <3>2, <3>3, <3>4
  <2>4. CASE ~AcquireLock(p) /\ ~Release(p)
    <3>1. lock' = lock
      BY <1>3, <2>4
      DEF records, Start, StartConsume, StartJoin, Step, Crash, SidecarJoins, SidecarFails,
          LockUnavailable, FreshConsume, RetryAck, NothingToDo, SelectWelcome, NoWelcome,
          PersistWelcome, WritePersisted, WriteAttempt, RunSidecar, JoinReported,
          JoinNotReported, WriteJoined, Ack, AckAnswerLost, WriteAcked, IOFailure, Return
    <3>2. HoldsLock(p)' => HoldsLock(p)
      <4>1. CASE Start(p)
        <5>1. \/ pc'[p] = "acquire"
              \/ pc'[p] = "inbox" /\ cmd'[p].kind = "join"
          BY <1>0, <4>1 DEF DataTypes, Start, StartConsume, StartJoin, Goto
        <5>2. QED
          BY <5>1 DEF HoldsLock, Active
      <4>2. CASE LockUnavailable(p) \/ Crash(p)
        <5>1. pc'[p] = "idle"
          BY <1>0, <4>2 DEF DataTypes, LockUnavailable, Crash, Forget, Goto
        <5>2. QED
          BY <5>1 DEF HoldsLock, Active
      <4>3. CASE SidecarJoins(p) \/ SidecarFails(p)
        BY <4>3 DEF SidecarJoins, SidecarFails, HoldsLock
      <4>4. CASE ~Start(p) /\ ~LockUnavailable(p) /\ ~Crash(p) /\ ~SidecarJoins(p)
                 /\ ~SidecarFails(p)
        <5>1. pc[p] \in Active /\ cmd' = cmd
          BY <1>3, <2>4, <4>4
          DEF Active, Step, FreshConsume, RetryAck, NothingToDo, SelectWelcome,
              NoWelcome, PersistWelcome, WritePersisted, WriteAttempt, RunSidecar,
              JoinReported, JoinNotReported, WriteJoined, Ack, AckAnswerLost, WriteAcked,
              IOFailure, Return
        <5>2. QED
          BY <5>1 DEF HoldsLock
      <4>5. QED
        BY <4>1, <4>2, <4>3, <4>4
    <3>3. QED
      BY <2>1, <3>1, <3>2
  <2>5. QED
    BY <2>2, <2>3, <2>4
<1>4. QED
  BY <1>1, <1>2, <1>3 DEF Next

\* A joined conversation is not joined again, an acknowledgement is not undone.
Lasting ==
  /\ \A c \in Conversations :
       conversations[c] # NoEnvelope => conversations'[c] = conversations[c]
  /\ \A e \in Envelopes : relay[e] = "acknowledged" => relay'[e] = "acknowledged"

LEMMA NextLasting == TypeOK /\ [Next]_vars => Lasting
<1> SUFFICES ASSUME TypeOK, [Next]_vars PROVE Lasting
  OBVIOUS
<1>0. DataTypes
  BY TypeParts
<1> USE DEF Lasting
<1>1. CASE UNCHANGED vars \/ RemoveStaleLock
  BY <1>1 DEF vars, RemoveStaleLock
<1>2. CASE \E e \in Envelopes : Submit(e)
  BY <1>0, <1>2 DEF DataTypes, Submit
<1>3. ASSUME NEW p \in Procs, SidecarJoins(p)
      PROVE  Lasting
  BY <1>0, <1>3 DEF DataTypes, SidecarJoins, records
<1>4. ASSUME NEW p \in Procs, Ack(p) \/ AckAnswerLost(p)
      PROVE  Lasting
  BY <1>0, <1>4 DEF DataTypes, Ack, AckAnswerLost
<1>5. ASSUME NEW p \in Procs, ~SidecarJoins(p), ~Ack(p), ~AckAnswerLost(p),
             Start(p) \/ Step(p) \/ Crash(p) \/ SidecarFails(p)
      PROVE  Lasting
  <2>1. UNCHANGED <<relay, conversations>>
    BY <1>5
    DEF records, Start, StartConsume, StartJoin, Step, Crash, SidecarFails, AcquireLock,
        LockUnavailable, Release, FreshConsume, RetryAck, NothingToDo, SelectWelcome,
        NoWelcome, PersistWelcome, WritePersisted, WriteAttempt, RunSidecar, JoinReported,
        JoinNotReported, WriteJoined, WriteAcked, IOFailure, Return
  <2>2. QED
    BY <2>1
<1>6. QED
  BY <1>1, <1>2, <1>3, <1>4, <1>5 DEF Next
-----------------------------------------------------------------------------
(* Receipts *)

\* Only these steps write a receipt directory, and their process holds the lock.
Writes(p) ==
  PersistWelcome(p) \/ WritePersisted(p) \/ WriteAttempt(p) \/ WriteJoined(p) \/ WriteAcked(p)

LEMMA WritersHoldLock ==
  ASSUME TypeOK, NEW p \in Procs, Writes(p)
  PROVE  HoldsLock(p)
<1>1. PositionOK(p)
  BY TypeParts
<1>2. QED
  BY <1>1
  DEF Writes, PersistWelcome, WritePersisted, WriteAttempt, WriteJoined, WriteAcked,
      HoldsLock, Active, PositionOK, ConsumeOnly

LEMMA OnlyWritersWrite ==
  ASSUME NEW p \in Procs, ~Writes(p),
         Start(p) \/ Step(p) \/ Crash(p) \/ SidecarJoins(p) \/ SidecarFails(p)
  PROVE  UNCHANGED <<artifact, receipt>>
BY DEF Writes, records, Start, StartConsume, StartJoin, Step, Crash, SidecarJoins,
       SidecarFails, AcquireLock, LockUnavailable, Release, FreshConsume, RetryAck,
       NothingToDo, SelectWelcome, NoWelcome, RunSidecar, JoinReported, JoinNotReported,
       Ack, AckAnswerLost, IOFailure, Return

\* The directory, the envelope and the receipt of a step that writes a receipt.
LEMMA WriterMemory ==
  ASSUME IInv, NEW p \in Procs, Writes(p)
  PROVE  /\ mail[p] \in Envelopes /\ mail[p] = cmd[p].envelope
         /\ Dir(p) = Directory[mail[p]] /\ Dir(p) \in Directories
         /\ cmd[p].kind = "consume" /\ cmd[p].conversation \in Conversations
         /\ pc[p] \in Noted =>
              /\ note[p] \in Receipt /\ receipt[Dir(p)] = note[p]
              /\ note[p].envelope = mail[p]
              /\ note[p].conversation = cmd[p].conversation
<1>1. DataTypes /\ PositionOK(p) /\ ConsumeMemory(p)
  BY TypeParts DEF IInv
<1>2. pc[p] \in Selected /\ pc[p] \in ConsumeOnly
  BY DEF Writes, PersistWelcome, WritePersisted, WriteAttempt, WriteJoined, WriteAcked,
         Selected, ConsumeOnly
<1>3. cmd[p].kind = "consume" /\ mail[p] \in Envelopes
  BY <1>1, <1>2 DEF PositionOK
<1>4. cmd[p].conversation \in Conversations
  BY <1>1, <1>3, ConsumeArguments DEF DataTypes
<1>5. mail[p] = cmd[p].envelope
  BY <1>1, <1>2, <1>3 DEF ConsumeMemory
<1>6. Dir(p) = Directory[mail[p]] /\ Dir(p) \in Directories
  BY <1>3, <1>5, DirectoryAssumption DEF Dir
<1>7. pc[p] \in Noted =>
        /\ note[p] \in Receipt /\ receipt[Dir(p)] = note[p]
        /\ note[p].envelope = mail[p] /\ note[p].conversation = cmd[p].conversation
  BY <1>1, <1>3, <1>5 DEF PositionOK, ConsumeMemory, SameIdentity
<1>8. QED
  BY <1>3, <1>4, <1>5, <1>6, <1>7

LEMMA TruthfulLasts ==
  ASSUME IInv, Lasting, UNCHANGED <<artifact, receipt>>
  PROVE  ReceiptsTruthful'
<1> SUFFICES ASSUME NEW d \in Directories, receipt[d] # NoReceipt
             PROVE  ReceiptTrue(receipt[d], d)'
  BY DEF ReceiptsTruthful
<1>1. receipt[d] \in Receipt /\ ReceiptTrue(receipt[d], d)
  BY DEF IInv, TypeOK, ReceiptsTruthful
<1>2. receipt[d].envelope \in Envelopes /\ receipt[d].conversation \in Conversations
  BY <1>1 DEF Receipt
<1>3. QED
  BY <1>1, <1>2, NoEnvelopeAssumption DEF Lasting, ReceiptTrue

LEMMA TruthfulWrite ==
  ASSUME IInv, UNCHANGED <<relay, artifact, conversations>>,
         NEW d \in Directories, NEW r, receipt' = [receipt EXCEPT ![d] = r],
         ReceiptTrue(r, d)
  PROVE  ReceiptsTruthful'
<1>1. \A e \in Directories : receipt'[e] = IF e = d THEN r ELSE receipt[e]
  BY DEF IInv, TypeOK
<1>2. \A e \in Directories : receipt[e] # NoReceipt => ReceiptTrue(receipt[e], e)
  BY DEF IInv, ReceiptsTruthful
<1>3. QED
  BY <1>1, <1>2 DEF ReceiptsTruthful, ReceiptTrue

LEMMA NextTruthful == IInv /\ [Next]_vars => ReceiptsTruthful'
<1> SUFFICES ASSUME IInv, [Next]_vars PROVE ReceiptsTruthful'
  OBVIOUS
<1>0. DataTypes /\ Lasting
  BY TypeParts, NextLasting DEF IInv
<1>1. CASE UNCHANGED vars \/ RemoveStaleLock \/ \E e \in Envelopes : Submit(e)
  BY <1>0, <1>1, TruthfulLasts DEF vars, RemoveStaleLock, Submit
<1>2. ASSUME NEW p \in Procs, ~Writes(p),
             Start(p) \/ Step(p) \/ Crash(p) \/ SidecarJoins(p) \/ SidecarFails(p)
      PROVE  ReceiptsTruthful'
  BY <1>0, <1>2, OnlyWritersWrite, TruthfulLasts
<1>3. ASSUME NEW p \in Procs, Writes(p)
      PROVE  ReceiptsTruthful'
  <2>0. /\ mail[p] \in Envelopes /\ mail[p] = cmd[p].envelope
        /\ Dir(p) = Directory[mail[p]] /\ Dir(p) \in Directories
        /\ cmd[p].kind = "consume" /\ ConsumeMemory(p) /\ JoinMemory(p)
        /\ pc[p] \in Noted =>
             /\ note[p] \in Receipt /\ receipt[Dir(p)] = note[p]
             /\ note[p].envelope = mail[p]
             /\ note[p].conversation = cmd[p].conversation
    BY <1>3, WriterMemory DEF IInv
  <2>1. CASE PersistWelcome(p)
    <3>1. receipt[Dir(p)] = NoReceipt
      BY <2>0, <2>1 DEF PersistWelcome, ConsumeMemory
    <3>2. /\ \A d \in Directories : d # Dir(p) => artifact'[d] = artifact[d]
          /\ UNCHANGED <<relay, receipt, conversations>>
      BY <1>0, <2>0, <2>1 DEF DataTypes, PersistWelcome
    <3>3. QED
      BY <3>1, <3>2 DEF IInv, ReceiptsTruthful, ReceiptTrue
  <2>2. CASE WritePersisted(p)
    <3> DEFINE r == [envelope |-> mail[p], conversation |-> cmd[p].conversation,
                     attempted |-> FALSE, joined |-> FALSE, acked |-> FALSE]
    <3>1. artifact[Dir(p)] = mail[p]
      BY <2>0, <2>2 DEF WritePersisted, ConsumeMemory
    <3>2. ReceiptTrue(r, Dir(p))
      BY <2>0, <3>1 DEF ReceiptTrue
    <3>3. receipt' = [receipt EXCEPT ![Dir(p)] = r]
          /\ UNCHANGED <<relay, artifact, conversations>>
      BY <2>0, <2>2 DEF WritePersisted, WriteReceipt
    <3>4. QED
      BY <2>0, <3>2, <3>3, TruthfulWrite
  <2>3. CASE WriteAttempt(p) \/ WriteJoined(p) \/ WriteAcked(p)
    <3>1. pc[p] \in Noted
      BY <2>3 DEF WriteAttempt, WriteJoined, WriteAcked, Noted
    <3>2. note[p] # NoReceipt
      BY <2>0, <3>1, NoReceiptAssumption
    <3>3. ReceiptTrue(note[p], Dir(p))
      BY <2>0, <3>1, <3>2 DEF IInv, ReceiptsTruthful
    <3>4. UNCHANGED <<relay, artifact, conversations>>
      BY <2>3 DEF WriteAttempt, WriteJoined, WriteAcked
    <3>5. CASE WriteAttempt(p)
      <4> DEFINE r == [note[p] EXCEPT !.attempted = TRUE]
      <4>1. r.envelope = note[p].envelope /\ r.conversation = note[p].conversation
            /\ r.joined = note[p].joined /\ r.acked = note[p].acked
        BY <2>0, <3>1 DEF Receipt
      <4>2. ReceiptTrue(r, Dir(p))
        BY <3>3, <4>1 DEF ReceiptTrue
      <4>3. receipt' = [receipt EXCEPT ![Dir(p)] = r]
        BY <2>0, <3>5 DEF WriteAttempt, WriteReceipt
      <4>4. QED
        BY <2>0, <3>4, <4>2, <4>3, TruthfulWrite
    <3>6. CASE WriteJoined(p)
      <4> DEFINE r == [note[p] EXCEPT !.joined = TRUE]
      <4>1. r.envelope = note[p].envelope /\ r.conversation = note[p].conversation
            /\ r.joined = TRUE /\ r.acked = note[p].acked
        BY <2>0, <3>1 DEF Receipt
      <4>2. conversations[cmd[p].conversation] = mail[p]
        BY <2>0, <3>6 DEF WriteJoined, JoinMemory
      <4>3. ReceiptTrue(r, Dir(p))
        BY <2>0, <3>1, <3>3, <4>1, <4>2 DEF ReceiptTrue
      <4>4. receipt' = [receipt EXCEPT ![Dir(p)] = r]
        BY <2>0, <3>6 DEF WriteJoined, WriteReceipt
      <4>5. QED
        BY <2>0, <3>4, <4>3, <4>4, TruthfulWrite
    <3>7. CASE WriteAcked(p)
      <4> DEFINE r == [note[p] EXCEPT !.acked = TRUE]
      <4>1. r.envelope = note[p].envelope /\ r.conversation = note[p].conversation
            /\ r.joined = note[p].joined /\ r.acked = TRUE
        BY <2>0, <3>1 DEF Receipt
      <4>2. note[p].joined /\ relay[mail[p]] = "acknowledged"
        BY <2>0, <3>7 DEF WriteAcked, ConsumeMemory, JoinMemory
      <4>3. ReceiptTrue(r, Dir(p))
        BY <2>0, <3>1, <3>3, <4>1, <4>2 DEF ReceiptTrue
      <4>4. receipt' = [receipt EXCEPT ![Dir(p)] = r]
        BY <2>0, <3>7 DEF WriteAcked, WriteReceipt
      <4>5. QED
        BY <2>0, <3>4, <4>3, <4>4, TruthfulWrite
    <3>8. QED
      BY <2>3, <3>5, <3>6, <3>7
  <2>4. QED
    BY <1>3, <2>1, <2>2, <2>3 DEF Writes
<1>4. QED
  BY <1>1, <1>2, <1>3 DEF Next, Step, Writes

LEMMA NextAcked == IInv /\ [Next]_vars => AckedAreJoined'
<1> SUFFICES ASSUME IInv, [Next]_vars PROVE AckedAreJoined'
  OBVIOUS
<1>0. DataTypes /\ Lasting
  BY TypeParts, NextLasting DEF IInv
<1>1. Processed \subseteq Processed'
  BY <1>0, NoEnvelopeAssumption DEF Processed, Lasting
<1>2. ASSUME NEW p \in Procs, Ack(p) \/ AckAnswerLost(p)
      PROVE  AckedAreJoined'
  <2>1. pc[p] = "ack" /\ relay' = [relay EXCEPT ![mail[p]] = "acknowledged"]
    BY <1>2 DEF Ack, AckAnswerLost
  <2>2. PositionOK(p)
    BY TypeParts DEF IInv
  <2>3. mail[p] \in Envelopes /\ cmd[p] # NoCommand
    BY <2>1, <2>2 DEF PositionOK, Selected
  <2>4. cmd[p].conversation \in Conversations
    BY <1>0, <2>3, JoinArguments DEF DataTypes
  <2>5. mail[p] \in Processed
    BY <2>1, <2>3, <2>4 DEF IInv, JoinMemory, Processed
  <2>6. QED
    BY <1>0, <1>1, <2>1, <2>5 DEF DataTypes, IInv, AckedAreJoined
<1>3. CASE \E e \in Envelopes : Submit(e)
  BY <1>0, <1>1, <1>3 DEF DataTypes, Submit, IInv, AckedAreJoined
<1>4. ASSUME relay' = relay PROVE AckedAreJoined'
  BY <1>1, <1>4 DEF IInv, AckedAreJoined
<1>5. ASSUME NEW p \in Procs, ~Ack(p), ~AckAnswerLost(p),
             Start(p) \/ Step(p) \/ Crash(p) \/ SidecarJoins(p) \/ SidecarFails(p)
      PROVE  relay' = relay
  BY <1>5
  DEF records, Start, StartConsume, StartJoin, Step, Crash, SidecarJoins, SidecarFails,
      AcquireLock, LockUnavailable, Release, FreshConsume, RetryAck, NothingToDo,
      SelectWelcome, NoWelcome, PersistWelcome, WritePersisted, WriteAttempt, RunSidecar,
      JoinReported, JoinNotReported, WriteJoined, WriteAcked, IOFailure, Return
<1>6. UNCHANGED vars \/ RemoveStaleLock => relay' = relay
  BY DEF vars, RemoveStaleLock
<1>7. QED
  BY <1>2, <1>3, <1>4, <1>5, <1>6 DEF Next
-----------------------------------------------------------------------------
(* The memory of the commands *)

LEMMA OthersMemory ==
  ASSUME IInv, Lasting, NEW p \in Procs, NEW q \in Procs, p # q,
         Start(p) \/ Step(p) \/ Crash(p) \/ SidecarJoins(p) \/ SidecarFails(p)
  PROVE  ConsumeMemory(q)' /\ JoinMemory(q)'
<1>0. /\ DataTypes /\ PositionOK(q) /\ ConsumeMemory(q) /\ JoinMemory(q)
  BY TypeParts DEF IInv
<1>1. /\ pc'[q] = pc[q] /\ cmd'[q] = cmd[q] /\ child'[q] = child[q]
      /\ mail'[q] = mail[q] /\ note'[q] = note[q]
  BY OthersUntouched DEF IInv
<1>2. Dir(q)' = Dir(q)
  BY <1>1 DEF Dir
<1>3. ConsumeMemory(q)'
  <2>1. CASE ~HoldsLock(q)
    BY <1>0, <1>1, <2>1 DEF HoldsLock, ConsumeMemory, Active, Selected, Noted
  <2>2. CASE HoldsLock(q)
    <3>1. ~Writes(p)
      BY <2>2, WritersHoldLock DEF IInv, LockExclusive
    <3>2. UNCHANGED <<artifact, receipt>>
      BY <3>1, OnlyWritersWrite
    <3>3. QED
      BY <1>0, <1>1, <1>2, <3>2 DEF ConsumeMemory, SameIdentity
  <2>3. QED
    BY <2>1, <2>2
<1>4. JoinMemory(q)'
  <2>1. pc[q] = "wait" =>
          child'[q].job = [envelope |-> mail'[q], conversation |-> cmd'[q].conversation]
    BY <1>0, <1>1 DEF JoinMemory
  <2>2. child[q].state = "joined" =>
          conversations'[child[q].job.conversation] = child[q].job.envelope
    BY <1>0, NoEnvelopeAssumption, ChildArguments DEF DataTypes, JoinMemory, Lasting
  <2>3. pc[q] \in {"record", "ack", "record_ack"} =>
          conversations'[cmd[q].conversation] = mail[q]
    <3> SUFFICES ASSUME pc[q] \in {"record", "ack", "record_ack"}
                 PROVE  conversations'[cmd[q].conversation] = mail[q]
      OBVIOUS
    <3>1. mail[q] \in Envelopes /\ cmd[q] # NoCommand
      BY <1>0 DEF PositionOK, Selected
    <3>2. cmd[q].conversation \in Conversations
      BY <1>0, <3>1, JoinArguments DEF DataTypes
    <3>3. QED
      BY <1>0, <3>1, <3>2, NoEnvelopeAssumption DEF JoinMemory, Lasting
  <2>4. pc[q] = "record_ack" => relay'[mail[q]] = "acknowledged"
    BY <1>0 DEF JoinMemory, Lasting, PositionOK, Selected
  <2>5. QED
    BY <1>1, <2>1, <2>2, <2>3, <2>4 DEF JoinMemory
<1>5. QED
  BY <1>3, <1>4

LEMMA ActorConsumeMemory ==
  ASSUME IInv, NEW p \in Procs,
         Start(p) \/ Step(p) \/ Crash(p) \/ SidecarJoins(p) \/ SidecarFails(p)
  PROVE  ConsumeMemory(p)'
<1>0. DataTypes /\ PositionOK(p) /\ ConsumeMemory(p) /\ ReceiptsTruthful
  BY TypeParts DEF IInv
<1> USE DEF Selected, Noted, memory, records
<1>1. CASE Start(p) \/ AcquireLock(p) \/ LockUnavailable(p) \/ Release(p) \/ Crash(p)
           \/ NothingToDo(p) \/ NoWelcome(p) \/ IOFailure(p) \/ JoinNotReported(p)
           \/ AckAnswerLost(p) \/ WriteAcked(p)
  <2>1. CASE Start(p)
    <3>1. pc'[p] = "acquire" \/ cmd'[p].kind = "join"
      BY <1>0, <2>1 DEF DataTypes, Start, StartConsume, StartJoin, Goto
    <3>2. QED
      BY <3>1 DEF ConsumeMemory
  <2>2. CASE LockUnavailable(p) \/ Release(p) \/ Crash(p)
    <3>1. pc'[p] = "idle"
      BY <1>0, <2>2 DEF DataTypes, LockUnavailable, Release, Crash, Forget, Goto
    <3>2. QED
      BY <3>1 DEF ConsumeMemory
  <2>3. CASE NothingToDo(p) \/ NoWelcome(p) \/ IOFailure(p)
    <3>1. pc'[p] = "release"
      BY <1>0, <2>3 DEF DataTypes, NothingToDo, NoWelcome, IOFailure, Return, Goto
    <3>2. QED
      BY <3>1 DEF ConsumeMemory
  <2>4. CASE AcquireLock(p) \/ JoinNotReported(p) \/ AckAnswerLost(p) \/ WriteAcked(p)
    <3>1. pc'[p] \in {"check", "release"}
      BY <1>0, <2>4
      DEF DataTypes, AcquireLock, JoinNotReported, AckAnswerLost, WriteAcked, Goto
    <3>2. QED
      BY <3>1 DEF ConsumeMemory
  <2>5. QED
    BY <1>1, <2>1, <2>2, <2>3, <2>4
<1>2. CASE SidecarJoins(p) \/ SidecarFails(p)
  BY <1>0, <1>2 DEF SidecarJoins, SidecarFails, ConsumeMemory, SameIdentity, Dir
<1>3. CASE FreshConsume(p)
  <2>1. pc'[p] = "inbox" /\ UNCHANGED <<cmd, artifact, receipt>>
    BY <1>0, <1>3 DEF DataTypes, FreshConsume, Goto
  <2>2. QED
    BY <1>3, <2>1 DEF FreshConsume, ConsumeMemory, Dir
<1>4. CASE RetryAck(p)
  <2>1. /\ pc'[p] = "ack" /\ UNCHANGED <<cmd, artifact, receipt>>
        /\ mail'[p] = cmd[p].envelope /\ note'[p] = receipt[Dir(p)]
    BY <1>0, <1>4 DEF DataTypes, RetryAck, Goto
  <2>2. SameIdentity(receipt[Dir(p)], cmd[p]) /\ receipt[Dir(p)].joined
    BY <1>4 DEF RetryAck
  <2>3. QED
    BY <2>1, <2>2 DEF ConsumeMemory, SameIdentity, Dir
<1>5. CASE SelectWelcome(p)
  <2>1. /\ UNCHANGED <<cmd, artifact, receipt>> /\ pc[p] = "inbox"
        /\ cmd[p].kind = "consume" => pc'[p] = "persist" /\ mail'[p] = cmd[p].envelope
    BY <1>0, <1>5 DEF DataTypes, SelectWelcome, Goto
  <2>2. QED
    BY <1>0, <2>1 DEF ConsumeMemory, Dir
<1>6. CASE PersistWelcome(p)
  <2>1. /\ pc'[p] = "receipt" /\ pc[p] = "persist" /\ UNCHANGED <<cmd, receipt, mail>>
        /\ artifact' = [artifact EXCEPT ![Directory[mail[p]]] = mail[p]]
    BY <1>0, <1>6 DEF DataTypes, PersistWelcome, Goto
  <2>2. mail[p] = cmd[p].envelope /\ Dir(p) = Directory[mail[p]] /\ Dir(p) \in Directories
    BY <1>6, WriterMemory DEF Writes
  <2>3. artifact'[Dir(p)] = mail[p]
    BY <1>0, <2>1, <2>2 DEF DataTypes
  <2>4. QED
    BY <1>0, <2>1, <2>2, <2>3 DEF ConsumeMemory, Dir
<1>7. CASE WritePersisted(p) \/ WriteAttempt(p) \/ WriteJoined(p)
  <2>0. /\ mail[p] = cmd[p].envelope /\ Dir(p) = Directory[mail[p]]
        /\ Dir(p) \in Directories
        /\ pc[p] \in Noted =>
             /\ note[p] \in Receipt
             /\ note[p].envelope = mail[p]
             /\ note[p].conversation = cmd[p].conversation
    BY <1>7, WriterMemory DEF Writes
  <2>1. ASSUME NEW r, WriteReceipt(p, r)
        PROVE  receipt'[Dir(p)] = r /\ note'[p] = r
    BY <1>0, <2>0, <2>1 DEF DataTypes, WriteReceipt
  <2>2. UNCHANGED <<cmd, mail>>
    BY <1>7 DEF WritePersisted, WriteAttempt, WriteJoined
  <2>3. CASE WritePersisted(p)
    <3> DEFINE r == [envelope |-> mail[p], conversation |-> cmd[p].conversation,
                     attempted |-> FALSE, joined |-> FALSE, acked |-> FALSE]
    <3>1. receipt'[Dir(p)] = r /\ note'[p] = r /\ pc'[p] = "attempt"
      BY <1>0, <2>1, <2>3 DEF DataTypes, WritePersisted, Goto
    <3>2. QED
      BY <2>0, <2>2, <3>1 DEF ConsumeMemory, SameIdentity, Dir
  <2>4. CASE WriteAttempt(p)
    <3> DEFINE r == [note[p] EXCEPT !.attempted = TRUE]
    <3>1. receipt'[Dir(p)] = r /\ note'[p] = r /\ pc'[p] = "join" /\ pc[p] = "attempt"
      BY <1>0, <2>1, <2>4 DEF DataTypes, WriteAttempt, Goto
    <3>2. cmd[p].kind = "consume" => ~note[p].joined /\ ~note[p].acked
      BY <1>0, <3>1 DEF ConsumeMemory
    <3>3. r.envelope = note[p].envelope /\ r.conversation = note[p].conversation
          /\ r.joined = note[p].joined /\ r.acked = note[p].acked
      BY <2>0, <3>1 DEF Receipt
    <3>4. QED
      BY <2>0, <2>2, <3>1, <3>2, <3>3 DEF ConsumeMemory, SameIdentity, Dir
  <2>5. CASE WriteJoined(p)
    <3> DEFINE r == [note[p] EXCEPT !.joined = TRUE]
    <3>1. receipt'[Dir(p)] = r /\ note'[p] = r /\ pc'[p] = "ack" /\ pc[p] = "record"
      BY <1>0, <2>1, <2>5 DEF DataTypes, WriteJoined, Goto
    <3>2. r.envelope = note[p].envelope /\ r.conversation = note[p].conversation
          /\ r.joined = TRUE
      BY <2>0, <3>1 DEF Receipt
    <3>3. QED
      BY <2>0, <2>2, <3>1, <3>2 DEF ConsumeMemory, SameIdentity, Dir
  <2>6. QED
    BY <1>7, <2>3, <2>4, <2>5
<1>8. CASE RunSidecar(p) \/ JoinReported(p) \/ Ack(p)
  <2>1. UNCHANGED <<cmd, mail, note, artifact, receipt>>
        /\ pc[p] \in {"join", "wait", "ack"}
    BY <1>8 DEF RunSidecar, JoinReported, Ack
  <2>2. \/ pc[p] = "join" /\ pc'[p] = "wait"
        \/ pc[p] = "wait" /\ cmd[p].kind = "consume" /\ pc'[p] = "record"
        \/ pc[p] = "ack" /\ pc'[p] = "record_ack"
        \/ cmd'[p].kind # "consume"
    BY <1>0, <1>8 DEF DataTypes, RunSidecar, JoinReported, Ack, Goto
  <2>3. QED
    BY <1>0, <2>1, <2>2 DEF ConsumeMemory, SameIdentity, Dir
<1>9. QED
  BY <1>1, <1>2, <1>3, <1>4, <1>5, <1>6, <1>7, <1>8 DEF Step

LEMMA ActorJoinMemory ==
  ASSUME IInv, NEW p \in Procs,
         Start(p) \/ Step(p) \/ Crash(p) \/ SidecarJoins(p) \/ SidecarFails(p)
  PROVE  JoinMemory(p)'
<1>0. DataTypes /\ PositionOK(p) /\ JoinMemory(p) /\ PositionOK(p)'
  BY TypeParts, ActorPosition DEF IInv
<1> USE DEF Selected, Noted, memory, records
<1>1. CASE Start(p) \/ AcquireLock(p) \/ LockUnavailable(p) \/ Release(p) \/ Crash(p)
           \/ FreshConsume(p) \/ NothingToDo(p) \/ SelectWelcome(p) \/ NoWelcome(p)
           \/ PersistWelcome(p) \/ WritePersisted(p) \/ WriteAttempt(p)
           \/ JoinNotReported(p) \/ AckAnswerLost(p) \/ WriteAcked(p) \/ IOFailure(p)
  <2>1. pc'[p] \notin {"wait", "record", "ack", "record_ack"}
    BY <1>0, <1>1
    DEF DataTypes, Start, StartConsume, StartJoin, AcquireLock, LockUnavailable, Release,
        Crash, FreshConsume, NothingToDo, SelectWelcome, NoWelcome, PersistWelcome,
        WritePersisted, WriteAttempt, JoinNotReported, AckAnswerLost, WriteAcked,
        IOFailure, Return, Forget, Goto
  <2>2. child'[p].state # "joined"
    BY <1>0, <2>1 DEF PositionOK
  <2>3. QED
    BY <2>1, <2>2 DEF JoinMemory
<1>2. CASE SidecarJoins(p)
  <2>1. child[p].job.envelope \in Envelopes /\ child[p].job.conversation \in Conversations
    BY <1>0, <1>2, ChildArguments DEF DataTypes, SidecarJoins
  <2>2. /\ UNCHANGED <<relay, pc, cmd, mail>>
        /\ conversations'[child[p].job.conversation] = child[p].job.envelope
        /\ child'[p] = IF pc[p] = "wait" THEN [state |-> "joined", job |-> child[p].job]
                       ELSE NoChild
    BY <1>0, <1>2, <2>1 DEF DataTypes, SidecarJoins, ChildExits
  <2>3. pc[p] \notin {"record", "ack", "record_ack"} =>
          JoinMemory(p)'
    BY <1>0, <2>2 DEF JoinMemory, NoChild
  <2>4. pc[p] \in {"record", "ack", "record_ack"} => JoinMemory(p)'
    <3> SUFFICES ASSUME pc[p] \in {"record", "ack", "record_ack"} PROVE JoinMemory(p)'
      OBVIOUS
    <3>1. mail[p] \in Envelopes /\ cmd[p] # NoCommand
      BY <1>0 DEF PositionOK
    <3>2. cmd[p].conversation \in Conversations
      BY <1>0, <3>1, JoinArguments DEF DataTypes
    <3>3. conversations'[cmd[p].conversation] = mail[p]
      BY <1>0, <3>1, <3>2, NextLasting, NoEnvelopeAssumption DEF IInv, JoinMemory, Lasting, Next
    <3>4. child'[p] = NoChild
      BY <2>2
    <3>5. QED
      BY <1>0, <2>2, <3>3, <3>4 DEF JoinMemory, NoChild
  <2>5. QED
    BY <2>3, <2>4
<1>3. CASE SidecarFails(p)
  <2>1. UNCHANGED <<relay, conversations, pc, cmd, mail>>
        /\ child'[p] = IF pc[p] = "wait" THEN [state |-> "failed", job |-> child[p].job]
                       ELSE NoChild
    BY <1>0, <1>3 DEF DataTypes, SidecarFails, ChildExits
  <2>2. QED
    BY <1>0, <2>1 DEF JoinMemory, NoChild
<1>4. CASE RetryAck(p)
  <2>1. /\ receipt[Dir(p)] # NoReceipt /\ SameIdentity(receipt[Dir(p)], cmd[p])
        /\ receipt[Dir(p)].joined
        /\ cmd[p].kind = "consume"
    BY <1>0, <1>4 DEF RetryAck, PositionOK, ConsumeOnly
  <2>2. Dir(p) \in Directories
    BY <1>0, <2>1, ConsumeArguments, DirectoryAssumption DEF DataTypes, Dir
  <2>3. conversations[cmd[p].conversation] = cmd[p].envelope
    BY <2>1, <2>2 DEF IInv, ReceiptsTruthful, ReceiptTrue, SameIdentity
  <2>4. /\ pc'[p] = "ack" /\ mail'[p] = cmd[p].envelope
        /\ UNCHANGED <<cmd, conversations, child>>
    BY <1>0, <1>4 DEF DataTypes, RetryAck, Goto
  <2>5. child'[p].state # "joined"
    BY <1>0, <2>4 DEF PositionOK
  <2>6. QED
    BY <2>3, <2>4, <2>5 DEF JoinMemory
<1>5. CASE RunSidecar(p)
  <2>1. /\ pc'[p] = "wait" /\ UNCHANGED <<cmd, mail>>
        /\ child'[p] = [state |-> "running",
                        job |-> [envelope |-> mail[p], conversation |-> cmd[p].conversation]]
    BY <1>0, <1>5 DEF DataTypes, RunSidecar, Goto
  <2>2. QED
    BY <2>1 DEF JoinMemory
<1>6. CASE JoinReported(p)
  <2>1. /\ pc[p] = "wait" /\ child[p].state = "joined" /\ child'[p] = NoChild
        /\ pc'[p] \in {"record", "ack", "release"}
        /\ UNCHANGED <<cmd, mail, conversations>>
    BY <1>0, <1>6 DEF DataTypes, JoinReported, Goto
  <2>2. conversations[cmd[p].conversation] = mail[p]
    BY <1>0, <2>1 DEF JoinMemory
  <2>3. QED
    BY <2>1, <2>2 DEF JoinMemory, NoChild
<1>7. CASE WriteJoined(p) \/ Ack(p)
  <2>1. /\ pc[p] \in {"record", "ack"} /\ pc'[p] \in {"ack", "record_ack", "release"}
        /\ UNCHANGED <<cmd, mail, conversations, child>>
    BY <1>0, <1>7 DEF DataTypes, WriteJoined, Ack, Goto
  <2>2. pc'[p] = "record_ack" => relay'[mail[p]] = "acknowledged"
    BY <1>0, <1>7, <2>1 DEF DataTypes, WriteJoined, Ack, PositionOK, Goto
  <2>3. child'[p].state # "joined"
    BY <1>0, <2>1 DEF PositionOK
  <2>4. QED
    BY <1>0, <2>1, <2>2, <2>3 DEF JoinMemory
<1>8. QED
  BY <1>1, <1>2, <1>3, <1>4, <1>5, <1>6, <1>7 DEF Step

LEMMA NextMemory ==
  IInv /\ [Next]_vars => \A q \in Procs : ConsumeMemory(q)' /\ JoinMemory(q)'
<1> SUFFICES ASSUME IInv, [Next]_vars, NEW q \in Procs
             PROVE  ConsumeMemory(q)' /\ JoinMemory(q)'
  OBVIOUS
<1>0. DataTypes /\ PositionOK(q) /\ Lasting /\ ConsumeMemory(q) /\ JoinMemory(q)
  BY TypeParts, NextLasting DEF IInv
<1>1. CASE UNCHANGED vars \/ RemoveStaleLock
  BY <1>0, <1>1
  DEF vars, memory, RemoveStaleLock, ConsumeMemory, JoinMemory, SameIdentity, Dir
<1>2. CASE \E e \in Envelopes : Submit(e)
  <2>1. UNCHANGED <<artifact, receipt, conversations, child, pc, cmd, mail, note>>
    BY <1>2 DEF Submit, memory
  <2>2. pc[q] = "record_ack" => relay'[mail[q]] = "acknowledged"
    BY <1>0 DEF JoinMemory, Lasting, PositionOK, Selected
  <2>3. QED
    BY <1>0, <2>1, <2>2 DEF ConsumeMemory, JoinMemory, SameIdentity, Dir
<1>3. ASSUME NEW p \in Procs,
             Start(p) \/ Step(p) \/ Crash(p) \/ SidecarJoins(p) \/ SidecarFails(p)
      PROVE  ConsumeMemory(q)' /\ JoinMemory(q)'
  BY <1>0, <1>3, ActorConsumeMemory, ActorJoinMemory, OthersMemory
<1>4. QED
  BY <1>1, <1>2, <1>3 DEF Next

-----------------------------------------------------------------------------
(* The inductive invariant *)

LEMMA InitInv == Init => IInv
<1> SUFFICES ASSUME Init PROVE IInv
  OBVIOUS
<1>1. TypeOK
  BY InitType
<1>2. LockExclusive
  BY DEF Init, LockExclusive, HoldsLock, Active
<1>3. ReceiptsTruthful /\ AckedAreJoined
  BY DEF Init, ReceiptsTruthful, AckedAreJoined
<1>4. \A p \in Procs : ConsumeMemory(p) /\ JoinMemory(p)
  BY DEF Init, ConsumeMemory, JoinMemory, NoCommand, NoChild
<1>5. QED
  BY <1>1, <1>2, <1>3, <1>4 DEF IInv

LEMMA NextInv == IInv /\ [Next]_vars => IInv'
<1> SUFFICES ASSUME IInv, [Next]_vars PROVE IInv'
  OBVIOUS
<1>1. TypeOK'
  BY NextDataTypes, NextPositions, TypeParts DEF IInv, TypeOK, DataTypes
<1>2. LockExclusive'
  BY NextLock DEF IInv
<1>3. ReceiptsTruthful'
  BY NextTruthful
<1>4. AckedAreJoined'
  BY NextAcked
<1>5. \A p \in Procs : ConsumeMemory(p)' /\ JoinMemory(p)'
  BY NextMemory
<1>6. QED
  BY <1>1, <1>2, <1>3, <1>4, <1>5 DEF IInv

\* Every reachable state of the Welcome commands satisfies IInv: the lock is
\* exclusive, receipts are true, acknowledged Welcomes are joined, and every
\* command's memory agrees with the files it was read from.
THEOREM Inductive == Spec => []IInv
<1>1. Init => IInv
  BY InitInv
<1>2. IInv /\ [Next]_vars => IInv'
  BY NextInv
<1>3. QED
  BY <1>1, <1>2, PTL DEF Spec

\* The receipts of welcome-consume are true in every reachable state.
THEOREM ReceiptsAreTruthful == Spec => []ReceiptsTruthful
<1>1. IInv => ReceiptsTruthful
  BY DEF IInv
<1>2. QED
  BY <1>1, Inductive, PTL

-----------------------------------------------------------------------------
(* Receipts only advance *)

LEMMA AdvancesItself == ASSUME NEW r \in Receipt PROVE Advances(r, r)
BY NoReceiptAssumption DEF Advances

LEMMA NextAdvances ==
  ASSUME IInv, [Next]_vars, NEW d \in Directories, receipt[d] # NoReceipt
  PROVE  Advances(receipt[d], receipt'[d])
<1>0. DataTypes /\ receipt[d] \in Receipt
  BY TypeParts DEF IInv, DataTypes
<1>1. receipt'[d] = receipt[d] => Advances(receipt[d], receipt'[d])
  BY <1>0, AdvancesItself
<1>2. CASE UNCHANGED vars \/ RemoveStaleLock \/ \E e \in Envelopes : Submit(e)
  BY <1>1, <1>2 DEF vars, RemoveStaleLock, Submit
<1>3. ASSUME NEW p \in Procs, ~Writes(p),
             Start(p) \/ Step(p) \/ Crash(p) \/ SidecarJoins(p) \/ SidecarFails(p)
      PROVE  receipt' = receipt
  BY <1>3, OnlyWritersWrite
<1>4. ASSUME NEW p \in Procs, Writes(p)
      PROVE  Advances(receipt[d], receipt'[d])
  <2>0. /\ mail[p] \in Envelopes /\ Dir(p) = Directory[mail[p]] /\ Dir(p) \in Directories
        /\ cmd[p].kind = "consume" /\ ConsumeMemory(p)
        /\ pc[p] \in Noted => note[p] \in Receipt /\ receipt[Dir(p)] = note[p]
    BY <1>4, WriterMemory DEF IInv
  <2>1. ASSUME NEW r, WriteReceipt(p, r), d # Dir(p)
        PROVE  receipt'[d] = receipt[d]
    BY <1>0, <2>0, <2>1 DEF DataTypes, WriteReceipt
  <2>2. ASSUME NEW r, WriteReceipt(p, r)
        PROVE  receipt'[Dir(p)] = r
    BY <1>0, <2>0, <2>2 DEF DataTypes, WriteReceipt
  <2>3. CASE PersistWelcome(p)
    BY <1>1, <2>3 DEF PersistWelcome
  <2>4. CASE WritePersisted(p)
    <3>1. d # Dir(p)
      BY <2>0, <2>4 DEF WritePersisted, ConsumeMemory
    <3>2. QED
      BY <1>1, <2>1, <2>4, <3>1 DEF WritePersisted
  <2>5. CASE WriteAttempt(p) \/ WriteJoined(p) \/ WriteAcked(p)
    <3>1. CASE d # Dir(p)
      BY <1>1, <2>1, <2>5, <3>1 DEF WriteAttempt, WriteJoined, WriteAcked
    <3>2. CASE d = Dir(p)
      <4>1. note[p] = receipt[d] /\ note[p] \in Receipt
        BY <2>0, <2>5, <3>2 DEF WriteAttempt, WriteJoined, WriteAcked, Noted
      <4>2. \/ receipt'[d] = [note[p] EXCEPT !.attempted = TRUE]
            \/ receipt'[d] = [note[p] EXCEPT !.joined = TRUE]
            \/ receipt'[d] = [note[p] EXCEPT !.acked = TRUE]
        BY <2>2, <2>5, <3>2 DEF WriteAttempt, WriteJoined, WriteAcked
      <4>3. receipt'[d] \in Receipt
        BY <4>1, <4>2, ReceiptSteps
      <4>4. QED
        BY <4>1, <4>2, <4>3, NoReceiptAssumption DEF Advances, Receipt
    <3>3. QED
      BY <3>1, <3>2
  <2>6. QED
    BY <1>4, <2>3, <2>4, <2>5 DEF Writes
<1>5. QED
  BY <1>1, <1>2, <1>3, <1>4 DEF Next, Step, Writes

\* No step of any command overwrites what a receipt has established.
THEOREM ReceiptsOnlyAdvance == Spec => ReceiptsAdvance
<1>1. IInv /\ [Next]_vars =>
        [\A d \in Directories :
           receipt[d] # NoReceipt => Advances(receipt[d], receipt'[d])]_vars
  BY NextAdvances
<1>2. QED
  BY <1>1, Inductive, PTL DEF Spec, ReceiptsAdvance
-----------------------------------------------------------------------------
(* Refinement of RelayDelivery *)

Acknowledged == {e \in Envelopes : relay[e] = "acknowledged"}

LEMMA InitDelivery == Init => Delivery!Init
BY NoEnvelopeAssumption DEF Init, Delivery!Init, Processed

LEMMA NextDelivery == IInv /\ [Next]_vars => [Delivery!Next]_(Delivery!vars)
<1> SUFFICES ASSUME IInv, [Next]_vars PROVE [Delivery!Next]_(Delivery!vars)
  OBVIOUS
<1>0. DataTypes /\ Lasting
  BY TypeParts, NextLasting DEF IInv
<1>1. UNCHANGED <<relay, conversations>> => UNCHANGED Delivery!vars
  BY DEF Delivery!vars, Processed
<1>2. CASE UNCHANGED vars \/ RemoveStaleLock
  BY <1>1, <1>2 DEF vars, RemoveStaleLock
<1>3. ASSUME NEW e \in Envelopes, Submit(e)
      PROVE  UNCHANGED Delivery!vars
  <2>1. Processed' = Processed
    BY <1>3 DEF Submit, Processed
  <2>2. Acknowledged' = Acknowledged
    BY <1>0, <1>3 DEF DataTypes, Submit, Acknowledged
  <2>3. QED
    BY <2>1, <2>2 DEF Delivery!vars, Acknowledged
<1>4. ASSUME NEW p \in Procs, SidecarJoins(p)
      PROVE  Delivery!Next
  <2>1. PICK e \in Envelopes, c \in Conversations :
          e = child[p].job.envelope /\ c = child[p].job.conversation
    BY <1>0, <1>4, ChildArguments DEF DataTypes, SidecarJoins
  <2>2. conversations[c] = NoEnvelope /\ conversations' = [conversations EXCEPT ![c] = e]
        /\ relay' = relay
    BY <1>4, <2>1 DEF SidecarJoins, records
  <2>3. Processed' = Processed \cup {e}
    <3>1. \A b \in Conversations : conversations'[b] = IF b = c THEN e ELSE conversations[b]
      BY <1>0, <2>2 DEF DataTypes
    <3>2. QED
      BY <2>1, <2>2, <3>1, NoEnvelopeAssumption DEF Processed
  <2>4. Delivery!Process(e)
    BY <2>2, <2>3 DEF Delivery!Process
  <2>5. QED
    BY <2>1, <2>4 DEF Delivery!Next
<1>5. ASSUME NEW p \in Procs, Ack(p) \/ AckAnswerLost(p)
      PROVE  Delivery!Next
  <2>1. PositionOK(p) /\ JoinMemory(p) /\ pc[p] = "ack"
    BY <1>5, TypeParts DEF IInv, Ack, AckAnswerLost
  <2>2. mail[p] \in Envelopes /\ cmd[p] # NoCommand
    BY <2>1 DEF PositionOK, Selected
  <2>3. cmd[p].conversation \in Conversations
    BY <1>0, <2>2, JoinArguments DEF DataTypes
  <2>4. mail[p] \in Processed
    BY <2>1, <2>2, <2>3 DEF JoinMemory, Processed
  <2>5. Processed' = Processed
    BY <1>5 DEF Ack, AckAnswerLost, Processed
  <2>6. Acknowledged' = Acknowledged \cup {mail[p]}
    BY <1>0, <1>5, <2>2 DEF DataTypes, Ack, AckAnswerLost, Acknowledged
  <2>7. PICK e \in Envelopes : e = mail[p]
    BY <2>2
  <2>8. Delivery!Acknowledge(e)
    BY <2>4, <2>5, <2>6, <2>7 DEF Delivery!Acknowledge, Acknowledged
  <2>9. QED
    BY <2>8 DEF Delivery!Next
<1>6. ASSUME NEW p \in Procs, ~SidecarJoins(p), ~Ack(p), ~AckAnswerLost(p),
             Start(p) \/ Step(p) \/ Crash(p) \/ SidecarFails(p)
      PROVE  UNCHANGED <<relay, conversations>>
  BY <1>6
  DEF records, Start, StartConsume, StartJoin, Step, Crash, SidecarFails, AcquireLock,
      LockUnavailable, Release, FreshConsume, RetryAck, NothingToDo, SelectWelcome,
      NoWelcome, PersistWelcome, WritePersisted, WriteAttempt, RunSidecar, JoinReported,
      JoinNotReported, WriteJoined, WriteAcked, IOFailure, Return
<1>7. QED
  BY <1>1, <1>2, <1>3, <1>4, <1>5, <1>6 DEF Next

\* Both commands, their children and the relay implement RelayDelivery: an
\* envelope is acknowledged only after its conversation-join has succeeded.
THEOREM DeliveryRefinement == Spec => ImplementsDelivery
<1>1. Init => Delivery!Init
  BY InitDelivery
<1>2. IInv /\ [Next]_vars => [Delivery!Next]_(Delivery!vars)
  BY NextDelivery
<1>3. QED
  BY <1>1, <1>2, Inductive, PTL DEF Spec, ImplementsDelivery, Delivery!Spec
-----------------------------------------------------------------------------
(* welcome-consume alone *)

\* The directory of e holds a receipt for e and conversation c.
Recorded(e, c) ==
  /\ receipt[Directory[e]] # NoReceipt
  /\ receipt[Directory[e]].envelope = e
  /\ receipt[Directory[e]].conversation = c

\* Without join-dev every join, running or done, has its receipt.  A receipt is
\* for one conversation and is never replaced: hence JoinedOnce.
ConsumeInv ==
  /\ \A p \in Procs : cmd[p].kind # "join"
  /\ \A c \in Conversations :
       conversations[c] # NoEnvelope => Recorded(conversations[c], c)
  /\ \A p \in Procs :
       child[p] # NoChild => Recorded(child[p].job.envelope, child[p].job.conversation)
  /\ EvidenceBeforeAck

LEMMA RecordedLasts ==
  ASSUME IInv, [Next]_vars, NEW e \in Envelopes, NEW c, Recorded(e, c)
  PROVE  Recorded(e, c)'
<1>1. Directory[e] \in Directories
  BY DirectoryAssumption
<1>2. Advances(receipt[Directory[e]], receipt'[Directory[e]])
  BY <1>1, NextAdvances DEF Recorded
<1>3. QED
  BY <1>2 DEF Recorded, Advances

LEMMA NextEvidence ==
  ASSUME IInv, ConsumeInv, [Next]_vars
  PROVE  EvidenceBeforeAck'
<1> SUFFICES ASSUME NEW e \in Envelopes, relay'[e] = "acknowledged"
             PROVE  /\ receipt'[Directory[e]] # NoReceipt
                    /\ receipt'[Directory[e]].envelope = e
                    /\ receipt'[Directory[e]].joined
  BY DEF EvidenceBeforeAck
<1>0. DataTypes /\ Directory[e] \in Directories
  BY TypeParts, DirectoryAssumption DEF IInv
<1>1. CASE relay[e] = "acknowledged"
  <2>1. /\ receipt[Directory[e]] # NoReceipt /\ receipt[Directory[e]].envelope = e
        /\ receipt[Directory[e]].joined
    BY <1>1 DEF ConsumeInv, EvidenceBeforeAck
  <2>2. Advances(receipt[Directory[e]], receipt'[Directory[e]])
    BY <1>0, <2>1, NextAdvances
  <2>3. QED
    BY <2>1, <2>2 DEF Advances
<1>2. CASE relay[e] # "acknowledged"
  <2>1. PICK p \in Procs : Ack(p) \/ AckAnswerLost(p)
    <3>1. CASE \E d \in Envelopes : Submit(d)
      BY <1>0, <1>2, <3>1 DEF DataTypes, Submit
    <3>2. relay' # relay
      BY <1>2
    <3>3. UNCHANGED vars \/ RemoveStaleLock => relay' = relay
      BY DEF vars, RemoveStaleLock
    <3>4. ASSUME NEW p \in Procs, ~Ack(p), ~AckAnswerLost(p),
                 Start(p) \/ Step(p) \/ Crash(p) \/ SidecarJoins(p) \/ SidecarFails(p)
          PROVE  relay' = relay
      BY <3>4
      DEF records, Start, StartConsume, StartJoin, Step, Crash, SidecarJoins, SidecarFails,
          AcquireLock, LockUnavailable, Release, FreshConsume, RetryAck, NothingToDo,
          SelectWelcome, NoWelcome, PersistWelcome, WritePersisted, WriteAttempt,
          RunSidecar, JoinReported, JoinNotReported, WriteJoined, WriteAcked, IOFailure,
          Return
    <3>5. QED
      BY <3>1, <3>2, <3>3, <3>4 DEF Next
  <2>2. /\ pc[p] = "ack" /\ receipt' = receipt
        /\ relay' = [relay EXCEPT ![mail[p]] = "acknowledged"]
    BY <2>1 DEF Ack, AckAnswerLost
  <2>3. PositionOK(p) /\ ConsumeMemory(p)
    BY TypeParts DEF IInv
  <2>4. mail[p] = e /\ cmd[p] # NoCommand
    BY <1>0, <1>2, <2>2, <2>3 DEF DataTypes, PositionOK
  <2>5. cmd[p].kind = "consume"
    BY <1>0, <2>4, JoinArguments DEF DataTypes, ConsumeInv
  <2>6. /\ receipt[Dir(p)] = note[p] /\ note[p] \in Receipt /\ note[p].joined
        /\ SameIdentity(note[p], cmd[p]) /\ cmd[p].envelope = e
    BY <2>2, <2>3, <2>4, <2>5 DEF ConsumeMemory, PositionOK, Noted, Selected
  <2>7. QED
    BY <2>2, <2>6, NoReceiptAssumption DEF SameIdentity, Dir
<1>3. QED
  BY <1>1, <1>2

LEMMA NextConsume ==
  ASSUME Kinds = {"consume"}, IInv, ConsumeInv, [Next]_vars
  PROVE  ConsumeInv'
<1>0. DataTypes
  BY TypeParts DEF IInv
<1>1. ASSUME NEW q \in Procs PROVE cmd'[q].kind # "join"
  <2>0. cmd[q].kind # "join"
    BY DEF ConsumeInv
  <2>1. CASE UNCHANGED vars \/ RemoveStaleLock \/ \E e \in Envelopes : Submit(e)
    BY <2>0, <2>1 DEF vars, RemoveStaleLock, Submit
  <2>2. ASSUME NEW p \in Procs, Start(p) PROVE cmd'[q].kind # "join"
    BY <1>0, <2>0, <2>2 DEF DataTypes, Start, StartConsume, StartJoin
  <2>3. ASSUME NEW p \in Procs, LockUnavailable(p) \/ Release(p) \/ Crash(p)
        PROVE  cmd'[q].kind # "join"
    <3>1. cmd'[q] \in {cmd[q], NoCommand}
      BY <1>0, <2>3 DEF DataTypes, LockUnavailable, Release, Crash, Forget
    <3>2. QED
      BY <2>0, <3>1 DEF NoCommand
  <2>4. ASSUME NEW p \in Procs, ~LockUnavailable(p), ~Release(p),
               Step(p) \/ SidecarJoins(p) \/ SidecarFails(p)
        PROVE  cmd' = cmd
    BY <2>4
    DEF Step, SidecarJoins, SidecarFails, AcquireLock, FreshConsume, RetryAck, NothingToDo,
        SelectWelcome, NoWelcome, PersistWelcome, WritePersisted, WriteAttempt, RunSidecar,
        JoinReported, JoinNotReported, WriteJoined, Ack, AckAnswerLost, WriteAcked,
        IOFailure, Return
  <2>5. QED
    BY <2>0, <2>1, <2>2, <2>3, <2>4 DEF Next
<1>2. ASSUME NEW q \in Procs, child'[q] # NoChild
      PROVE  Recorded(child[q].job.envelope, child[q].job.conversation)'
  <2>1. ASSUME child[q] # NoChild, child'[q].job = child[q].job
        PROVE  Recorded(child[q].job.envelope, child[q].job.conversation)'
    <3>1. Recorded(child[q].job.envelope, child[q].job.conversation)
      BY <2>1 DEF ConsumeInv
    <3>2. PICK e \in Envelopes, c \in Conversations :
            e = child[q].job.envelope /\ c = child[q].job.conversation
      BY <1>0, <2>1 DEF DataTypes, Child, Job
    <3>3. Recorded(e, c)'
      BY <3>1, <3>2, RecordedLasts
    <3>4. QED
      BY <2>1, <3>2, <3>3 DEF Recorded
  <2>2. CASE RunSidecar(q)
    <3>1. /\ child'[q].job = [envelope |-> mail[q], conversation |-> cmd[q].conversation]
          /\ receipt' = receipt /\ pc[q] = "join"
      BY <1>0, <2>2 DEF DataTypes, RunSidecar, records
    <3>2. PositionOK(q) /\ ConsumeMemory(q)
      BY TypeParts DEF IInv
    <3>3. cmd[q] # NoCommand
      BY <3>1, <3>2 DEF PositionOK
    <3>4. cmd[q].kind = "consume"
      BY <1>0, <3>3, JoinArguments DEF DataTypes, ConsumeInv
    <3>5. /\ receipt[Dir(q)] = note[q] /\ note[q] \in Receipt
          /\ SameIdentity(note[q], cmd[q]) /\ cmd[q].envelope = mail[q]
      BY <3>1, <3>2, <3>4 DEF ConsumeMemory, PositionOK, Noted, Selected
    <3>6. QED
      BY <3>1, <3>5, NoReceiptAssumption DEF Recorded, SameIdentity, Dir
  <2>3. CASE child'[q] = child[q]
    BY <1>2, <2>1, <2>3
  <2>4. CASE SidecarJoins(q) \/ SidecarFails(q)
    <3>1. child[q].state = "running"
      BY <2>4 DEF SidecarJoins, SidecarFails
    <3>2. child'[q].job = child[q].job
      BY <1>0, <1>2, <2>4 DEF DataTypes, SidecarJoins, SidecarFails, ChildExits
    <3>3. QED
      BY <2>1, <3>1, <3>2 DEF NoChild
  <2>5. ASSUME ~RunSidecar(q), ~SidecarJoins(q), ~SidecarFails(q),
               Start(q) \/ Step(q) \/ Crash(q)
        PROVE  child'[q] = child[q]
    BY <1>0, <1>2, <2>5
    DEF DataTypes, Start, StartConsume, StartJoin, Step, Crash, AcquireLock,
        LockUnavailable, Release, FreshConsume, RetryAck, NothingToDo, SelectWelcome,
        NoWelcome, PersistWelcome, WritePersisted, WriteAttempt, JoinReported,
        JoinNotReported, WriteJoined, Ack, AckAnswerLost, WriteAcked, IOFailure, Return
  <2>6. ASSUME NEW p \in Procs, p # q,
               Start(p) \/ Step(p) \/ Crash(p) \/ SidecarJoins(p) \/ SidecarFails(p)
        PROVE  child'[q] = child[q]
    BY <2>6, OthersUntouched DEF IInv
  <2>7. UNCHANGED vars \/ RemoveStaleLock \/ (\E e \in Envelopes : Submit(e)) =>
          child' = child
    BY DEF vars, RemoveStaleLock, Submit
  <2>8. QED
    BY <2>2, <2>3, <2>4, <2>5, <2>6, <2>7 DEF Next
<1>3. ASSUME NEW c \in Conversations, conversations'[c] # NoEnvelope
      PROVE  Recorded(conversations[c], c)'
  <2>1. \/ conversations[c] # NoEnvelope /\ conversations'[c] = conversations[c]
        \/ \E p \in Procs : /\ child[p].state = "running"
                            /\ child[p].job.conversation = c
                            /\ child[p].job.envelope = conversations'[c]
    <3>1. ASSUME NEW p \in Procs, SidecarJoins(p)
          PROVE  \/ conversations'[c] = conversations[c]
                 \/ /\ child[p].state = "running" /\ child[p].job.conversation = c
                    /\ child[p].job.envelope = conversations'[c]
      BY <1>0, <3>1 DEF DataTypes, SidecarJoins
    <3>2. ASSUME NEW p \in Procs, ~SidecarJoins(p),
                 Start(p) \/ Step(p) \/ Crash(p) \/ SidecarFails(p)
          PROVE  conversations' = conversations
      BY <3>2
      DEF Start, StartConsume, StartJoin, Step, Crash, SidecarFails, AcquireLock,
          LockUnavailable, Release, FreshConsume, RetryAck, NothingToDo, SelectWelcome,
          NoWelcome, PersistWelcome, WritePersisted, WriteAttempt, RunSidecar,
          JoinReported, JoinNotReported, WriteJoined, Ack, AckAnswerLost, WriteAcked,
          IOFailure, Return
    <3>3. UNCHANGED vars \/ RemoveStaleLock \/ (\E e \in Envelopes : Submit(e)) =>
            conversations' = conversations
      BY DEF vars, RemoveStaleLock, Submit
    <3>4. QED
      BY <1>3, <3>1, <3>2, <3>3 DEF Next
  <2>2. CASE conversations[c] # NoEnvelope /\ conversations'[c] = conversations[c]
    <3>1. PICK e \in Envelopes : e = conversations[c]
      BY <1>0, <2>2 DEF DataTypes
    <3>2. Recorded(e, c)
      BY <2>2, <3>1 DEF ConsumeInv
    <3>3. Recorded(e, c)'
      BY <3>2, RecordedLasts
    <3>4. QED
      BY <2>2, <3>1, <3>3 DEF Recorded
  <2>3. ASSUME NEW p \in Procs, child[p].state = "running",
               child[p].job.conversation = c,
               child[p].job.envelope = conversations'[c]
        PROVE  Recorded(conversations[c], c)'
    <3>1. PICK e \in Envelopes : e = child[p].job.envelope
      BY <1>0, <2>3, ChildArguments DEF DataTypes
    <3>2. Recorded(e, c)
      BY <2>3, <3>1 DEF ConsumeInv, NoChild
    <3>3. Recorded(e, c)'
      BY <3>2, RecordedLasts
    <3>4. QED
      BY <2>3, <3>1, <3>3 DEF Recorded
  <2>4. QED
    BY <2>1, <2>2, <2>3
<1>4. QED
  BY <1>1, <1>2, <1>3, NextEvidence DEF ConsumeInv, Recorded

LEMMA ConsumeInductive ==
  ASSUME Kinds = {"consume"}
  PROVE  Spec => []ConsumeInv
<1>1. Init => ConsumeInv
  BY DEF Init, ConsumeInv, EvidenceBeforeAck, NoCommand, NoChild
<1>2. IInv /\ ConsumeInv /\ [Next]_vars => ConsumeInv'
  BY NextConsume
<1>3. QED
  BY <1>1, <1>2, Inductive, PTL DEF Spec

\* welcome-consume alone never opens two conversations with one Welcome.
THEOREM WelcomeJoinsOnce ==
  ASSUME Kinds = {"consume"}
  PROVE  Spec => []JoinedOnce
<1>1. IInv /\ ConsumeInv => JoinedOnce
  BY DEF ConsumeInv, JoinedOnce, Recorded
<1>2. QED
  BY <1>1, Inductive, ConsumeInductive, PTL

\* welcome-consume alone acknowledges with the evidence of the join on disk.
THEOREM EvidencePrecedesAck ==
  ASSUME Kinds = {"consume"}
  PROVE  Spec => []EvidenceBeforeAck
<1>1. ConsumeInv => EvidenceBeforeAck
  BY DEF ConsumeInv
<1>2. QED
  BY <1>1, ConsumeInductive, PTL
===========================================================================
