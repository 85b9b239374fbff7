--------------------------- MODULE WelcomeConsume ---------------------------
(***************************************************************************)
(* A device joins conversations from the Welcome envelopes of its relay    *)
(* inbox.  Two commands do it: openmls-relay-welcome-consume-dev, which    *)
(* keeps a receipt per envelope under a lock, and openmls-relay-join-dev,  *)
(* which keeps none.  Both run the sidecar's conversation-join as a child  *)
(* process and acknowledge the envelope to the relay afterwards.  An       *)
(* action is one effect on a file, on the relay or on the child, so that   *)
(* a crash, a failure, a lost answer or another command can come between   *)
(* any two.                                                                *)
(*                                                                         *)
(*   relay          delivery state of each envelope at the relay           *)
(*   lock           the directory .welcome-consume-lock exists             *)
(*   artifact       the Welcome file of each receipt directory             *)
(*   receipt        the receipt.json of each receipt directory             *)
(*   conversations  the Welcome each conversation directory was joined by  *)
(*   child          the sidecar process of each command; it survives it    *)
(*   pc, cmd        position and arguments of each command                 *)
(*   mail, note     its memory: the selected envelope and the receipt      *)
(***************************************************************************)
CONSTANTS
  Procs,          \* the processes that run Comms commands
  Kinds,          \* the commands in use, of {"consume", "join"}
  Envelopes,      \* the Welcome envelopes addressed to this device
  Conversations,  \* the conversation labels
  Directories,    \* the receipt directories
  Directory,      \* the directory of an envelope: safeWelcomeReceiptID
  NoEnvelope, NoReceipt

ASSUME KindAssumption == Kinds \subseteq {"consume", "join"}
ASSUME DirectoryAssumption == Directory \in [Envelopes -> Directories]
ASSUME NoEnvelopeAssumption == NoEnvelope \notin Envelopes

VARIABLES relay, lock, artifact, receipt, conversations, child, pc, cmd, mail, note

memory == <<mail, note>>
vars == <<relay, lock, artifact, receipt, conversations, child, pc, cmd, memory>>

\* The receipt fields that decisions are taken on.
Receipt == [envelope : Envelopes, conversation : Conversations,
            attempted : BOOLEAN, joined : BOOLEAN, acked : BOOLEAN]

ASSUME NoReceiptAssumption == NoReceipt \notin Receipt

ConsumeCommand == [kind : {"consume"}, envelope : Envelopes, conversation : Conversations]
JoinCommand == [kind : {"join"}, conversation : Conversations, ack : BOOLEAN]
NoCommand == [kind |-> "none"]
Command == {NoCommand} \cup ConsumeCommand \cup JoinCommand

\* The child process: its arguments, and its exit status until the parent has
\* read it.
Job == [envelope : Envelopes, conversation : Conversations]
NoChild == [state |-> "none"]
Child == {NoChild} \cup [state : {"running", "joined", "failed"}, job : Job]

\* The positions between taking the lock and giving it back.
Active == {"check", "inbox", "persist", "receipt", "attempt", "join", "wait",
           "record", "ack", "record_ack", "release"}

HoldsLock(p) == pc[p] \in Active /\ cmd[p].kind = "consume"

-----------------------------------------------------------------------------
(* Helpers *)

Goto(p, label) == pc' = [pc EXCEPT ![p] = label]

\* The files and the relay, without the conversations.
records == <<relay, lock, artifact, receipt>>

\* validateExistingWelcomeConsumeReceipt
SameIdentity(r, c) == r.envelope = c.envelope /\ r.conversation = c.conversation

\* A return, with or without an error: the deferred release of the lock is next.
Return(p) ==
  /\ Goto(p, "release")
  /\ UNCHANGED <<conversations, child, cmd, memory>>
  /\ UNCHANGED records

\* The process is gone, and its memory with it.
Forget(p) ==
  /\ Goto(p, "idle")
  /\ cmd' = [cmd EXCEPT ![p] = NoCommand]
  /\ mail' = [mail EXCEPT ![p] = NoEnvelope]
  /\ note' = [note EXCEPT ![p] = NoReceipt]

\* writeWelcomeConsumeReceiptAtomic of the receipt in memory.
WriteReceipt(p, r) ==
  /\ receipt' = [receipt EXCEPT ![Directory[mail[p]]] = r]
  /\ note' = [note EXCEPT ![p] = r]

-----------------------------------------------------------------------------
Init ==
  /\ relay = [e \in Envelopes |-> "unsent"]
  /\ lock = FALSE
  /\ artifact = [d \in Directories |-> NoEnvelope]
  /\ receipt = [d \in Directories |-> NoReceipt]
  /\ conversations = [c \in Conversations |-> NoEnvelope]
  /\ child = [p \in Procs |-> NoChild]
  /\ pc = [p \in Procs |-> "idle"]
  /\ cmd = [p \in Procs |-> NoCommand]
  /\ mail = [p \in Procs |-> NoEnvelope]
  /\ note = [p \in Procs |-> NoReceipt]

\* The inviter submits a Welcome to the relay.
Submit(e) ==
  /\ relay[e] = "unsent"
  /\ relay' = [relay EXCEPT ![e] = "queued"]
  /\ UNCHANGED <<lock, artifact, receipt, conversations, child, pc, cmd, memory>>

-----------------------------------------------------------------------------
(* A command starts.  A process whose child still runs is not reused. *)

StartConsume(p, e, c) ==
  /\ "consume" \in Kinds
  /\ pc[p] = "idle" /\ child[p] = NoChild
  /\ cmd' = [cmd EXCEPT ![p] = [kind |-> "consume", envelope |-> e, conversation |-> c]]
  /\ Goto(p, "acquire")
  /\ UNCHANGED <<records, conversations, child, memory>>

StartJoin(p, c, ack) ==
  /\ "join" \in Kinds
  /\ pc[p] = "idle" /\ child[p] = NoChild
  /\ cmd' = [cmd EXCEPT ![p] = [kind |-> "join", conversation |-> c, ack |-> ack]]
  /\ Goto(p, "inbox")
  /\ UNCHANGED <<records, conversations, child, memory>>

\* Mutant: an existing lock directory is taken as one's own.
AcquireHeldLock(p) ==
  /\ pc[p] = "acquire"
  /\ lock' = TRUE
  /\ Goto(p, "check")
  /\ UNCHANGED <<relay, artifact, receipt, conversations, child, cmd, memory>>

AcquireLock(p) ==
  /\ pc[p] = "acquire"
  /\ ~lock
  /\ lock' = TRUE
  /\ Goto(p, "check")
  /\ UNCHANGED <<relay, artifact, receipt, conversations, child, cmd, memory>>

\* welcome_consume_lock_unavailable: one attempt, no retry.
LockUnavailable(p) ==
  /\ pc[p] = "acquire"
  /\ lock
  /\ Forget(p)
  /\ UNCHANGED <<records, conversations, child>>

Release(p) ==
  /\ pc[p] = "release"
  /\ lock' = IF cmd[p].kind = "consume" THEN FALSE ELSE lock
  /\ Forget(p)
  /\ UNCHANGED <<relay, artifact, receipt, conversations, child>>

-----------------------------------------------------------------------------
(* What an earlier attempt has left. *)

Dir(p) == Directory[cmd[p].envelope]

\* Mutant: what an earlier attempt has left is not looked at.
ConsumeAnew(p) ==
  /\ pc[p] = "check"
  /\ Goto(p, "inbox")
  /\ UNCHANGED <<records, conversations, child, cmd, memory>>

\* No artifact and no receipt: a first attempt.
FreshConsume(p) ==
  /\ pc[p] = "check"
  /\ receipt[Dir(p)] = NoReceipt
  /\ artifact[Dir(p)] = NoEnvelope
  /\ Goto(p, "inbox")
  /\ UNCHANGED <<records, conversations, child, cmd, memory>>

\* ack_retried_after_join
RetryAck(p) ==
  /\ pc[p] = "check"
  /\ LET r == receipt[Dir(p)] IN
       /\ r # NoReceipt
       /\ SameIdentity(r, cmd[p])
       /\ r.joined /\ ~r.acked
       /\ note' = [note EXCEPT ![p] = r]
  /\ mail' = [mail EXCEPT ![p] = cmd[p].envelope]
  /\ Goto(p, "ack")
  /\ UNCHANGED <<records, conversations, child, cmd>>

\* Mutant: every receipt counts as done.
AnyReceiptIsDone(p) ==
  /\ pc[p] = "check"
  /\ receipt[Dir(p)] # NoReceipt \/ artifact[Dir(p)] # NoEnvelope
  /\ Return(p)

\* An artifact without receipt, the receipt of another envelope or conversation,
\* a receipt that is not joined (all errors), or already_joined (a success).
NothingToDo(p) ==
  /\ pc[p] = "check"
  /\ LET r == receipt[Dir(p)] IN
       \/ r = NoReceipt /\ artifact[Dir(p)] # NoEnvelope
       \/ r # NoReceipt /\ (SameIdentity(r, cmd[p]) => ~r.joined \/ r.acked)
  /\ Return(p)

-----------------------------------------------------------------------------
(* Selection: the inbox holds the queued envelopes of this device. *)

\* The envelope with the given id, or the first of the inbox in relay order.
SelectWelcome(p) ==
  /\ pc[p] = "inbox"
  /\ \E e \in Envelopes :
       /\ relay[e] = "queued"
       /\ cmd[p].kind = "consume" => e = cmd[p].envelope
       /\ mail' = [mail EXCEPT ![p] = e]
  /\ Goto(p, IF cmd[p].kind = "consume" THEN "persist" ELSE "join")
  /\ UNCHANGED <<records, conversations, child, cmd, note>>

\* welcome_envelope_not_found, or an empty inbox.
NoWelcome(p) ==
  /\ pc[p] = "inbox"
  /\ \A e \in Envelopes :
       relay[e] = "queued" => cmd[p].kind = "consume" /\ e # cmd[p].envelope
  /\ Return(p)

\* Write a temporary artifact, hash it, rename it.
PersistWelcome(p) ==
  /\ pc[p] = "persist"
  /\ artifact' = [artifact EXCEPT ![Directory[mail[p]]] = mail[p]]
  /\ Goto(p, "receipt")
  /\ UNCHANGED <<relay, lock, receipt, conversations, child, cmd, memory>>

\* The receipt "welcome_persisted_before_join".
WritePersisted(p) ==
  /\ pc[p] = "receipt"
  /\ WriteReceipt(p, [envelope |-> mail[p], conversation |-> cmd[p].conversation,
                      attempted |-> FALSE, joined |-> FALSE, acked |-> FALSE])
  /\ Goto(p, "attempt")
  /\ UNCHANGED <<relay, lock, artifact, conversations, child, cmd, mail>>

\* JoinAttemptedAt
WriteAttempt(p) ==
  /\ pc[p] = "attempt"
  /\ WriteReceipt(p, [note[p] EXCEPT !.attempted = TRUE])
  /\ Goto(p, "join")
  /\ UNCHANGED <<relay, lock, artifact, conversations, child, cmd, mail>>

-----------------------------------------------------------------------------
(* The child process: conversation-join of the sidecar. *)

RunSidecar(p) ==
  /\ pc[p] = "join"
  /\ child' = [child EXCEPT ![p] =
                 [state |-> "running",
                  job |-> [envelope |-> mail[p], conversation |-> cmd[p].conversation]]]
  /\ Goto(p, "wait")
  /\ UNCHANGED <<records, conversations, cmd, memory>>

\* The exit of a child whose parent has died is read by nobody.
ChildExits(p, status) ==
  child' = [child EXCEPT ![p] =
              IF pc[p] = "wait" THEN [state |-> status, job |-> child[p].job] ELSE NoChild]

\* The staged state is renamed to the conversation directory, which must not
\* exist (a rename onto a directory with files fails too).
SidecarJoins(p) ==
  /\ child[p].state = "running"
  /\ conversations[child[p].job.conversation] = NoEnvelope
  /\ conversations' = [conversations EXCEPT ![child[p].job.conversation] =
                         child[p].job.envelope]
  /\ ChildExits(p, "joined")
  /\ UNCHANGED <<records, pc, cmd, memory>>

\* The conversation exists, the Welcome does not open, a write fails, or the
\* child dies before its rename.
SidecarFails(p) ==
  /\ child[p].state = "running"
  /\ ChildExits(p, "failed")
  /\ UNCHANGED <<records, conversations, pc, cmd, memory>>

\* Mutant: the exit status is not looked at.
ExitUnread(p) ==
  /\ pc[p] = "wait"
  /\ child[p].state \in {"joined", "failed"}
  /\ child' = [child EXCEPT ![p] = NoChild]
  /\ Goto(p, IF cmd[p].kind = "consume" THEN "record"
             ELSE IF cmd[p].ack THEN "ack" ELSE "release")
  /\ UNCHANGED <<records, conversations, cmd, memory>>

\* The JSON answer of the child, read to its end.
JoinReported(p) ==
  /\ pc[p] = "wait"
  /\ child[p].state = "joined"
  /\ child' = [child EXCEPT ![p] = NoChild]
  /\ Goto(p, IF cmd[p].kind = "consume" THEN "record"
             ELSE IF cmd[p].ack THEN "ack" ELSE "release")
  /\ UNCHANGED <<records, conversations, cmd, memory>>

\* Mutant: the acknowledgement is sent after a failed join, too.
AckAnyway(p) ==
  /\ pc[p] = "wait"
  /\ child[p].state \in {"joined", "failed"}
  /\ child' = [child EXCEPT ![p] = NoChild]
  /\ Goto(p, "ack")
  /\ UNCHANGED <<records, conversations, cmd, memory>>

\* An error answer, or one that does not parse although the child has joined.
JoinNotReported(p) ==
  /\ pc[p] = "wait"
  /\ child[p].state \in {"joined", "failed"}
  /\ child' = [child EXCEPT ![p] = NoChild]
  /\ Goto(p, "release")
  /\ UNCHANGED <<records, conversations, cmd, memory>>

\* The receipt "joined_receipt_persisted_before_ack".
WriteJoined(p) ==
  /\ pc[p] = "record"
  /\ WriteReceipt(p, [note[p] EXCEPT !.joined = TRUE])
  /\ Goto(p, "ack")
  /\ UNCHANGED <<relay, lock, artifact, conversations, child, cmd, mail>>

-----------------------------------------------------------------------------
(* The acknowledgement *)

\* The relay has taken the acknowledgement (of a queued or an acknowledged
\* envelope) and its answer arrives.
Ack(p) ==
  /\ pc[p] = "ack"
  /\ relay' = [relay EXCEPT ![mail[p]] = "acknowledged"]
  /\ Goto(p, IF cmd[p].kind = "consume" THEN "record_ack" ELSE "release")
  /\ UNCHANGED <<lock, artifact, receipt, conversations, child, cmd, memory>>

\* The relay has taken it, the answer is lost: the command fails.
AckAnswerLost(p) ==
  /\ pc[p] = "ack"
  /\ relay' = [relay EXCEPT ![mail[p]] = "acknowledged"]
  /\ Goto(p, "release")
  /\ UNCHANGED <<lock, artifact, receipt, conversations, child, cmd, memory>>

\* The receipt "joined_and_acked" or "ack_retried_after_join".
WriteAcked(p) ==
  /\ pc[p] = "record_ack"
  /\ WriteReceipt(p, [note[p] EXCEPT !.acked = TRUE])
  /\ Goto(p, "release")
  /\ UNCHANGED <<relay, lock, artifact, conversations, child, cmd, mail>>

-----------------------------------------------------------------------------
(* Failures *)

\* A read, a write or a request fails: the command returns an error and undoes
\* nothing.
IOFailure(p) ==
  /\ pc[p] \in Active \ {"wait", "release"}
  /\ Return(p)

\* The process dies: no deferred call runs, the lock directory stays, and a
\* running child goes on.
Crash(p) ==
  /\ pc[p] # "idle"
  /\ Forget(p)
  /\ child' = [child EXCEPT ![p] = IF child[p].state = "running" THEN child[p] ELSE NoChild]
  /\ UNCHANGED <<records, conversations>>

\* No code removes a stale lock; an operator does, with no consume running.
RemoveStaleLock ==
  /\ lock
  /\ \A p \in Procs : ~HoldsLock(p)
  /\ lock' = FALSE
  /\ UNCHANGED <<relay, artifact, receipt, conversations, child, pc, cmd, memory>>

-----------------------------------------------------------------------------
Step(p) ==
  \/ AcquireLock(p) \/ LockUnavailable(p) \/ Release(p)
  \/ FreshConsume(p) \/ RetryAck(p) \/ NothingToDo(p)
  \/ SelectWelcome(p) \/ NoWelcome(p) \/ PersistWelcome(p)
  \/ WritePersisted(p) \/ WriteAttempt(p)
  \/ RunSidecar(p) \/ JoinReported(p) \/ JoinNotReported(p) \/ WriteJoined(p)
  \/ Ack(p) \/ AckAnswerLost(p) \/ WriteAcked(p)
  \/ IOFailure(p)

Start(p) ==
  \/ \E e \in Envelopes, c \in Conversations : StartConsume(p, e, c)
  \/ \E c \in Conversations, ack \in BOOLEAN : StartJoin(p, c, ack)

Next ==
  \/ \E e \in Envelopes : Submit(e)
  \/ \E p \in Procs : Start(p) \/ Step(p) \/ Crash(p) \/ SidecarJoins(p) \/ SidecarFails(p)
  \/ RemoveStaleLock

Spec == Init /\ [][Next]_vars

\* Something goes wrong: a step that no regular one explains.
Failure(p) ==
  /\ IOFailure(p) \/ AckAnswerLost(p) \/ Crash(p)
  /\ ~(NothingToDo(p) \/ NoWelcome(p) \/ LockUnavailable(p) \/ Release(p) \/ Ack(p))

\* Processes and children run on.  The operator repeats each consume, removes a
\* stale lock, and failures stop at some time.
FairSpec ==
  /\ Spec
  /\ \A p \in Procs : WF_vars(Step(p)) /\ WF_vars(SidecarJoins(p) \/ SidecarFails(p))
  /\ \A p \in Procs, e \in Envelopes, c \in Conversations : SF_vars(StartConsume(p, e, c))
  /\ WF_vars(RemoveStaleLock)
  /\ <>[][\A p \in Procs : ~Failure(p)]_vars

-----------------------------------------------------------------------------
(* Properties *)

\* The positions of consume alone, and those at which an envelope is selected.
ConsumeOnly == {"acquire", "check", "persist", "receipt", "attempt", "record", "record_ack"}
Selected == {"persist", "receipt", "attempt", "join", "wait", "record", "ack", "record_ack"}
Noted == {"attempt", "join", "wait", "record", "ack", "record_ack"}

PositionOK(p) ==
  /\ pc[p] = "idle" <=> cmd[p] = NoCommand
  /\ pc[p] \in ConsumeOnly => cmd[p].kind = "consume"
  /\ pc[p] \in Selected => mail[p] \in Envelopes
  /\ pc[p] \in Noted /\ cmd[p].kind = "consume" => note[p] \in Receipt
  /\ pc[p] = "wait" => child[p] # NoChild
  /\ child[p].state \in {"joined", "failed"} => pc[p] = "wait"

\* The variables range over what the files, the relay and the memory can hold.
TypeOK ==
  /\ relay \in [Envelopes -> {"unsent", "queued", "acknowledged"}]
  /\ lock \in BOOLEAN
  /\ artifact \in [Directories -> Envelopes \cup {NoEnvelope}]
  /\ receipt \in [Directories -> Receipt \cup {NoReceipt}]
  /\ conversations \in [Conversations -> Envelopes \cup {NoEnvelope}]
  /\ child \in [Procs -> Child]
  /\ pc \in [Procs -> {"idle", "acquire"} \cup Active]
  /\ cmd \in [Procs -> Command]
  /\ mail \in [Procs -> Envelopes \cup {NoEnvelope}]
  /\ note \in [Procs -> Receipt \cup {NoReceipt}]
  /\ \A p \in Procs : PositionOK(p)

\* A receipt on disk says nothing that is not so, whatever crashed between the
\* join, the acknowledgement and the writes about them, and although envelopes
\* may share a directory: its artifact is the Welcome it names, "joined" means
\* that its conversation was joined by that Welcome, "acked" that the relay has it.
ReceiptTrue(r, d) ==
  /\ Directory[r.envelope] = d
  /\ artifact[d] = r.envelope
  /\ r.joined => conversations[r.conversation] = r.envelope
  /\ r.acked => r.joined /\ relay[r.envelope] = "acknowledged"

ReceiptsTruthful ==
  \A d \in Directories : receipt[d] # NoReceipt => ReceiptTrue(receipt[d], d)

\* No later attempt, of this command or of another one, overwrites what a
\* receipt has established.
Advances(old, new) ==
  /\ new # NoReceipt
  /\ new.envelope = old.envelope /\ new.conversation = old.conversation
  /\ old.joined => new.joined
  /\ old.acked => new.acked

ReceiptsAdvance ==
  [][\A d \in Directories :
       receipt[d] # NoReceipt => Advances(receipt[d], receipt'[d])]_vars

\* "Welcome ack may occur only after sidecar conversation-join succeeds": both
\* commands, their children and the relay together implement RelayDelivery.
Processed == {e \in Envelopes : \E c \in Conversations : conversations[c] = e}

Delivery == INSTANCE RelayDelivery WITH
  processed <- Processed,
  acknowledged <- {e \in Envelopes : relay[e] = "acknowledged"}

ImplementsDelivery == Delivery!Spec

\* welcome-consume alone: a Welcome never opens two conversations, however often
\* its consume is retried, with whatever labels, after whatever crash.
JoinedOnce ==
  \A c, d \in Conversations :
    conversations[c] = conversations[d] /\ conversations[c] # NoEnvelope => c = d

\* welcome-consume alone, "joined_evidence_before_ack": an acknowledged Welcome
\* has a receipt on disk that says it was joined.
EvidenceBeforeAck ==
  \A e \in Envelopes :
    relay[e] = "acknowledged" =>
      /\ receipt[Directory[e]] # NoReceipt
      /\ receipt[Directory[e]].envelope = e
      /\ receipt[Directory[e]].joined

\* ack_retried_after_join: once a receipt says joined, repeating the command
\* brings it to acked, past crashes, stale locks and lost answers.
JoinedGetsAcked ==
  \A d \in Directories :
    receipt[d] # NoReceipt /\ receipt[d].joined
      ~> receipt[d] # NoReceipt /\ receipt[d].acked

-----------------------------------------------------------------------------
(* The inductive invariant *)

\* One consume at a time, and the lock is there while it runs.
LockExclusive ==
  /\ \A p \in Procs : HoldsLock(p) => lock
  /\ \A p, q \in Procs : HoldsLock(p) /\ HoldsLock(q) => p = q

\* What the memory of a consume says about its directory.
ConsumeMemory(p) ==
  cmd[p].kind = "consume" =>
    /\ pc[p] \in Selected => mail[p] = cmd[p].envelope
    /\ pc[p] \in {"inbox", "persist"} => artifact[Dir(p)] = NoEnvelope
    /\ pc[p] \in {"inbox", "persist", "receipt"} => receipt[Dir(p)] = NoReceipt
    /\ pc[p] = "receipt" => artifact[Dir(p)] = mail[p]
    /\ pc[p] \in Noted => receipt[Dir(p)] = note[p] /\ SameIdentity(note[p], cmd[p])
    /\ pc[p] \in Noted \ {"ack", "record_ack"} => ~note[p].joined /\ ~note[p].acked
    /\ pc[p] \in {"ack", "record_ack"} => note[p].joined

\* What a command knows about its join and its acknowledgement.
JoinMemory(p) ==
  /\ pc[p] = "wait" =>
       child[p].job = [envelope |-> mail[p], conversation |-> cmd[p].conversation]
  /\ child[p].state = "joined" =>
       conversations[child[p].job.conversation] = child[p].job.envelope
  /\ pc[p] \in {"record", "ack", "record_ack"} =>
       conversations[cmd[p].conversation] = mail[p]
  /\ pc[p] = "record_ack" => relay[mail[p]] = "acknowledged"

AckedAreJoined == \A e \in Envelopes : relay[e] = "acknowledged" => e \in Processed

IInv ==
  /\ TypeOK
  /\ LockExclusive
  /\ ReceiptsTruthful
  /\ AckedAreJoined
  /\ \A p \in Procs : ConsumeMemory(p) /\ JoinMemory(p)
=============================================================================
