------------------------- MODULE KeyPackageConsume -------------------------
(***************************************************************************)
(* openmls-relay-keypackage-consume-dev: a KeyPackage envelope of the      *)
(* relay inbox becomes a file with a receipt, and is then acknowledged,    *)
(* under a lock directory that a crash leaves behind.  An action is one    *)
(* effect on a file or on the relay.                                       *)
(*                                                                         *)
(*   relay      delivery state of each envelope at the relay               *)
(*   lock       the directory .keypackage-consume-lock exists              *)
(*   artifact   the keypackage.bin of each receipt directory               *)
(*   receipt    the receipt.json of each receipt directory                 *)
(*   pc, cmd    position and arguments of each command                     *)
(*   note       the receipt a command has in memory                        *)
(***************************************************************************)
CONSTANTS
  Procs, Envelopes,
  Directories,  \* the receipt directories
  Directory,    \* the directory of an envelope: safeKeyPackageReceiptID
  NoEnvelope, NoReceipt

VARIABLES relay, lock, artifact, receipt, pc, cmd, note

files == <<lock, artifact, receipt>>
vars == <<relay, files, pc, cmd, note>>

\* The receipt fields that decisions are taken on.
Receipt == [envelope : Envelopes, acked : BOOLEAN]

\* The envelope, and whether the payload hash the operator expects is the right one.
Command == [envelope : Envelopes, expected : BOOLEAN]
NoCommand == [envelope |-> NoEnvelope]

ASSUME ConsumeAssumption ==
  /\ Directory \in [Envelopes -> Directories]
  /\ NoEnvelope \notin Envelopes
  /\ NoReceipt \notin Receipt

Active == {"check", "inbox", "persist", "receipt", "ack", "record_ack", "release"}

-----------------------------------------------------------------------------
Goto(p, label) == pc' = [pc EXCEPT ![p] = label]

Forget(p) ==
  /\ Goto(p, "idle")
  /\ cmd' = [cmd EXCEPT ![p] = NoCommand]
  /\ note' = [note EXCEPT ![p] = NoReceipt]

Dir(p) == Directory[cmd[p].envelope]

Init ==
  /\ relay = [e \in Envelopes |-> "unsent"]
  /\ lock = FALSE
  /\ artifact = [d \in Directories |-> NoEnvelope]
  /\ receipt = [d \in Directories |-> NoReceipt]
  /\ pc = [p \in Procs |-> "idle"]
  /\ cmd = [p \in Procs |-> NoCommand]
  /\ note = [p \in Procs |-> NoReceipt]

\* Another device submits a KeyPackage to this one.
Submit(e) ==
  /\ relay[e] = "unsent"
  /\ relay' = [relay EXCEPT ![e] = "queued"]
  /\ UNCHANGED <<files, pc, cmd, note>>

Start(p, c) ==
  /\ pc[p] = "idle"
  /\ cmd' = [cmd EXCEPT ![p] = c]
  /\ Goto(p, "acquire")
  /\ UNCHANGED <<relay, files, note>>

AcquireLock(p) ==
  /\ pc[p] = "acquire"
  /\ ~lock
  /\ lock' = TRUE
  /\ Goto(p, "check")
  /\ UNCHANGED <<relay, artifact, receipt, cmd, note>>

\* keypackage_consume_lock_unavailable: one attempt, no retry.
LockUnavailable(p) ==
  /\ pc[p] = "acquire"
  /\ lock
  /\ Forget(p)
  /\ UNCHANGED <<relay, files>>

Release(p) ==
  /\ pc[p] = "release"
  /\ lock' = FALSE
  /\ Forget(p)
  /\ UNCHANGED <<relay, artifact, receipt>>

-----------------------------------------------------------------------------
(* What an earlier attempt has left *)

\* Mutant: an artifact without receipt is taken for no attempt at all.
FreshUnlessReceipt(p) ==
  /\ pc[p] = "check"
  /\ receipt[Dir(p)] = NoReceipt
  /\ Goto(p, "inbox")
  /\ UNCHANGED <<relay, files, cmd, note>>

FreshConsume(p) ==
  /\ pc[p] = "check"
  /\ receipt[Dir(p)] = NoReceipt
  /\ artifact[Dir(p)] = NoEnvelope
  /\ Goto(p, "inbox")
  /\ UNCHANGED <<relay, files, cmd, note>>

\* Mutants: the receipt's envelope is not compared; a receipt is as good as an
\* acknowledgement; the envelope must still be in the inbox.
RetryAckUnchecked(p) ==
  /\ pc[p] = "check"
  /\ receipt[Dir(p)] # NoReceipt
  /\ ~receipt[Dir(p)].acked
  /\ note' = [note EXCEPT ![p] = receipt[Dir(p)]]
  /\ Goto(p, "ack")
  /\ UNCHANGED <<relay, files, cmd>>

RetryRecord(p) ==
  /\ pc[p] = "check"
  /\ receipt[Dir(p)] # NoReceipt
  /\ receipt[Dir(p)].envelope = cmd[p].envelope /\ cmd[p].expected
  /\ ~receipt[Dir(p)].acked
  /\ note' = [note EXCEPT ![p] = receipt[Dir(p)]]
  /\ Goto(p, "record_ack")
  /\ UNCHANGED <<relay, files, cmd>>

RetryAckQueued(p) ==
  /\ pc[p] = "check"
  /\ receipt[Dir(p)] # NoReceipt
  /\ receipt[Dir(p)].envelope = cmd[p].envelope /\ cmd[p].expected
  /\ ~receipt[Dir(p)].acked
  /\ relay[cmd[p].envelope] = "queued"
  /\ note' = [note EXCEPT ![p] = receipt[Dir(p)]]
  /\ Goto(p, "ack")
  /\ UNCHANGED <<relay, files, cmd>>

\* validateExistingKeyPackageConsumeReceipt, then the acknowledgement again.
RetryAck(p) ==
  /\ pc[p] = "check"
  /\ receipt[Dir(p)] # NoReceipt
  /\ receipt[Dir(p)].envelope = cmd[p].envelope /\ cmd[p].expected
  /\ ~receipt[Dir(p)].acked
  /\ note' = [note EXCEPT ![p] = receipt[Dir(p)]]
  /\ Goto(p, "ack")
  /\ UNCHANGED <<relay, files, cmd>>

\* incomplete_local_consume and local_receipt_conflict, which are errors, or
\* already_consumed, a success.
NothingToDo(p) ==
  /\ pc[p] = "check"
  /\ LET r == receipt[Dir(p)] IN
       \/ r = NoReceipt /\ artifact[Dir(p)] # NoEnvelope
       \/ r # NoReceipt /\ (r.envelope # cmd[p].envelope \/ ~cmd[p].expected \/ r.acked)
  /\ Goto(p, "release")
  /\ UNCHANGED <<relay, files, cmd, note>>

-----------------------------------------------------------------------------
(* A first consume *)

SelectKeyPackage(p) ==
  /\ pc[p] = "inbox"
  /\ relay[cmd[p].envelope] = "queued"
  /\ Goto(p, "persist")
  /\ UNCHANGED <<relay, files, cmd, note>>

\* envelope_not_found
NoKeyPackage(p) ==
  /\ pc[p] = "inbox"
  /\ relay[cmd[p].envelope] # "queued"
  /\ Goto(p, "release")
  /\ UNCHANGED <<relay, files, cmd, note>>

\* A temporary artifact is written and hashed, and renamed if it is as expected.
PersistKeyPackage(p) ==
  /\ pc[p] = "persist"
  /\ IF cmd[p].expected
     THEN /\ artifact' = [artifact EXCEPT ![Dir(p)] = cmd[p].envelope]
          /\ Goto(p, "receipt")
     ELSE Goto(p, "release") /\ UNCHANGED artifact
  /\ UNCHANGED <<relay, lock, receipt, cmd, note>>

\* writeKeyPackageConsumeReceiptAtomic of r, by rename.
WriteReceipt(p, r) ==
  /\ receipt' = [receipt EXCEPT ![Dir(p)] = r]
  /\ note' = [note EXCEPT ![p] = r]
  /\ UNCHANGED <<relay, lock, artifact, cmd>>

\* The receipt "consumed_and_receipt_persisted_before_ack".
WriteConsumed(p) ==
  /\ pc[p] = "receipt"
  /\ WriteReceipt(p, [envelope |-> cmd[p].envelope, acked |-> FALSE])
  /\ Goto(p, "ack")

\* The relay takes the acknowledgement, of a queued or an acknowledged envelope;
\* when its answer is lost the command fails.
Ack(p, answered) ==
  /\ pc[p] = "ack"
  /\ relay' = [relay EXCEPT ![cmd[p].envelope] = "acknowledged"]
  /\ Goto(p, IF answered THEN "record_ack" ELSE "release")
  /\ UNCHANGED <<files, cmd, note>>

\* The receipt "consumed_and_acked" or "ack_retried_after_persisted_receipt".
WriteAcked(p) ==
  /\ pc[p] = "record_ack"
  /\ WriteReceipt(p, [note[p] EXCEPT !.acked = TRUE])
  /\ Goto(p, "release")

-----------------------------------------------------------------------------
\* A read, a write or a request fails: the command returns an error and undoes
\* nothing.
IOFailure(p) ==
  /\ pc[p] \in Active \ {"release"}
  /\ Goto(p, "release")
  /\ UNCHANGED <<relay, files, cmd, note>>

\* The process dies, and the lock directory stays.
Crash(p) ==
  /\ pc[p] # "idle"
  /\ Forget(p)
  /\ UNCHANGED <<relay, files>>

\* No code removes a stale lock; an operator does, with no consume running.
RemoveStaleLock ==
  /\ lock
  /\ \A p \in Procs : pc[p] \notin Active
  /\ lock' = FALSE
  /\ UNCHANGED <<relay, artifact, receipt, pc, cmd, note>>

Step(p) ==
  \/ AcquireLock(p) \/ LockUnavailable(p) \/ Release(p)
  \/ FreshConsume(p) \/ RetryAck(p) \/ NothingToDo(p)
  \/ SelectKeyPackage(p) \/ NoKeyPackage(p) \/ PersistKeyPackage(p)
  \/ WriteConsumed(p) \/ Ack(p, TRUE) \/ WriteAcked(p)

Failure(p) == Ack(p, FALSE) \/ IOFailure(p) \/ Crash(p)

Next ==
  \/ \E e \in Envelopes : Submit(e)
  \/ \E p \in Procs : Step(p) \/ Failure(p) \/ \E c \in Command : Start(p, c)
  \/ RemoveStaleLock

Spec == Init /\ [][Next]_vars

\* No command runs.
Alone == \A p \in Procs : pc[p] = "idle"

\* Processes run on.  The operator repeats each consume and removes a stale lock.
\* At some time failures stop, and so do commands beside each other: one that finds
\* the lock taken does not try again, and another command may always hold it.
FairSpec ==
  /\ Spec
  /\ \A p \in Procs : WF_vars(Step(p))
  /\ \A p \in Procs, e \in Envelopes :
       SF_vars(Alone /\ Start(p, [envelope |-> e, expected |-> TRUE]))
  /\ WF_vars(RemoveStaleLock)
  /\ <>[][\A p \in Procs : /\ Failure(p) => Step(p)
                           /\ (\E c \in Command : Start(p, c)) => Alone]_vars

-----------------------------------------------------------------------------
(* Properties *)

TypeOK ==
  /\ relay \in [Envelopes -> {"unsent", "queued", "acknowledged"}]
  /\ lock \in BOOLEAN
  /\ artifact \in [Directories -> Envelopes \cup {NoEnvelope}]
  /\ receipt \in [Directories -> Receipt \cup {NoReceipt}]
  /\ pc \in [Procs -> {"idle", "acquire"} \cup Active]
  /\ cmd \in [Procs -> Command \cup {NoCommand}]
  /\ note \in [Procs -> Receipt \cup {NoReceipt}]

\* A receipt on disk is true, whatever crashed before: its artifact is the
\* KeyPackage it names, and "acked" means that the relay has acknowledged it.
ReceiptTrue(r, d) ==
  /\ Directory[r.envelope] = d
  /\ artifact[d] = r.envelope
  /\ r.acked => relay[r.envelope] = "acknowledged"

ReceiptsTruthful ==
  \A d \in Directories : receipt[d] # NoReceipt => ReceiptTrue(receipt[d], d)

\* No later consume, of this envelope or of one that shares its directory,
\* replaces a KeyPackage file, or takes a receipt back.
ConsumedStays ==
  [][\A d \in Directories :
       /\ artifact[d] # NoEnvelope => artifact'[d] = artifact[d]
       /\ receipt[d] # NoReceipt =>
            /\ receipt'[d] # NoReceipt
            /\ receipt'[d].envelope = receipt[d].envelope
            /\ receipt[d].acked => receipt'[d].acked]_vars

\* "consumed_and_receipt_persisted_before_ack": the command implements
\* RelayDelivery, where an envelope is processed when its file and its receipt
\* are on disk.
Persisted ==
  {e \in Envelopes : artifact[Directory[e]] = e /\ receipt[Directory[e]] # NoReceipt}

Delivery == INSTANCE RelayDelivery WITH
  processed <- Persisted,
  acknowledged <- {e \in Envelopes : relay[e] = "acknowledged"}

ImplementsDelivery == Delivery!Spec

\* A persisted receipt is acknowledged in the end, past crashes, stale locks and
\* lost answers, when the consume is repeated.
ReceiptGetsAcked ==
  \A d \in Directories :
    receipt[d] # NoReceipt ~> receipt[d] # NoReceipt /\ receipt[d].acked

-----------------------------------------------------------------------------
(* The inductive invariant *)

LockExclusive ==
  /\ \A p \in Procs : pc[p] \in Active => lock
  /\ \A p, q \in Procs : pc[p] \in Active /\ pc[q] \in Active => p = q

\* What the position of a command says about its directory and its memory.
Position(p) ==
  /\ pc[p] = "idle" <=> cmd[p] = NoCommand
  /\ pc[p] \in {"inbox", "persist"} => artifact[Dir(p)] = NoEnvelope
  /\ pc[p] \in {"inbox", "persist", "receipt"} => receipt[Dir(p)] = NoReceipt
  /\ pc[p] = "receipt" => artifact[Dir(p)] = cmd[p].envelope
  /\ pc[p] \in {"ack", "record_ack"} =>
       /\ note[p] \in Receipt
       /\ receipt[Dir(p)] = note[p]
       /\ note[p].envelope = cmd[p].envelope
  /\ pc[p] = "record_ack" => relay[cmd[p].envelope] = "acknowledged"

AckedArePersisted == \A e \in Envelopes : relay[e] = "acknowledged" => e \in Persisted

IInv ==
  /\ TypeOK
  /\ LockExclusive
  /\ ReceiptsTruthful
  /\ AckedArePersisted
  /\ \A p \in Procs : Position(p)
=============================================================================
