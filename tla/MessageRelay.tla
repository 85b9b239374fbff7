---------------------------- MODULE MessageRelay ----------------------------
(***************************************************************************)
(* Application messages from one device to another: openmls-send-dev and   *)
(* message-send-dev, openmls-inbox-dev and message-inbox-dev.  A send      *)
(* protects a message with the sidecar and submits the artifact it is told *)
(* of.  An inbox command takes the queued envelopes once, and in a loop    *)
(* opens up to a limit of them with the sidecar, acknowledges each and     *)
(* prints its plaintext.  A sidecar call loads the ratchet of its device   *)
(* from the provider storage of the conversation, uses up a key, empties   *)
(* the file and writes it whole; no call takes a lock.  An action is one   *)
(* effect on a file, or one request.                                       *)
(*                                                                         *)
(*   relay     delivery state of each envelope at the relay                *)
(*   content   what each envelope carries                                  *)
(*   artifact  the message directory of each label at the sender: absent,  *)
(*             empty, or the message in it                                 *)
(*   storage   the provider storage of the sender ("send") and of the      *)
(*             receiver ("inbox"): torn, or the keys the ratchet has used  *)
(*   pc, cmd   position and arguments of each command                      *)
(*   memory    the ratchet in the memory of its sidecar call               *)
(*   rest, at  the envelopes an inbox has yet to visit, and the visited    *)
(*   count     how many it has opened                                      *)
(*                                                                         *)
(* and, to state properties,                                               *)
(*                                                                         *)
(*   opened      the envelopes whose message-open has answered             *)
(*   shown       the keys of the messages that have been printed           *)
(*   overlapped  the storages that two calls have worked on at a time      *)
(***************************************************************************)
EXTENDS Naturals

CONSTANTS
  Procs,
  Labels,     \* the message labels that senders choose
  MaxSent,    \* messages that a sender can protect (bounds the model)
  Envelopes,  \* envelopes that can be posted (bounds the model)
  Limits,     \* the values of --limit
  Absent,     \* no message directory
  Empty,      \* a message directory without a message
  Torn,       \* a file that was emptied, or written by two at a time
  Nothing

VARIABLES relay, content, artifact, storage, pc, cmd, memory, rest, at, count,
          opened, shown, overlapped

posts == <<relay, content>>
loop == <<rest, at, count>>
ghosts == <<opened, shown, overlapped>>
vars == <<posts, artifact, storage, pc, cmd, memory, loop, ghosts>>

Keys == 1..MaxSent

\* A message is known by the label it was sent under and the ratchet key it is
\* protected with.
Message == [label : Labels, key : Keys]

\* Another content type; a wrong payload hash or size; not of this group.
Other == [fault : {"unsupported", "corrupt", "foreign"}]

SendCommand == [kind : {"send"}, label : Labels]
InboxCommand == [kind : {"inbox"}, limit : Limits, ack : BOOLEAN]
NoCommand == [kind |-> "none"]

ASSUME MessageAssumption ==
  /\ MaxSent \in Nat
  /\ Limits \subseteq Nat \ {0}
  /\ Absent # Empty /\ {Absent, Empty} \cap Message = {}
  /\ \A used \in SUBSET Keys : Torn # used
  /\ Nothing \notin Envelopes \cup Message \cup Other

-----------------------------------------------------------------------------
Goto(p, label) == pc' = [pc EXCEPT ![p] = label]

Forget(p) ==
  /\ Goto(p, "idle")
  /\ cmd' = [cmd EXCEPT ![p] = NoCommand]
  /\ memory' = [memory EXCEPT ![p] = {}]
  /\ rest' = [rest EXCEPT ![p] = {}]
  /\ at' = [at EXCEPT ![p] = Nothing]
  /\ count' = [count EXCEPT ![p] = 0]

\* The loop goes on to the next envelope.
Continue(p) ==
  /\ Goto(p, "next")
  /\ at' = [at EXCEPT ![p] = Nothing]
  /\ memory' = [memory EXCEPT ![p] = {}]
  /\ UNCHANGED <<cmd, rest>>

Init ==
  /\ relay = [e \in Envelopes |-> "unsent"]
  /\ content = [e \in Envelopes |-> Nothing]
  /\ artifact = [l \in Labels |-> Absent]
  /\ storage = [kind \in {"send", "inbox"} |-> {}]
  /\ pc = [p \in Procs |-> "idle"]
  /\ cmd = [p \in Procs |-> NoCommand]
  /\ memory = [p \in Procs |-> {}]
  /\ rest = [p \in Procs |-> {}]
  /\ at = [p \in Procs |-> Nothing]
  /\ count = [p \in Procs |-> 0]
  /\ opened = {} /\ shown = {} /\ overlapped = {}

\* A POST of an envelope: the relay queues it, whether its answer arrives or not.
Post(e, c) ==
  /\ relay[e] = "unsent"
  /\ relay' = [relay EXCEPT ![e] = "queued"]
  /\ content' = [content EXCEPT ![e] = c]

\* Envelopes of other kinds, conversations or clients.
Deliver(e, c) ==
  /\ Post(e, c)
  /\ UNCHANGED <<artifact, storage, pc, cmd, memory, loop, ghosts>>

-----------------------------------------------------------------------------
(* The sidecar calls of both commands, from the save of the provider storage *)

\* A sidecar call is between its first look at the files and its answer.
InCall(p) == pc[p] \in {"reserve", "load", "artifact", "truncate", "save", "reload"}

\* A call of p begins; it overlaps another one on the same storage.
Begins(p) ==
  overlapped' = IF \E q \in Procs \ {p} : InCall(q) /\ cmd[q].kind = cmd[p].kind
                THEN overlapped \cup {cmd[p].kind} ELSE overlapped

\* save_storage_to_path: the file is emptied, and then written.
Truncate(p) ==
  /\ pc[p] = "truncate"
  /\ storage' = [storage EXCEPT ![cmd[p].kind] = Torn]
  /\ Goto(p, "save")
  /\ UNCHANGED <<posts, artifact, cmd, memory, loop, ghosts>>

\* Two calls that write at a time may leave a text that does not parse.
Save(p) ==
  /\ pc[p] = "save"
  /\ \E text \in IF storage[cmd[p].kind] = Torn THEN {memory[p]} ELSE {memory[p], Torn} :
       storage' = [storage EXCEPT ![cmd[p].kind] = text]
  /\ Goto(p, "reload")
  /\ UNCHANGED <<posts, artifact, cmd, memory, loop, ghosts>>

\* The storage is read back, and the call answers.
Reload(p) ==
  /\ pc[p] = "reload"
  /\ storage[cmd[p].kind] # Torn
  /\ Goto(p, "report")
  /\ UNCHANGED <<posts, artifact, storage, cmd, memory, loop, ghosts>>

-----------------------------------------------------------------------------
(* Send *)

StartSend(p, l) ==
  /\ pc[p] = "idle"
  /\ cmd' = [cmd EXCEPT ![p] = [kind |-> "send", label |-> l]]
  /\ Goto(p, "trust")
  /\ UNCHANGED <<posts, artifact, storage, memory, loop, ghosts>>

\* trust.EvaluateSend, whose decision is that of TrustStore.
TrustAllows(p) ==
  /\ pc[p] = "trust"
  /\ Goto(p, "protect")
  /\ UNCHANGED <<posts, artifact, storage, cmd, memory, loop, ghosts>>

\* Mutant: a label in use is used again.
ReuseLabel(p) ==
  /\ pc[p] = "protect"
  /\ Begins(p)
  /\ Goto(p, "reserve")
  /\ UNCHANGED <<posts, artifact, storage, cmd, memory, loop, opened, shown>>

\* message-protect refuses a label whose message directory exists.
CheckLabel(p) ==
  /\ pc[p] = "protect"
  /\ artifact[cmd[p].label] = Absent
  /\ Begins(p)
  /\ Goto(p, "reserve")
  /\ UNCHANGED <<posts, artifact, storage, cmd, memory, loop, opened, shown>>

\* create_dir_all, which accepts a directory that another call has just made.
Reserve(p) ==
  /\ pc[p] = "reserve"
  /\ artifact' = [artifact EXCEPT ![cmd[p].label] = IF @ = Absent THEN Empty ELSE @]
  /\ Goto(p, "load")
  /\ UNCHANGED <<posts, storage, cmd, memory, loop, ghosts>>

\* The message is protected with the next key of the ratchet.
Protect(p) ==
  /\ pc[p] = "load"
  /\ \E k \in Keys : storage["send"] = 1..(k - 1) /\ memory' = [memory EXCEPT ![p] = 1..k]
  /\ Goto(p, "artifact")
  /\ UNCHANGED <<posts, artifact, storage, cmd, loop, ghosts>>

WriteMessage(p) ==
  /\ pc[p] = "artifact"
  /\ \E k \in Keys :
       /\ memory[p] = 1..k
       /\ artifact' = [artifact EXCEPT ![cmd[p].label] = [label |-> cmd[p].label, key |-> k]]
  /\ Goto(p, "truncate")
  /\ UNCHANGED <<posts, storage, cmd, memory, loop, ghosts>>

Protected(p) ==
  /\ pc[p] = "report" /\ cmd[p].kind = "send"
  /\ Goto(p, "submit")
  /\ UNCHANGED <<posts, artifact, storage, cmd, memory, loop, ghosts>>

\* The artifact is read and posted.
Submit(p, e) ==
  /\ pc[p] = "submit"
  /\ Post(e, artifact[cmd[p].label])
  /\ Forget(p)
  /\ UNCHANGED <<artifact, storage, ghosts>>

\* Blocked by trust; the label is in use; a file is torn; a write, the sidecar or a
\* request fails; an answer is lost.
SendFails(p) ==
  /\ cmd[p].kind = "send"
  /\ Forget(p)
  /\ UNCHANGED <<posts, artifact, storage, ghosts>>

-----------------------------------------------------------------------------
(* Inbox *)

StartInbox(p, c) ==
  /\ pc[p] = "idle"
  /\ cmd' = [cmd EXCEPT ![p] = c]
  /\ Goto(p, "fetch")
  /\ UNCHANGED <<posts, artifact, storage, memory, loop, ghosts>>

\* The queued envelopes, in an order that is the relay's.
Fetch(p) ==
  /\ pc[p] = "fetch"
  /\ rest' = [rest EXCEPT ![p] = {e \in Envelopes : relay[e] = "queued"}]
  /\ Goto(p, "next")
  /\ UNCHANGED <<posts, artifact, storage, cmd, memory, at, count, ghosts>>

FetchFails(p) ==
  /\ pc[p] = "fetch"
  /\ Forget(p)
  /\ UNCHANGED <<posts, artifact, storage, ghosts>>

\* The summary, when the limit is reached or no envelope is left.
Finish(p) ==
  /\ pc[p] = "next"
  /\ rest[p] = {} \/ count[p] >= cmd[p].limit
  /\ Forget(p)
  /\ UNCHANGED <<posts, artifact, storage, ghosts>>

Unsupported == [fault |-> "unsupported"]

SkipUnsupported(p, e) ==
  /\ pc[p] = "next" /\ count[p] < cmd[p].limit
  /\ e \in rest[p] /\ content[e] = Unsupported
  /\ rest' = [rest EXCEPT ![p] = @ \ {e}]
  /\ UNCHANGED <<posts, artifact, storage, pc, cmd, memory, at, count, ghosts>>

Visit(p, e) ==
  /\ pc[p] = "next" /\ count[p] < cmd[p].limit
  /\ e \in rest[p] /\ content[e] # Unsupported
  /\ rest' = [rest EXCEPT ![p] = @ \ {e}]
  /\ at' = [at EXCEPT ![p] = e]
  /\ Goto(p, "write")
  /\ UNCHANGED <<posts, artifact, storage, cmd, memory, count, ghosts>>

\* What validateEnvelopePayloadMetadata refuses.
Corrupt == [fault |-> "corrupt"]

\* A directory of its own for each envelope.
WriteArtifact(p) ==
  /\ pc[p] = "write"
  /\ content[at[p]] # Corrupt
  /\ Goto(p, "open")
  /\ UNCHANGED <<posts, artifact, storage, cmd, memory, loop, ghosts>>

\* Mutant: a failed envelope counts for the limit.
WriteFailsCounted(p) ==
  /\ pc[p] = "write"
  /\ content[at[p]] = Corrupt
  /\ count' = [count EXCEPT ![p] = @ + 1]
  /\ Continue(p)
  /\ UNCHANGED <<posts, artifact, storage, ghosts>>

WriteFails(p) ==
  /\ pc[p] = "write"
  /\ content[at[p]] = Corrupt
  /\ Continue(p)
  /\ UNCHANGED <<posts, artifact, storage, count, ghosts>>

\* The ratchet can open what it has loaded the key of.
Opens(p) ==
  /\ content[at[p]] \in Message
  /\ storage["inbox"] # Torn
  /\ content[at[p]].key \notin storage["inbox"]

\* Mutant: the used key stays in the ratchet.
OpenKeepingKey(p) ==
  /\ pc[p] = "open"
  /\ Opens(p)
  /\ Begins(p)
  /\ memory' = [memory EXCEPT ![p] = storage["inbox"]]
  /\ Goto(p, "truncate")
  /\ UNCHANGED <<posts, artifact, storage, cmd, loop, opened, shown>>

\* message-open loads the ratchet, and uses up the key of the message.
Open(p) ==
  /\ pc[p] = "open"
  /\ Opens(p)
  /\ Begins(p)
  /\ memory' = [memory EXCEPT ![p] = storage["inbox"] \cup {content[at[p]].key}]
  /\ Goto(p, "truncate")
  /\ UNCHANGED <<posts, artifact, storage, cmd, loop, opened, shown>>

\* Mutant: an envelope that does not open is acknowledged.
OpenFailsAcked(p) ==
  /\ pc[p] = "open" /\ ~Opens(p)
  /\ relay' = [relay EXCEPT ![at[p]] = "acknowledged"]
  /\ Continue(p)
  /\ UNCHANGED <<content, artifact, storage, count, ghosts>>

\* Not of this group, opened before, or the storage is torn.
OpenFails(p) ==
  /\ pc[p] = "open" /\ ~Opens(p)
  /\ Continue(p)
  /\ UNCHANGED <<posts, artifact, storage, count, ghosts>>

\* Another call is writing the storage when it is read back.
ReloadFails(p) ==
  /\ pc[p] = "reload" /\ cmd[p].kind = "inbox"
  /\ storage["inbox"] = Torn
  /\ Continue(p)
  /\ UNCHANGED <<posts, artifact, storage, count, ghosts>>

\* The answer has the plaintext.
Opened(p) ==
  /\ pc[p] = "report" /\ cmd[p].kind = "inbox"
  /\ opened' = opened \cup {at[p]}
  /\ count' = [count EXCEPT ![p] = @ + 1]
  /\ Goto(p, IF cmd[p].ack THEN "ack" ELSE "show")
  /\ UNCHANGED <<posts, artifact, storage, cmd, memory, rest, at, shown, overlapped>>

\* A failed acknowledgement is counted, and the loop goes on; the relay may have
\* taken it.
Ack(p) ==
  /\ pc[p] = "ack"
  /\ \E taken \in BOOLEAN :
       relay' = [relay EXCEPT ![at[p]] = IF taken THEN "acknowledged" ELSE @]
  /\ Goto(p, "show")
  /\ UNCHANGED <<content, artifact, storage, cmd, memory, loop, ghosts>>

\* The plaintext is printed after the acknowledgement.
Show(p) ==
  /\ pc[p] = "show"
  /\ shown' = shown \cup {content[at[p]].key}
  /\ Continue(p)
  /\ UNCHANGED <<posts, artifact, storage, count, opened, overlapped>>

\* The write of the artifact or the sidecar fails, or its answer is lost.
InboxIOFailure(p) ==
  /\ cmd[p].kind = "inbox"
  /\ pc[p] \in {"write", "open", "truncate", "save", "reload", "report"}
  /\ Continue(p)
  /\ UNCHANGED <<posts, artifact, storage, count, ghosts>>

\* The command and its sidecar die.  A sidecar that outlives its command is one
\* whose answer is lost.
Crash(p) ==
  /\ pc[p] # "idle"
  /\ Forget(p)
  /\ UNCHANGED <<posts, artifact, storage, ghosts>>

-----------------------------------------------------------------------------
Step(p) ==
  \/ TrustAllows(p) \/ CheckLabel(p) \/ Reserve(p) \/ Protect(p) \/ WriteMessage(p)
  \/ Truncate(p) \/ Save(p) \/ Reload(p)
  \/ Protected(p) \/ \E e \in Envelopes : Submit(p, e)
  \/ Fetch(p) \/ Finish(p)
  \/ \E e \in Envelopes : SkipUnsupported(p, e) \/ Visit(p, e)
  \/ WriteArtifact(p) \/ WriteFails(p) \/ Open(p) \/ OpenFails(p) \/ ReloadFails(p)
  \/ Opened(p) \/ Ack(p) \/ Show(p)

Failure(p) == SendFails(p) \/ FetchFails(p) \/ InboxIOFailure(p) \/ Crash(p)

Next ==
  \/ \E e \in Envelopes, c \in Other : Deliver(e, c)
  \/ \E p \in Procs :
       \/ Step(p)
       \/ Failure(p)
       \/ \E l \in Labels : StartSend(p, l)
       \/ \E c \in InboxCommand : StartInbox(p, c)

Spec == Init /\ [][Next]_vars

\* The receiver runs an inbox command again and again, processes run on, and
\* failures other than failed envelopes stop at some time.
FairSpec ==
  /\ Spec
  /\ \A p \in Procs : WF_vars(Step(p) \/ SendFails(p))
  /\ SF_vars(\E p \in Procs, c \in InboxCommand : StartInbox(p, c))
  /\ <>[][\A p \in Procs :
           FetchFails(p) \/ InboxIOFailure(p) \/ Crash(p) => Step(p) \/ SendFails(p)]_vars

-----------------------------------------------------------------------------
(* Properties *)

TypeOK ==
  /\ relay \in [Envelopes -> {"unsent", "queued", "acknowledged"}]
  /\ content \in [Envelopes -> Message \cup Other \cup {Nothing}]
  /\ artifact \in [Labels -> Message \cup {Absent, Empty}]
  /\ storage \in [{"send", "inbox"} -> {Torn} \cup SUBSET Keys]
  /\ pc \in [Procs -> {"idle", "trust", "protect", "reserve", "load", "artifact", "truncate",
                       "save", "reload", "report", "submit",
                       "fetch", "next", "write", "open", "ack", "show"}]
  /\ cmd \in [Procs -> SendCommand \cup InboxCommand \cup {NoCommand}]
  /\ memory \in [Procs -> SUBSET Keys]
  /\ rest \in [Procs -> SUBSET Envelopes]
  /\ at \in [Procs -> Envelopes \cup {Nothing}]
  /\ count \in [Procs -> Nat]
  /\ opened \subseteq Envelopes
  /\ shown \subseteq Keys
  /\ overlapped \subseteq {"send", "inbox"}

HasPlaintext(p) == pc[p] \in {"ack", "show"}

\* Unless two message-open calls overlap, no message is delivered twice: a plaintext
\* is with at most one command, and never with a command again once it has been
\* printed, although two inboxes may have fetched the same envelopes, calls fail
\* anywhere and lost acknowledgements leave envelopes queued.
DeliveredOnce ==
  "inbox" \notin overlapped =>
    \A p \in Procs : HasPlaintext(p) =>
      /\ content[at[p]].key \notin shown
      /\ \A q \in Procs :
           HasPlaintext(q) /\ content[at[q]].key = content[at[p]].key => q = p

\* Unless two message-protect calls overlap, no retry of a send submits a message
\* a second time, and no two submitted messages are protected with the same key.
SubmittedOnce ==
  "send" \notin overlapped =>
    \A e, f \in Envelopes :
      content[e] \in Message /\ content[f] \in Message /\ e # f =>
        content[e].label # content[f].label /\ content[e].key # content[f].key

\* "Only successful sidecar message-open/consume may permit ack": the commands
\* implement RelayDelivery, where a message is processed when its open has answered.
Delivery == INSTANCE RelayDelivery WITH
  processed <- opened,
  acknowledged <- {e \in Envelopes : relay[e] = "acknowledged"}

ImplementsDelivery == Delivery!Spec

\* The receiver's storage is lost: torn, and no call is about to write it.
Wrecked ==
  /\ storage["inbox"] = Torn
  /\ \A p \in Procs : pc[p] = "save" => cmd[p].kind = "send"

\* Envelopes that cannot be opened do not hold up the ones behind them, whatever
\* the limit: every queued message is opened in the end, unless a failure or two
\* calls at a time wreck the receiver's storage.
EveryMessageOpened ==
  \A e \in Envelopes :
    content[e] \in Message /\ relay[e] = "queued" ~>
      \/ Wrecked
      \/ /\ content[e] \in Message /\ storage["inbox"] # Torn
         /\ content[e].key \in storage["inbox"]

\* "Message is stored in local secure vault": a message that the relay will not
\* send again has been printed, or is about to be.  Refuted by a crash between the
\* acknowledgement and the print (README).
AcknowledgedIsKept ==
  \A e \in Envelopes : relay[e] = "acknowledged" =>
    content[e].key \in shown \/ \E p \in Procs : HasPlaintext(p) /\ at[p] = e

-----------------------------------------------------------------------------
(* The inductive invariant *)

\* A message-open of p is in its call, or has answered.
Opening(p) ==
  \/ cmd[p].kind = "inbox" /\ pc[p] \in {"truncate", "save", "reload", "report"}
  \/ HasPlaintext(p)

Position(p) ==
  /\ pc[p] \in {"trust", "protect", "reserve", "load", "artifact", "submit"} =>
       cmd[p] \in SendCommand
  /\ pc[p] \in {"fetch", "next", "write", "open", "ack", "show"} => cmd[p] \in InboxCommand
  /\ pc[p] \in {"truncate", "save", "reload", "report"} => cmd[p] # NoCommand
  /\ cmd[p].kind = "send" /\ pc[p] \in {"truncate", "save", "reload", "report", "submit"} =>
       artifact[cmd[p].label] \in Message
  /\ \A e \in rest[p] : relay[e] # "unsent"
  /\ at[p] # Nothing => relay[at[p]] # "unsent"
  /\ pc[p] \in {"write", "open"} => at[p] # Nothing
  /\ Opening(p) => at[p] # Nothing /\ content[at[p]] \in Message
  /\ HasPlaintext(p) => at[p] \in opened

Posted ==
  \A e \in Envelopes : /\ relay[e] = "unsent" <=> content[e] = Nothing
                       /\ relay[e] = "acknowledged" => e \in opened

Alone(kind) ==
  \A p, q \in Procs :
    InCall(p) /\ InCall(q) /\ cmd[p].kind = kind /\ cmd[q].kind = kind => p = q

\* A send has its label, and the key of its message is in the storage for good.
HasLabel(p) ==
  /\ cmd[p].kind = "send"
  /\ pc[p] \in {"reserve", "load", "artifact", "truncate", "save", "reload", "report", "submit"}

HasKey(p) == cmd[p].kind = "send" /\ pc[p] \in {"reload", "report", "submit"}

\* What the call of a send has done to the message directory, and to the storage.
SendPosition(p) ==
  LET message(k) == [label |-> cmd[p].label, key |-> k] IN
  cmd[p].kind = "send" =>
    /\ HasLabel(p) /\ pc[p] # "reserve" => artifact[cmd[p].label] # Absent
    /\ pc[p] = "artifact" =>
         \E k \in Keys : memory[p] = 1..k /\ storage["send"] = 1..(k - 1)
    /\ pc[p] = "truncate" =>
         \E k \in Keys : /\ memory[p] = 1..k /\ storage["send"] = 1..(k - 1)
                         /\ artifact[cmd[p].label] = message(k)
    /\ pc[p] = "save" =>
         \E k \in Keys : /\ memory[p] = 1..k /\ storage["send"] = Torn
                         /\ artifact[cmd[p].label] = message(k)
    /\ HasKey(p) => \E k \in Keys : artifact[cmd[p].label] = message(k)

\* The keys of submitted messages, and of those about to be.
Spent ==
  {content[e].key : e \in {f \in Envelopes : content[f] \in Message}}
  \cup {artifact[cmd[p].label].key : p \in {q \in Procs : HasKey(q)}}

\* A spent key is not drawn again.
SpentForGood ==
  \A k \in Spent :
    /\ storage["send"] # Torn => k \in storage["send"]
    /\ \A p \in Procs : cmd[p].kind = "send" /\ pc[p] \in {"artifact", "truncate", "save"} =>
         \E n \in Keys : memory[p] = 1..n /\ k < n

SendSafe ==
  /\ Alone("send")
  /\ \A p \in Procs : SendPosition(p)
  /\ \A e \in Envelopes : content[e] \in Message => artifact[content[e].label] # Absent
  /\ SpentForGood
  /\ \A p \in Procs : HasLabel(p) =>
       /\ \A q \in Procs : HasLabel(q) /\ cmd[q].label = cmd[p].label => q = p
       /\ \A e \in Envelopes : content[e] \in Message => content[e].label # cmd[p].label
  /\ \A p \in Procs : HasKey(p) =>
       /\ \A q \in Procs :
            HasKey(q) /\ artifact[cmd[q].label].key = artifact[cmd[p].label].key => q = p
       /\ \A e \in Envelopes :
            content[e] \in Message => content[e].key # artifact[cmd[p].label].key

\* A message-open has used the key of its message up for good.
Consumed(p) == HasPlaintext(p) \/ (cmd[p].kind = "inbox" /\ pc[p] \in {"reload", "report"})

OpenPosition(p) ==
  cmd[p].kind = "inbox" =>
    /\ pc[p] = "truncate" =>
         /\ storage["inbox"] # Torn /\ content[at[p]].key \notin storage["inbox"]
         /\ memory[p] = storage["inbox"] \cup {content[at[p]].key}
    /\ pc[p] = "save" => storage["inbox"] = Torn /\ content[at[p]].key \in memory[p]

\* The keys of messages whose plaintext has been printed, or may yet be.
Used == shown \cup {content[at[p]].key : p \in {q \in Procs : Consumed(q)}}

UsedForGood ==
  \A k \in Used :
    /\ storage["inbox"] # Torn => k \in storage["inbox"]
    /\ \A p \in Procs : cmd[p].kind = "inbox" /\ pc[p] \in {"truncate", "save"} =>
         k \in memory[p] /\ k # content[at[p]].key

InboxSafe ==
  /\ Alone("inbox")
  /\ \A p \in Procs : OpenPosition(p)
  /\ UsedForGood
  /\ \A p \in Procs : Consumed(p) =>
       /\ content[at[p]].key \notin shown
       /\ \A q \in Procs : Consumed(q) /\ content[at[q]].key = content[at[p]].key => q = p

IInv ==
  /\ TypeOK
  /\ \A p \in Procs : Position(p)
  /\ Posted
  /\ "send" \notin overlapped => SendSafe /\ SubmittedOnce
  /\ "inbox" \notin overlapped => InboxSafe
=============================================================================
