---------------------------- MODULE Conversation ----------------------------
(***************************************************************************)
(* One conversation directory of a sidecar device: conversation-create,    *)
(* conversation-add-member, message-protect and message-open of state.rs.  *)
(* A command is a process; it loads the group from the provider storage,   *)
(* works on it in memory, and writes the whole storage back.  No command   *)
(* takes a lock, and save_storage_to_path empties the file before it       *)
(* writes it.  An action is one file-system effect of a command.           *)
(*                                                                         *)
(*   store     provider-storage.json: absent, torn, or the group it holds  *)
(*   summary   conversation-summary.json exists                            *)
(*   welcome   welcome.bin, as the epoch it lets a member join at          *)
(*   messages  the directory of each message label: absent, empty, or the  *)
(*             application message in it                                   *)
(*   drawn     the epochs (group secrets) ever created                     *)
(*   answered  what commands have returned with success                    *)
(*   pc, cmd   position and arguments of each process                      *)
(*   group     the group in its memory                                     *)
(*                                                                         *)
(* Of an MLS group the model keeps what the commands depend on: its epoch, *)
(* how many messages the device has protected in it (each takes the next   *)
(* key of the sender ratchet), and the peer messages it has opened (the    *)
(* key of each is deleted).                                                *)
(***************************************************************************)
EXTENDS Integers

CONSTANTS
  Procs,            \* the processes that run sidecar commands
  Labels,           \* the message labels
  Epochs,           \* the epochs that can be drawn (bounds the model)
  MaxSent,          \* messages protected per epoch (bounds the model)
  PeerMessages,     \* application messages of the peer
  EpochOf,          \* the epoch of each peer message
  Absent, Torn,     \* a file that does not exist, or was emptied and not written
  Empty,            \* a message directory without a message
  NoEpoch

ASSUME SentAssumption == MaxSent \in Nat
ASSUME PeerAssumption == EpochOf \in [PeerMessages -> Epochs]
ASSUME NoEpochAssumption == NoEpoch \notin Epochs

VARIABLES store, summary, welcome, messages, drawn, answered, pc, cmd, group

files == <<store, summary, welcome, messages>>
vars == <<files, drawn, answered, pc, cmd, group>>

Group == [epoch : Epochs, sent : 0..MaxSent, opened : SUBSET PeerMessages]

NewGroup(e) == [epoch |-> e, sent |-> 0, opened |-> {}]

\* An application message of this device: the key it is protected with is the
\* sent-th of its epoch.
Message == [epoch : Epochs, key : 1..MaxSent, label : Labels]

ASSUME AbsentAssumption == /\ Absent # Torn /\ Absent # Empty
                           /\ {Absent, Torn} \cap Group = {}
                           /\ {Absent, Empty} \cap Message = {}

Command == [kind : {"none", "create", "add"}]
           \cup [kind : {"protect"}, label : Labels]
           \cup [kind : {"open"}, message : PeerMessages]

NoCommand == [kind |-> "none"]
NoGroup == [epoch |-> NoEpoch]

\* What a command returns.
Answer == [kind : {"welcome"}, epoch : Epochs]
          \cup [kind : {"message"}, message : Message]
          \cup [kind : {"plaintext"}, message : PeerMessages]

-----------------------------------------------------------------------------
(* Helpers *)

Goto(p, label) == pc' = [pc EXCEPT ![p] = label]

Holds(p, g) == group' = [group EXCEPT ![p] = g]

Return(p) ==
  /\ Goto(p, "idle")
  /\ cmd' = [cmd EXCEPT ![p] = NoCommand]
  /\ Holds(p, NoGroup)

\* load_storage_from_path and MlsGroup::load: a torn storage does not parse.
Loadable == store \in Group

-----------------------------------------------------------------------------
\* No conversation yet, or one that was joined from the Welcome of an epoch.
Init ==
  /\ \/ store = Absent /\ summary = FALSE /\ drawn = {}
     \/ \E e \in Epochs : store = NewGroup(e) /\ summary = TRUE /\ drawn = {e}
  /\ welcome = NoEpoch
  /\ messages = [l \in Labels |-> Absent]
  /\ answered = {}
  /\ pc = [p \in Procs |-> "idle"]
  /\ cmd = [p \in Procs |-> NoCommand]
  /\ group = [p \in Procs |-> NoGroup]

Start(p, c) ==
  /\ pc[p] = "idle"
  /\ c.kind # "none"
  /\ cmd' = [cmd EXCEPT ![p] = c]
  /\ Goto(p, c.kind)
  /\ UNCHANGED <<files, drawn, answered, group>>

-----------------------------------------------------------------------------
(* conversation-create: a new group, if neither summary nor storage exists. *)

\* Mutant: only the summary is checked.
CreateBySummary(p) ==
  /\ pc[p] = "create"
  /\ ~summary
  /\ \E e \in Epochs \ drawn :
       /\ drawn' = drawn \cup {e}
       /\ Holds(p, NewGroup(e))
  /\ Goto(p, "truncate")
  /\ UNCHANGED <<files, answered, cmd>>

Create(p) ==
  /\ pc[p] = "create"
  /\ ~summary
  /\ store = Absent
  /\ \E e \in Epochs \ drawn :
       /\ drawn' = drawn \cup {e}
       /\ Holds(p, NewGroup(e))
  /\ Goto(p, "truncate")
  /\ UNCHANGED <<files, answered, cmd>>

WriteSummary(p) ==
  /\ pc[p] = "report"
  /\ cmd[p].kind = "create"
  /\ summary' = TRUE
  /\ Return(p)
  /\ UNCHANGED <<store, welcome, messages, drawn, answered>>

-----------------------------------------------------------------------------
(* conversation-add-member: commit, write the Welcome, merge, save. *)

\* None of the three output files may exist; welcome.bin is the first of them
\* to be written and none is ever removed.
AddMember(p) ==
  /\ pc[p] = "add"
  /\ summary
  /\ Loadable
  /\ welcome = NoEpoch
  /\ \E e \in Epochs \ drawn :
       /\ drawn' = drawn \cup {e}
       /\ Holds(p, NewGroup(e))
  /\ Goto(p, "welcome")
  /\ UNCHANGED <<files, answered, cmd>>

\* Mutant: the pending commit is never merged.
WriteWelcomeOnly(p) ==
  /\ pc[p] = "welcome"
  /\ welcome' = group[p].epoch
  /\ Holds(p, store)
  /\ Goto(p, "truncate")
  /\ UNCHANGED <<store, summary, messages, drawn, answered, cmd>>

\* welcome.bin is written before the commit is merged and the group is saved.
WriteWelcome(p) ==
  /\ pc[p] = "welcome"
  /\ welcome' = group[p].epoch
  /\ Goto(p, "truncate")
  /\ UNCHANGED <<store, summary, messages, drawn, answered, cmd, group>>

\* The manifest and the summary of add-member, then the answer.
WelcomeAnswer(p) ==
  /\ pc[p] = "report"
  /\ cmd[p].kind = "add"
  /\ answered' = answered \cup {[kind |-> "welcome", epoch |-> welcome]}
  /\ Return(p)
  /\ UNCHANGED <<files, drawn>>

-----------------------------------------------------------------------------
(* message-protect *)

\* The message directory must not exist.
CheckLabel(p) ==
  /\ pc[p] = "protect"
  /\ store # Absent
  /\ messages[cmd[p].label] = Absent
  /\ Goto(p, "reserve")
  /\ UNCHANGED <<files, drawn, answered, cmd, group>>

\* It is created before the storage is loaded, and stays when that fails.
ReserveLabel(p) ==
  /\ pc[p] = "reserve"
  /\ messages' = [messages EXCEPT ![cmd[p].label] = IF @ = Absent THEN Empty ELSE @]
  /\ Goto(p, "load")
  /\ UNCHANGED <<store, summary, welcome, drawn, answered, cmd, group>>

\* Load the group and protect the plaintext with the next key of the ratchet.
Protect(p) ==
  /\ pc[p] = "load"
  /\ Loadable
  /\ store.sent < MaxSent
  /\ Holds(p, [store EXCEPT !.sent = store.sent + 1])
  /\ Goto(p, "artifact")
  /\ UNCHANGED <<files, drawn, answered, cmd>>

\* Mutant: the ratchet is not saved.
WriteMessageOnly(p) ==
  /\ pc[p] = "artifact"
  /\ messages' = [messages EXCEPT ![cmd[p].label] =
                    [epoch |-> group[p].epoch, key |-> group[p].sent,
                     label |-> cmd[p].label]]
  /\ Goto(p, "report")
  /\ UNCHANGED <<store, summary, welcome, drawn, answered, cmd, group>>

\* The message is written before the ratchet is saved.
WriteMessage(p) ==
  /\ pc[p] = "artifact"
  /\ messages' = [messages EXCEPT ![cmd[p].label] =
                    [epoch |-> group[p].epoch, key |-> group[p].sent,
                     label |-> cmd[p].label]]
  /\ Goto(p, "truncate")
  /\ UNCHANGED <<store, summary, welcome, drawn, answered, cmd, group>>

\* Manifest and summary, then the path of the message.
MessageAnswer(p) ==
  /\ pc[p] = "report"
  /\ cmd[p].kind = "protect"
  /\ answered' = answered \cup {[kind |-> "message", message |-> messages[cmd[p].label]]}
  /\ Return(p)
  /\ UNCHANGED <<files, drawn>>

-----------------------------------------------------------------------------
(* message-open *)

\* Mutant: a message opens again.
OpenAgain(p) ==
  /\ pc[p] = "open"
  /\ Loadable
  /\ EpochOf[cmd[p].message] = store.epoch
  /\ Holds(p, [store EXCEPT !.opened = store.opened \cup {cmd[p].message}])
  /\ Goto(p, "truncate")
  /\ UNCHANGED <<files, drawn, answered, cmd>>

\* process_message: the epoch is the group's, and the key is still there.  The
\* peer may have sent in any epoch, also in one it was never invited to.
Open(p) ==
  /\ pc[p] = "open"
  /\ Loadable
  /\ EpochOf[cmd[p].message] = store.epoch
  /\ cmd[p].message \notin store.opened
  /\ Holds(p, [store EXCEPT !.opened = store.opened \cup {cmd[p].message}])
  /\ Goto(p, "truncate")
  /\ UNCHANGED <<files, drawn, answered, cmd>>

\* The open summary, then the plaintext.
PlaintextAnswer(p) ==
  /\ pc[p] = "report"
  /\ cmd[p].kind = "open"
  /\ answered' = answered \cup {[kind |-> "plaintext", message |-> cmd[p].message]}
  /\ Return(p)
  /\ UNCHANGED <<files, drawn>>

-----------------------------------------------------------------------------
(* save_storage_to_path, in every command *)

\* File::create
Truncate(p) ==
  /\ pc[p] = "truncate"
  /\ store' = Torn
  /\ Goto(p, "save")
  /\ UNCHANGED <<summary, welcome, messages, drawn, answered, cmd, group>>

\* The JSON is written.  Two commands that write the file at a time may leave
\* a text that does not parse.
Save(p) ==
  /\ pc[p] = "save"
  /\ store' \in IF store = Torn THEN {group[p]} ELSE {group[p], Torn}
  /\ Goto(p, IF cmd[p].kind = "add" THEN "report" ELSE "reload")
  /\ UNCHANGED <<summary, welcome, messages, drawn, answered, cmd, group>>

\* Every command but add-member reads the storage again before it goes on.
Reload(p) ==
  /\ pc[p] = "reload"
  /\ Loadable
  /\ Goto(p, "report")
  /\ UNCHANGED <<files, drawn, answered, cmd, group>>

-----------------------------------------------------------------------------
\* An error return: a check that refuses, storage that does not load, a message
\* that does not open, a write that fails.  Nothing is undone.
Fail(p) ==
  /\ pc[p] # "idle"
  /\ Return(p)
  /\ UNCHANGED <<files, drawn, answered>>

Step(p) ==
  \/ Create(p) \/ WriteSummary(p)
  \/ AddMember(p) \/ WriteWelcome(p) \/ WelcomeAnswer(p)
  \/ CheckLabel(p) \/ ReserveLabel(p) \/ Protect(p) \/ WriteMessage(p) \/ MessageAnswer(p)
  \/ Open(p) \/ PlaintextAnswer(p)
  \/ Truncate(p) \/ Save(p) \/ Reload(p)

Next == \E p \in Procs : Step(p) \/ Fail(p) \/ \E c \in Command : Start(p, c)

Spec == Init /\ [][Next]_vars

-----------------------------------------------------------------------------
(* Properties *)

TypeOK ==
  /\ store \in Group \cup {Absent, Torn}
  /\ summary \in BOOLEAN
  /\ welcome \in Epochs \cup {NoEpoch}
  /\ messages \in [Labels -> Message \cup {Absent, Empty}]
  /\ drawn \subseteq Epochs
  /\ answered \subseteq Answer
  /\ pc \in [Procs -> {"idle", "create", "add", "protect", "open", "reserve", "load",
                      "artifact", "welcome", "truncate", "save", "reload", "report"}]
  /\ cmd \in [Procs -> Command]
  /\ group \in [Procs -> Group \cup {NoGroup}]

\* What group g knows of an answer: it is the group the Welcome invites to, its
\* ratchet is past the key of the message, the key of the plaintext is deleted.
\* In an epoch that is over no key is usable any more.
Remembers(g, a) ==
  \/ a.kind = "welcome" /\ g.epoch = a.epoch
  \/ a.kind = "message" /\ (g.epoch = a.message.epoch => a.message.key <= g.sent)
  \/ a.kind = "plaintext" /\ (g.epoch = EpochOf[a.message] => a.message \in g.opened)

\* The provider storage on disk remembers everything the sidecar has answered,
\* unless it is torn and no command loads it: the "provider_storage_written"
\* and "group_reloadable" of every answer.
AnswersKept ==
  store # Torn => /\ answered # {} => store # Absent
                  /\ \A a \in answered : Remembers(store, a)

\* No two messages handed out for sending are protected with one key.
KeysUsedOnce ==
  \A a, b \in answered :
    /\ a.kind = "message" /\ b.kind = "message"
    /\ a.message.epoch = b.message.epoch
    /\ a.message.key = b.message.key
    => a = b

\* message-open gives the plaintext of a message at most once.
ReplayRefused ==
  [][\A p \in Procs :
       PlaintextAnswer(p) =>
         [kind |-> "plaintext", message |-> cmd[p].message] \notin answered]_vars

\* A conversation whose storage was torn by a failed save stays unusable: no
\* command writes a group over it that forgets what was answered.
TornIsFinal ==
  [][\A p \in Procs : Truncate(p) => store # Torn]_vars

-----------------------------------------------------------------------------
(* The inductive invariant, for one command at a time *)

\* The group in memory of a command that has worked on it.
Worked(p) == pc[p] \in {"artifact", "welcome", "truncate", "save", "reload", "report"}

\* It is a group of a drawn epoch, ahead of every answer, and the answer the
\* command will give is not among those given.
MemoryAhead(p) ==
  Worked(p) =>
    /\ group[p] \in Group
    /\ group[p].epoch \in drawn
    /\ \A a \in answered : Remembers(group[p], a)
    /\ cmd[p].kind = "protect" =>
         /\ group[p].sent > 0
         /\ \A a \in answered :
              a.kind = "message" /\ a.message.epoch = group[p].epoch
                => a.message.key < group[p].sent
    /\ cmd[p].kind = "open" =>
         /\ EpochOf[cmd[p].message] = group[p].epoch
         /\ cmd[p].message \in group[p].opened
         /\ [kind |-> "plaintext", message |-> cmd[p].message] \notin answered

\* A command is at a position of its own program, and its output file says what
\* its group says.
OutputWritten(p) ==
  /\ pc[p] \in {"create", "add", "protect", "open"} => cmd[p].kind = pc[p]
  /\ pc[p] \in {"reserve", "load", "artifact"} => cmd[p].kind = "protect"
  /\ pc[p] = "welcome" => cmd[p].kind = "add"
  /\ pc[p] \in {"truncate", "save", "reload", "report"} =>
       /\ cmd[p].kind = "protect" =>
            messages[cmd[p].label] = [epoch |-> group[p].epoch, key |-> group[p].sent,
                                      label |-> cmd[p].label]
       /\ cmd[p].kind = "add" => welcome = group[p].epoch

\* The storage is torn from the truncation to the write, and otherwise holds
\* a group; after the write it is the group in memory.
StoreFollows(p) ==
  /\ pc[p] \in {"artifact", "welcome", "truncate"} => store # Torn
  /\ pc[p] = "save" => store = Torn
  /\ pc[p] \in {"reload", "report"} => store = group[p]

\* Every epoch in use was drawn; an answered Welcome is on disk.
EpochsDrawn ==
  /\ store \in Group => store.epoch \in drawn
  /\ \A a \in answered :
       /\ a.kind = "welcome" => a.epoch \in drawn /\ welcome # NoEpoch
       /\ a.kind = "message" => a.message.epoch \in drawn
       /\ a.kind = "plaintext" => EpochOf[a.message] \in drawn

IInv ==
  /\ TypeOK
  /\ AnswersKept
  /\ KeysUsedOnce
  /\ EpochsDrawn
  /\ \A p \in Procs : MemoryAhead(p) /\ OutputWritten(p) /\ StoreFollows(p)
=============================================================================
