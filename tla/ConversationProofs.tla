------------------------- MODULE ConversationProofs -------------------------
(***************************************************************************)
(* Machine-checked safety of a conversation directory, for any labels,     *)
(* epochs, messages and ratchet length, when one command runs at a time:   *)
(* the storage remembers every answer, no key protects two messages, no    *)
(* message opens twice, a torn storage is never written over.              *)
(***************************************************************************)
EXTENDS Conversation, TLAPS

\* One command at a time, the condition every theorem here assumes.
OneProcess == \A p, q \in Procs : p = q

-----------------------------------------------------------------------------
(* The data *)

LEMMA CommandFields ==
  ASSUME NEW c \in Command
  PROVE  /\ c.kind \in {"none", "create", "add", "protect", "open"}
         /\ c.kind = "protect" => c.label \in Labels
         /\ c.kind = "open" => c.message \in PeerMessages
BY DEF Command

LEMMA GroupFields ==
  ASSUME NEW g \in Group
  PROVE  /\ g.epoch \in Epochs /\ g.sent \in 0..MaxSent /\ g.opened \in SUBSET PeerMessages
         /\ g # Absent /\ g # Torn
BY AbsentAssumption DEF Group

LEMMA NewGroupFields ==
  ASSUME NEW e \in Epochs
  PROVE  /\ NewGroup(e) \in Group
         /\ NewGroup(e).epoch = e /\ NewGroup(e).sent = 0 /\ NewGroup(e).opened = {}
BY SentAssumption DEF NewGroup, Group

LEMMA AnswerFields ==
  ASSUME NEW a \in Answer
  PROVE  /\ a.kind \in {"welcome", "message", "plaintext"}
         /\ a.kind = "welcome" => a.epoch \in Epochs
         /\ a.kind = "message" => /\ a.message.epoch \in Epochs
                                  /\ a.message.key \in 1..MaxSent
         /\ a.kind = "plaintext" => a.message \in PeerMessages
BY DEF Answer, Message

\* A group in a new epoch remembers every answer that is no Welcome.
LEMMA FreshRemembers ==
  ASSUME NEW e \in Epochs \ drawn, answered \subseteq Answer, EpochsDrawn,
         NEW a \in answered, a.kind # "welcome"
  PROVE  Remembers(NewGroup(e), a)
BY AnswerFields, NewGroupFields DEF EpochsDrawn, Remembers

-----------------------------------------------------------------------------
(* The inductive invariant *)

\* The invariant of a system with the one process p.
InvFor(p) ==
  /\ TypeOK
  /\ AnswersKept
  /\ KeysUsedOnce
  /\ EpochsDrawn
  /\ MemoryAhead(p)
  /\ OutputWritten(p)
  /\ StoreFollows(p)

LEMMA InvariantForOne ==
  ASSUME OneProcess, NEW p \in Procs
  PROVE  IInv <=> InvFor(p)
BY DEF OneProcess, IInv, InvFor

LEMMA CreatePreserves ==
  ASSUME NEW p \in Procs, InvFor(p), Create(p)
  PROVE  InvFor(p)'
<1> USE DEF InvFor, Create, Goto, Holds, files
<1>1. TypeOK'
  BY NewGroupFields DEF TypeOK
<1>2. AnswersKept' /\ KeysUsedOnce'
  BY DEF AnswersKept, KeysUsedOnce
<1>3. EpochsDrawn'
  BY DEF EpochsDrawn
<1>4. MemoryAhead(p)'
  <2>1. PICK e \in Epochs \ drawn : /\ drawn' = drawn \cup {e}
                                    /\ group' = [group EXCEPT ![p] = NewGroup(e)]
    OBVIOUS
  <2>2. answered = {} /\ cmd[p].kind = "create"
    BY AbsentAssumption DEF AnswersKept, OutputWritten
  <2>3. QED
    BY <2>1, <2>2, NewGroupFields DEF TypeOK, MemoryAhead
<1>5. OutputWritten(p)' /\ StoreFollows(p)'
  <2>1. cmd[p].kind = "create"
    BY DEF OutputWritten
  <2>2. QED
    BY <2>1, AbsentAssumption DEF TypeOK, OutputWritten, StoreFollows
<1>6. QED
  BY <1>1, <1>2, <1>3, <1>4, <1>5

LEMMA WriteSummaryPreserves ==
  ASSUME NEW p \in Procs, InvFor(p), WriteSummary(p)
  PROVE  InvFor(p)'
<1> USE DEF InvFor, WriteSummary, Return, Goto, Holds
<1>1. TypeOK'
  BY DEF TypeOK, NoCommand, Command
<1>2. AnswersKept' /\ KeysUsedOnce'
  BY DEF AnswersKept, KeysUsedOnce
<1>3. EpochsDrawn'
  BY DEF EpochsDrawn
<1>4. MemoryAhead(p)'
  BY DEF TypeOK, MemoryAhead, Worked
<1>5. OutputWritten(p)' /\ StoreFollows(p)'
  BY DEF TypeOK, OutputWritten, StoreFollows
<1>6. QED
  BY <1>1, <1>2, <1>3, <1>4, <1>5

LEMMA AddMemberPreserves ==
  ASSUME NEW p \in Procs, InvFor(p), AddMember(p)
  PROVE  InvFor(p)'
<1> USE DEF InvFor, AddMember, Goto, Holds, files
<1>0. cmd[p] \in Command /\ group[p] \in Group \cup {NoGroup}
      /\ store \in Group \cup {Absent, Torn}
  BY DEF TypeOK
<1>1. TypeOK'
  BY NewGroupFields DEF TypeOK
<1>2. AnswersKept' /\ KeysUsedOnce'
  BY DEF AnswersKept, KeysUsedOnce
<1>3. EpochsDrawn'
  BY DEF EpochsDrawn
<1>4. MemoryAhead(p)'
  <2>1. PICK e \in Epochs \ drawn : /\ drawn' = drawn \cup {e}
                                    /\ group' = [group EXCEPT ![p] = NewGroup(e)]
    OBVIOUS
  <2>2. cmd[p].kind = "add"
    BY DEF OutputWritten
  <2>3. \A a \in answered : a.kind # "welcome"
    BY DEF EpochsDrawn
  <2>4. \A a \in answered : Remembers(NewGroup(e), a)
    BY <2>1, <2>3, FreshRemembers DEF TypeOK
  <2>5. group'[p] = NewGroup(e) /\ cmd'[p].kind = "add" /\ answered' = answered
    BY <2>1, <2>2 DEF TypeOK
  <2>6. QED
    BY <2>1, <2>4, <2>5, NewGroupFields DEF MemoryAhead, Remembers
<1>5. OutputWritten(p)' /\ StoreFollows(p)'
  <2>1. cmd[p].kind = "add"
    BY DEF OutputWritten
  <2>2. QED
    BY <1>0, <2>1, GroupFields DEF TypeOK, OutputWritten, StoreFollows, Loadable
<1>6. QED
  BY <1>1, <1>2, <1>3, <1>4, <1>5

LEMMA WriteWelcomePreserves ==
  ASSUME NEW p \in Procs, InvFor(p), WriteWelcome(p)
  PROVE  InvFor(p)'
<1> USE DEF InvFor, WriteWelcome, Goto
<1>1. TypeOK'
  BY DEF TypeOK, MemoryAhead, Worked
<1>2. AnswersKept' /\ KeysUsedOnce'
  BY DEF AnswersKept, KeysUsedOnce
<1>3. EpochsDrawn'
  <2>1. group[p].epoch \in Epochs
    BY GroupFields DEF MemoryAhead, Worked
  <2>2. QED
    BY <2>1, NoEpochAssumption DEF EpochsDrawn
<1>4. MemoryAhead(p)'
  BY DEF MemoryAhead, Worked
<1>5. OutputWritten(p)' /\ StoreFollows(p)'
  BY DEF OutputWritten, StoreFollows
<1>6. QED
  BY <1>1, <1>2, <1>3, <1>4, <1>5

LEMMA WelcomeAnswerPreserves ==
  ASSUME NEW p \in Procs, InvFor(p), WelcomeAnswer(p)
  PROVE  InvFor(p)'
<1> USE DEF InvFor, WelcomeAnswer, Return, Goto, Holds, files
<1>1. TypeOK'
  <2>1. welcome \in Epochs
    BY GroupFields DEF OutputWritten, MemoryAhead, Worked
  <2>2. answered' \subseteq Answer
    BY <2>1 DEF TypeOK, Answer
  <2>3. QED
    BY <2>2 DEF TypeOK, NoCommand, Command
<1>2. AnswersKept' /\ KeysUsedOnce'
  <2> DEFINE b == [kind |-> "welcome", epoch |-> welcome]
  <2>1. store = group[p] /\ welcome = store.epoch
    BY DEF OutputWritten, StoreFollows
  <2>2. store # Absent /\ \A a \in answered : Remembers(store, a)
    BY <2>1, GroupFields DEF MemoryAhead, Worked
  <2>3. Remembers(store, b)
    BY <2>1 DEF Remembers
  <2>4. AnswersKept'
    BY <2>2, <2>3 DEF AnswersKept, Remembers
  <2>5. KeysUsedOnce'
    BY DEF KeysUsedOnce
  <2>6. QED
    BY <2>4, <2>5
<1>3. EpochsDrawn'
  <2>1. welcome \in Epochs /\ welcome \in drawn
    BY GroupFields DEF OutputWritten, MemoryAhead, Worked
  <2>2. QED
    BY <2>1, NoEpochAssumption DEF EpochsDrawn
<1>4. MemoryAhead(p)'
  BY DEF TypeOK, MemoryAhead, Worked
<1>5. OutputWritten(p)' /\ StoreFollows(p)'
  BY DEF TypeOK, OutputWritten, StoreFollows
<1>6. QED
  BY <1>1, <1>2, <1>3, <1>4, <1>5

LEMMA CheckLabelPreserves ==
  ASSUME NEW p \in Procs, InvFor(p), CheckLabel(p)
  PROVE  InvFor(p)'
<1> USE DEF InvFor, CheckLabel, Goto, files
<1>1. TypeOK'
  BY DEF TypeOK
<1>2. AnswersKept' /\ KeysUsedOnce'
  BY DEF AnswersKept, KeysUsedOnce
<1>3. EpochsDrawn'
  BY DEF EpochsDrawn
<1>4. MemoryAhead(p)'
  BY DEF MemoryAhead, Worked
<1>5. OutputWritten(p)' /\ StoreFollows(p)'
  BY DEF OutputWritten, StoreFollows
<1>6. QED
  BY <1>1, <1>2, <1>3, <1>4, <1>5

LEMMA ReserveLabelPreserves ==
  ASSUME NEW p \in Procs, InvFor(p), ReserveLabel(p)
  PROVE  InvFor(p)'
<1> USE DEF InvFor, ReserveLabel, Goto
<1>1. TypeOK'
  BY DEF TypeOK
<1>2. AnswersKept' /\ KeysUsedOnce'
  BY DEF AnswersKept, KeysUsedOnce
<1>3. EpochsDrawn'
  BY DEF EpochsDrawn
<1>4. MemoryAhead(p)'
  BY DEF MemoryAhead, Worked
<1>5. OutputWritten(p)' /\ StoreFollows(p)'
  BY DEF OutputWritten, StoreFollows
<1>6. QED
  BY <1>1, <1>2, <1>3, <1>4, <1>5

LEMMA ProtectPreserves ==
  ASSUME NEW p \in Procs, InvFor(p), Protect(p)
  PROVE  InvFor(p)'
<1> USE DEF InvFor, Protect, Goto, Holds, files
<1>1. TypeOK'
  <2> DEFINE g == [store EXCEPT !.sent = store.sent + 1]
  <2>1. /\ g \in Group /\ g.epoch = store.epoch /\ g.opened = store.opened
        /\ g.sent = store.sent + 1 /\ store.sent \in Nat /\ store # Torn
    BY GroupFields, SentAssumption DEF Group, Loadable
  <2>2. QED
    BY <2>1 DEF TypeOK
<1>2. AnswersKept' /\ KeysUsedOnce'
  BY DEF AnswersKept, KeysUsedOnce
<1>3. EpochsDrawn'
  BY DEF EpochsDrawn
<1>4. MemoryAhead(p)'
  <2> DEFINE g == [store EXCEPT !.sent = store.sent + 1]
  <2>1. /\ g \in Group /\ g.epoch = store.epoch /\ g.opened = store.opened
        /\ g.sent = store.sent + 1 /\ store.sent \in Nat /\ store # Torn
    BY GroupFields, SentAssumption DEF Group, Loadable
  <2>2. group'[p] = g /\ cmd'[p].kind = "protect" /\ answered' = answered
    BY DEF TypeOK, OutputWritten
  <2>3. \A a \in answered : Remembers(store, a)
    BY <2>1 DEF AnswersKept
  <2>4. \A a \in answered : a.kind = "message" => a.message.key \in Nat
    BY AnswerFields, SentAssumption DEF TypeOK
  <2>5. \A a \in answered : Remembers(g, a)
    BY <2>1, <2>3, <2>4 DEF Remembers
  <2>6. \A a \in answered :
          a.kind = "message" /\ a.message.epoch = g.epoch => a.message.key < g.sent
    BY <2>1, <2>3, <2>4 DEF Remembers
  <2>7. g.epoch \in drawn /\ drawn' = drawn
    BY <2>1 DEF EpochsDrawn, Loadable
  <2>8. g.sent > 0
    BY <2>1
  <2> HIDE DEF g
  <2>9. QED
    BY <2>1, <2>2, <2>5, <2>6, <2>7, <2>8 DEF MemoryAhead, Remembers
<1>5. OutputWritten(p)' /\ StoreFollows(p)'
  <2> DEFINE g == [store EXCEPT !.sent = store.sent + 1]
  <2>1. /\ g \in Group /\ g.epoch = store.epoch /\ g.opened = store.opened
        /\ g.sent = store.sent + 1 /\ store.sent \in Nat /\ store # Torn
    BY GroupFields, SentAssumption DEF Group, Loadable
  <2>2. QED
    BY <2>1 DEF TypeOK, OutputWritten, StoreFollows
<1>6. QED
  BY <1>1, <1>2, <1>3, <1>4, <1>5

LEMMA WriteMessagePreserves ==
  ASSUME NEW p \in Procs, InvFor(p), WriteMessage(p)
  PROVE  InvFor(p)'
<1> USE DEF InvFor, WriteMessage, Goto
<1>0. cmd[p] \in Command /\ group[p] \in Group \cup {NoGroup}
      /\ store \in Group \cup {Absent, Torn}
  BY DEF TypeOK
<1>1. TypeOK'
  <2>1. cmd[p].kind = "protect" /\ cmd[p].label \in Labels
    BY <1>0, CommandFields DEF OutputWritten
  <2>2. group[p] \in Group /\ group[p].sent > 0
    BY <2>1 DEF MemoryAhead, Worked
  <2>3. group[p].epoch \in Epochs /\ group[p].sent \in 1..MaxSent
    BY <2>2, GroupFields, SentAssumption
  <2>4. [epoch |-> group[p].epoch, key |-> group[p].sent, label |-> cmd[p].label] \in Message
    BY <2>1, <2>3 DEF Message
  <2>5. QED
    BY <2>4 DEF TypeOK
<1>2. AnswersKept' /\ KeysUsedOnce'
  BY DEF AnswersKept, KeysUsedOnce
<1>3. EpochsDrawn'
  BY DEF EpochsDrawn
<1>4. MemoryAhead(p)'
  BY DEF MemoryAhead, Worked
<1>5. OutputWritten(p)' /\ StoreFollows(p)'
  <2>1. cmd[p].kind = "protect" /\ cmd[p].label \in Labels
    BY <1>0, CommandFields DEF OutputWritten
  <2>2. QED
    BY <2>1 DEF TypeOK, OutputWritten, StoreFollows
<1>6. QED
  BY <1>1, <1>2, <1>3, <1>4, <1>5

LEMMA MessageAnswerPreserves ==
  ASSUME NEW p \in Procs, InvFor(p), MessageAnswer(p)
  PROVE  InvFor(p)'
<1> USE DEF InvFor, MessageAnswer, Return, Goto, Holds, files
<1>0. cmd[p] \in Command /\ group[p] \in Group \cup {NoGroup}
      /\ store \in Group \cup {Absent, Torn}
  BY DEF TypeOK
<1>1. TypeOK'
  <2> DEFINE m == messages[cmd[p].label]
             b == [kind |-> "message", message |-> m]
  <2>1. cmd[p].label \in Labels /\ group[p] \in Group /\ group[p].sent > 0
    BY <1>0, CommandFields DEF MemoryAhead, Worked
  <2>2. m = [epoch |-> group[p].epoch, key |-> group[p].sent, label |-> cmd[p].label]
    BY DEF OutputWritten
  <2>3. group[p].epoch \in Epochs /\ group[p].sent \in 1..MaxSent
    BY <2>1, GroupFields, SentAssumption
  <2>4. answered' = answered \cup {b} /\ b.kind = "message" /\ b.message = m
    OBVIOUS
  <2>5. b \in Answer
    BY <2>1, <2>2, <2>3 DEF Answer, Message
  <2>6. QED
    BY <2>5 DEF TypeOK, NoCommand, Command
<1>2. AnswersKept' /\ KeysUsedOnce'
  <2> DEFINE m == messages[cmd[p].label]
             b == [kind |-> "message", message |-> m]
  <2>1. cmd[p].label \in Labels /\ group[p] \in Group /\ group[p].sent > 0
    BY <1>0, CommandFields DEF MemoryAhead, Worked
  <2>2. m = [epoch |-> group[p].epoch, key |-> group[p].sent, label |-> cmd[p].label]
    BY DEF OutputWritten
  <2>3. group[p].epoch \in Epochs /\ group[p].sent \in 1..MaxSent
    BY <2>1, GroupFields, SentAssumption
  <2>4. answered' = answered \cup {b} /\ b.kind = "message" /\ b.message = m
    OBVIOUS
  <2>5. store = group[p] /\ store # Absent /\ \A a \in answered : Remembers(store, a)
    BY <2>1, GroupFields DEF StoreFollows, MemoryAhead, Worked
  <2>6. Remembers(store, b)
    BY <2>2, <2>3, <2>5 DEF Remembers
  <2>7. AnswersKept'
    BY <2>4, <2>5, <2>6 DEF AnswersKept, Remembers
  <2>8. \A a \in answered :
          a.kind = "message" /\ a.message.epoch = m.epoch => a.message.key < m.key
    BY <2>2 DEF MemoryAhead, Worked
  <2>9. \A a \in answered :
          a.kind = "message" /\ a.message.epoch = m.epoch => a.message.key # m.key
    BY <2>2, <2>3, <2>8, AnswerFields DEF TypeOK
  <2>10. KeysUsedOnce'
    BY <2>4, <2>9 DEF KeysUsedOnce
  <2>11. QED
    BY <2>7, <2>10
<1>3. EpochsDrawn'
  <2> DEFINE m == messages[cmd[p].label]
             b == [kind |-> "message", message |-> m]
  <2>1. cmd[p].label \in Labels /\ group[p] \in Group /\ group[p].sent > 0
    BY <1>0, CommandFields DEF MemoryAhead, Worked
  <2>2. m = [epoch |-> group[p].epoch, key |-> group[p].sent, label |-> cmd[p].label]
    BY DEF OutputWritten
  <2>3. group[p].epoch \in Epochs /\ group[p].sent \in 1..MaxSent
    BY <2>1, GroupFields, SentAssumption
  <2>4. answered' = answered \cup {b} /\ b.kind = "message" /\ b.message = m
    OBVIOUS
  <2>5. m.epoch \in drawn
    BY <2>2 DEF MemoryAhead, Worked
  <2>6. QED
    BY <2>4, <2>5 DEF EpochsDrawn
<1>4. MemoryAhead(p)'
  BY DEF TypeOK, MemoryAhead, Worked
<1>5. OutputWritten(p)' /\ StoreFollows(p)'
  BY DEF TypeOK, OutputWritten, StoreFollows
<1>6. QED
  BY <1>1, <1>2, <1>3, <1>4, <1>5

LEMMA OpenPreserves ==
  ASSUME NEW p \in Procs, InvFor(p), Open(p)
  PROVE  InvFor(p)'
<1> USE DEF InvFor, Open, Goto, Holds, files
<1>0. cmd[p] \in Command /\ group[p] \in Group \cup {NoGroup}
      /\ store \in Group \cup {Absent, Torn}
  BY DEF TypeOK
<1>1. TypeOK'
  <2> DEFINE g == [store EXCEPT !.opened = store.opened \cup {cmd[p].message}]
  <2>1. cmd[p].kind = "open" /\ cmd[p].message \in PeerMessages
    BY <1>0, CommandFields DEF OutputWritten
  <2>2. /\ g \in Group /\ g.epoch = store.epoch /\ g.sent = store.sent
        /\ g.opened = store.opened \cup {cmd[p].message} /\ store # Torn
    BY <2>1, GroupFields DEF Group, Loadable
  <2>3. QED
    BY <2>2 DEF TypeOK
<1>2. AnswersKept' /\ KeysUsedOnce'
  BY DEF AnswersKept, KeysUsedOnce
<1>3. EpochsDrawn'
  BY DEF EpochsDrawn
<1>4. MemoryAhead(p)'
  <2> DEFINE g == [store EXCEPT !.opened = store.opened \cup {cmd[p].message}]
  <2>1. cmd[p].kind = "open" /\ cmd[p].message \in PeerMessages
    BY <1>0, CommandFields DEF OutputWritten
  <2>2. /\ g \in Group /\ g.epoch = store.epoch /\ g.sent = store.sent
        /\ g.opened = store.opened \cup {cmd[p].message} /\ store # Torn
    BY <2>1, GroupFields DEF Group, Loadable
  <2>3. group'[p] = g /\ cmd' = cmd /\ answered' = answered /\ drawn' = drawn
    BY DEF TypeOK
  <2>4. \A a \in answered : Remembers(store, a)
    BY <2>2 DEF AnswersKept
  <2>5. \A a \in answered : Remembers(g, a)
    BY <2>2, <2>4 DEF Remembers
  <2>6. [kind |-> "plaintext", message |-> cmd[p].message] \notin answered
    BY <2>4 DEF Remembers
  <2>7. g.epoch \in drawn
    BY <2>2 DEF EpochsDrawn, Loadable
  <2>8. QED
    BY <2>1, <2>2, <2>3, <2>5, <2>6, <2>7 DEF MemoryAhead, Remembers
<1>5. OutputWritten(p)' /\ StoreFollows(p)'
  <2> DEFINE g == [store EXCEPT !.opened = store.opened \cup {cmd[p].message}]
  <2>1. cmd[p].kind = "open" /\ cmd[p].message \in PeerMessages
    BY <1>0, CommandFields DEF OutputWritten
  <2>2. /\ g \in Group /\ g.epoch = store.epoch /\ g.sent = store.sent
        /\ g.opened = store.opened \cup {cmd[p].message} /\ store # Torn
    BY <2>1, GroupFields DEF Group, Loadable
  <2>3. QED
    BY <2>2 DEF TypeOK, OutputWritten, StoreFollows
<1>6. QED
  BY <1>1, <1>2, <1>3, <1>4, <1>5

LEMMA PlaintextAnswerPreserves ==
  ASSUME NEW p \in Procs, InvFor(p), PlaintextAnswer(p)
  PROVE  InvFor(p)'
<1> USE DEF InvFor, PlaintextAnswer, Return, Goto, Holds, files
<1>0. cmd[p] \in Command /\ group[p] \in Group \cup {NoGroup}
      /\ store \in Group \cup {Absent, Torn}
  BY DEF TypeOK
<1>1. TypeOK'
  <2>1. cmd[p].message \in PeerMessages
    BY <1>0, CommandFields
  <2>2. answered' \subseteq Answer
    BY <2>1 DEF TypeOK, Answer
  <2>3. QED
    BY <2>2 DEF TypeOK, NoCommand, Command
<1>2. AnswersKept' /\ KeysUsedOnce'
  <2> DEFINE b == [kind |-> "plaintext", message |-> cmd[p].message]
  <2>1. store = group[p] /\ store # Absent /\ \A a \in answered : Remembers(store, a)
    BY GroupFields DEF StoreFollows, MemoryAhead, Worked
  <2>2. Remembers(store, b)
    BY <2>1 DEF Remembers, MemoryAhead, Worked
  <2>3. AnswersKept'
    BY <2>1, <2>2 DEF AnswersKept, Remembers
  <2>4. KeysUsedOnce'
    BY DEF KeysUsedOnce
  <2>5. QED
    BY <2>3, <2>4
<1>3. EpochsDrawn'
  BY DEF EpochsDrawn, MemoryAhead, Worked
<1>4. MemoryAhead(p)'
  BY DEF TypeOK, MemoryAhead, Worked
<1>5. OutputWritten(p)' /\ StoreFollows(p)'
  BY DEF TypeOK, OutputWritten, StoreFollows
<1>6. QED
  BY <1>1, <1>2, <1>3, <1>4, <1>5

LEMMA TruncatePreserves ==
  ASSUME NEW p \in Procs, InvFor(p), Truncate(p)
  PROVE  InvFor(p)'
<1> USE DEF InvFor, Truncate, Goto
<1>1. TypeOK'
  BY DEF TypeOK
<1>2. AnswersKept' /\ KeysUsedOnce'
  BY DEF AnswersKept, KeysUsedOnce
<1>3. EpochsDrawn'
  BY GroupFields DEF EpochsDrawn
<1>4. MemoryAhead(p)'
  BY DEF MemoryAhead, Worked
<1>5. OutputWritten(p)' /\ StoreFollows(p)'
  BY DEF TypeOK, OutputWritten, StoreFollows
<1>6. QED
  BY <1>1, <1>2, <1>3, <1>4, <1>5

LEMMA SavePreserves ==
  ASSUME NEW p \in Procs, InvFor(p), Save(p)
  PROVE  InvFor(p)'
<1> USE DEF InvFor, Save, Goto
<1>1. TypeOK'
  BY DEF TypeOK, MemoryAhead, Worked
<1>2. AnswersKept' /\ KeysUsedOnce'
  BY GroupFields DEF AnswersKept, KeysUsedOnce, MemoryAhead, Worked
<1>3. EpochsDrawn'
  BY DEF EpochsDrawn, StoreFollows, MemoryAhead, Worked
<1>4. MemoryAhead(p)'
  BY DEF MemoryAhead, Worked
<1>5. OutputWritten(p)' /\ StoreFollows(p)'
  BY DEF TypeOK, OutputWritten, StoreFollows
<1>6. QED
  BY <1>1, <1>2, <1>3, <1>4, <1>5

LEMMA ReloadPreserves ==
  ASSUME NEW p \in Procs, InvFor(p), Reload(p)
  PROVE  InvFor(p)'
<1> USE DEF InvFor, Reload, Goto, files
<1>1. TypeOK'
  BY DEF TypeOK
<1>2. AnswersKept' /\ KeysUsedOnce'
  BY DEF AnswersKept, KeysUsedOnce
<1>3. EpochsDrawn'
  BY DEF EpochsDrawn
<1>4. MemoryAhead(p)'
  BY DEF MemoryAhead, Worked
<1>5. OutputWritten(p)' /\ StoreFollows(p)'
  BY DEF OutputWritten, StoreFollows
<1>6. QED
  BY <1>1, <1>2, <1>3, <1>4, <1>5

LEMMA FailPreserves ==
  ASSUME NEW p \in Procs, InvFor(p), Fail(p)
  PROVE  InvFor(p)'
<1> USE DEF InvFor, Fail, Return, Goto, Holds, files
<1>1. TypeOK'
  BY DEF TypeOK, NoCommand, Command
<1>2. AnswersKept' /\ KeysUsedOnce'
  BY DEF AnswersKept, KeysUsedOnce
<1>3. EpochsDrawn'
  BY DEF EpochsDrawn
<1>4. MemoryAhead(p)'
  BY DEF TypeOK, MemoryAhead, Worked
<1>5. OutputWritten(p)' /\ StoreFollows(p)'
  BY DEF TypeOK, OutputWritten, StoreFollows
<1>6. QED
  BY <1>1, <1>2, <1>3, <1>4, <1>5

LEMMA StartPreserves ==
  ASSUME NEW p \in Procs, InvFor(p), NEW c \in Command, Start(p, c)
  PROVE  InvFor(p)'
<1> USE DEF InvFor, Start, Goto, files
<1>1. cmd'[p] = c /\ pc'[p] = c.kind /\ c.kind \in {"create", "add", "protect", "open"}
  BY CommandFields DEF TypeOK
<1>2. TypeOK'
  BY <1>1 DEF TypeOK
<1>3. AnswersKept' /\ KeysUsedOnce' /\ EpochsDrawn'
  BY DEF AnswersKept, KeysUsedOnce, EpochsDrawn
<1>4. MemoryAhead(p)' /\ OutputWritten(p)' /\ StoreFollows(p)'
  BY <1>1 DEF MemoryAhead, Worked, OutputWritten, StoreFollows
<1>5. QED
  BY <1>2, <1>3, <1>4

LEMMA StepPreserves ==
  ASSUME NEW p \in Procs, InvFor(p), Step(p)
  PROVE  InvFor(p)'
BY CreatePreserves, WriteSummaryPreserves, AddMemberPreserves, WriteWelcomePreserves,
   WelcomeAnswerPreserves, CheckLabelPreserves, ReserveLabelPreserves, ProtectPreserves,
   WriteMessagePreserves, MessageAnswerPreserves, OpenPreserves,
   PlaintextAnswerPreserves, TruncatePreserves, SavePreserves, ReloadPreserves DEF Step

LEMMA InitIInv == Init => IInv
<1> SUFFICES ASSUME Init PROVE IInv
  OBVIOUS
<1> USE DEF Init
<1>1. TypeOK
  BY NewGroupFields DEF TypeOK, Command, NoCommand
<1>2. AnswersKept /\ KeysUsedOnce /\ EpochsDrawn
  BY NewGroupFields, GroupFields DEF AnswersKept, KeysUsedOnce, EpochsDrawn
<1>3. \A p \in Procs : MemoryAhead(p) /\ OutputWritten(p) /\ StoreFollows(p)
  BY DEF MemoryAhead, Worked, OutputWritten, StoreFollows
<1>4. QED
  BY <1>1, <1>2, <1>3 DEF IInv

LEMMA NextIInv == ASSUME OneProcess PROVE IInv /\ [Next]_vars => IInv'
<1> SUFFICES ASSUME IInv, [Next]_vars PROVE IInv'
  OBVIOUS
<1>1. ASSUME NEW p \in Procs, InvFor(p)' PROVE IInv'
  BY <1>1 DEF OneProcess, IInv, InvFor
<1>2. ASSUME NEW p \in Procs PROVE InvFor(p)
  BY <1>2, InvariantForOne
<1>3. CASE UNCHANGED vars
  BY <1>3 DEF vars, files, IInv, TypeOK, AnswersKept, Remembers, KeysUsedOnce, EpochsDrawn,
              MemoryAhead, Worked, OutputWritten, StoreFollows
<1>4. CASE Next
  <2>1. ASSUME NEW p \in Procs, Step(p) PROVE IInv'
    BY <1>1, <1>2, <2>1, StepPreserves
  <2>2. ASSUME NEW p \in Procs, Fail(p) PROVE IInv'
    BY <1>1, <1>2, <2>2, FailPreserves
  <2>3. ASSUME NEW p \in Procs, NEW c \in Command, Start(p, c) PROVE IInv'
    BY <1>1, <1>2, <2>3, StartPreserves
  <2>4. QED
    BY <1>4, <2>1, <2>2, <2>3 DEF Next
<1>5. QED
  BY <1>3, <1>4

-----------------------------------------------------------------------------
(* Theorems *)

\* The strengthened invariant holds in every state of a device that runs one
\* sidecar command on the conversation at a time.
THEOREM Inductive == ASSUME OneProcess PROVE Spec => []IInv
<1>1. Init => IInv
  BY InitIInv
<1>2. IInv /\ [Next]_vars => IInv'
  BY NextIInv
<1>3. QED
  BY <1>1, <1>2, PTL DEF Spec

\* The provider storage remembers every answer of the sidecar: whatever was
\* returned, the group a later command loads has gone on from it.
THEOREM AnswersAreKept == ASSUME OneProcess PROVE Spec => []AnswersKept
<1>1. IInv => AnswersKept
  BY DEF IInv
<1>2. QED
  BY <1>1, Inductive, PTL

\* No two messages that message-protect returned use one key of the ratchet.
THEOREM NoKeyUsedTwice == ASSUME OneProcess PROVE Spec => []KeysUsedOnce
<1>1. IInv => KeysUsedOnce
  BY DEF IInv
<1>2. QED
  BY <1>1, Inductive, PTL

\* message-open returns the plaintext of a message at most once.
THEOREM NoMessageOpensTwice == ASSUME OneProcess PROVE Spec => ReplayRefused
<1> DEFINE A == \A p \in Procs :
                  PlaintextAnswer(p) =>
                    [kind |-> "plaintext", message |-> cmd[p].message] \notin answered
<1>1. IInv => A
  BY DEF IInv, MemoryAhead, Worked, PlaintextAnswer
<1>2. IInv /\ [Next]_vars => [A]_vars
  BY <1>1
<1> HIDE DEF A
<1>3. Spec => [][A]_vars
  BY <1>2, Inductive, PTL DEF Spec
<1>4. QED
  BY <1>3 DEF A, ReplayRefused

\* No command writes over a torn provider storage.
THEOREM TornStaysTorn == ASSUME OneProcess PROVE Spec => TornIsFinal
<1> DEFINE A == \A p \in Procs : Truncate(p) => store # Torn
<1>1. IInv => A
  BY DEF IInv, StoreFollows, Truncate
<1>2. IInv /\ [Next]_vars => [A]_vars
  BY <1>1
<1> HIDE DEF A
<1>3. Spec => [][A]_vars
  BY <1>2, Inductive, PTL DEF Spec
<1>4. QED
  BY <1>3 DEF A, TornIsFinal

\* Every state of a conversation directory is well typed.
THEOREM TypeCorrect == ASSUME OneProcess PROVE Spec => []TypeOK
<1>1. IInv => TypeOK
  BY DEF IInv
<1>2. QED
  BY <1>1, Inductive, PTL
===============================================================================
