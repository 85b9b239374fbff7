------------------------ MODULE MessageRelayProofs ------------------------
(***************************************************************************)
(* Machine-checked safety of the message commands, for any number of       *)
(* processes, labels, messages, envelopes and limits: the inductive        *)
(* invariant IInv; no double delivery, and no second submission or second  *)
(* use of a key, as long as no two sidecar calls overlap on a storage; and *)
(* the refinement of RelayDelivery, whatever overlaps.                     *)
(***************************************************************************)
EXTENDS MessageRelay, TLAPS

ProcessStep(p) ==
  \/ Step(p)
  \/ Failure(p)
  \/ \E l \in Labels : StartSend(p, l)
  \/ \E c \in InboxCommand : StartInbox(p, c)

\* The steps that end a command, and those that end the visit of an envelope.
Stops(p) ==
  \/ \E e \in Envelopes : Submit(p, e)
  \/ SendFails(p) \/ FetchFails(p) \/ Finish(p) \/ Crash(p)

Leaves(p) == WriteFails(p) \/ OpenFails(p) \/ ReloadFails(p) \/ Show(p) \/ InboxIOFailure(p)

-----------------------------------------------------------------------------
(* Types *)

LEMMA CommandArguments ==
  /\ \A c \in SendCommand : c.label \in Labels /\ c.kind = "send"
  /\ \A c \in InboxCommand : c.limit \in Limits /\ c.ack \in BOOLEAN /\ c.kind = "inbox"
  /\ NoCommand.kind = "none"
BY DEF SendCommand, InboxCommand, NoCommand

LEMMA MessageParts == \A c \in Message : c.label \in Labels /\ c.key \in Keys
BY DEF Message

LEMMA NoMessage ==
  /\ Absent \notin Message /\ Empty \notin Message /\ Absent # Empty
  /\ Nothing \notin Message \cup Other \cup Envelopes
  /\ \A used \in SUBSET Keys : Torn # used
BY MessageAssumption

\* The keys that are in use after the first ones.
LEMMA Intervals ==
  /\ \A k \in Keys : 1..k \in SUBSET Keys /\ 1..(k - 1) \in SUBSET Keys
  /\ \A k, n \in Keys : 1..k = 1..n => k = n
<1>1. MaxSent \in Nat
  BY MessageAssumption
<1>2. \A k \in Keys : 1..k \in SUBSET Keys /\ 1..(k - 1) \in SUBSET Keys
  BY <1>1 DEF Keys
<1>3. ASSUME NEW k \in Keys, NEW n \in Keys, 1..k = 1..n PROVE k = n
  <2>1. k \in 1..n /\ n \in 1..k
    BY <1>1, <1>3 DEF Keys
  <2>2. QED
    BY <1>1, <2>1 DEF Keys
<1>4. QED
  BY <1>2, <1>3

LEMMA InitType == Init => TypeOK
<1> SUFFICES ASSUME Init PROVE TypeOK
  OBVIOUS
<1>1. /\ relay \in [Envelopes -> {"unsent", "queued", "acknowledged"}]
      /\ content \in [Envelopes -> Message \cup Other \cup {Nothing}]
      /\ artifact \in [Labels -> Message \cup {Absent, Empty}]
      /\ storage \in [{"send", "inbox"} -> {Torn} \cup SUBSET Keys]
      /\ opened \subseteq Envelopes /\ shown \subseteq Keys
      /\ overlapped \subseteq {"send", "inbox"}
  BY DEF Init
<1>2. /\ pc \in [Procs -> {"idle", "trust", "protect", "reserve", "load", "artifact",
                           "truncate", "save", "reload", "report", "submit",
                           "fetch", "next", "write", "open", "ack", "show"}]
      /\ cmd \in [Procs -> SendCommand \cup InboxCommand \cup {NoCommand}]
      /\ memory \in [Procs -> SUBSET Keys]
      /\ rest \in [Procs -> SUBSET Envelopes]
      /\ at \in [Procs -> Envelopes \cup {Nothing}]
      /\ count \in [Procs -> Nat]
  BY DEF Init
<1>3. QED
  BY <1>1, <1>2 DEF TypeOK

LEMMA NextType == IInv /\ [Next]_vars => TypeOK'
<1> SUFFICES ASSUME IInv, [Next]_vars PROVE TypeOK'
  OBVIOUS
<1>0. TypeOK /\ \A p \in Procs : Position(p)
  BY DEF IInv
<1> USE DEF TypeOK, posts, loop, ghosts
<1>1. CASE UNCHANGED vars
  BY <1>0, <1>1 DEF vars
<1>2. ASSUME NEW e \in Envelopes, NEW c \in Other, Deliver(e, c) PROVE TypeOK'
  BY <1>0, <1>2 DEF Deliver, Post
<1>3. ASSUME NEW p \in Procs, Forget(p)
      PROVE  /\ pc' \in [Procs -> {"idle", "trust", "protect", "reserve", "load", "artifact",
                                   "truncate", "save", "reload", "report", "submit",
                                   "fetch", "next", "write", "open", "ack", "show"}]
             /\ cmd' \in [Procs -> SendCommand \cup InboxCommand \cup {NoCommand}]
             /\ memory' \in [Procs -> SUBSET Keys]
             /\ rest' \in [Procs -> SUBSET Envelopes]
             /\ at' \in [Procs -> Envelopes \cup {Nothing}]
             /\ count' \in [Procs -> Nat]
  BY <1>0, <1>3 DEF Forget, Goto
<1>4. ASSUME NEW p \in Procs, SendFails(p) \/ FetchFails(p) \/ Finish(p) \/ Crash(p)
      PROVE  TypeOK'
  BY <1>0, <1>3, <1>4 DEF SendFails, FetchFails, Finish, Crash
<1>5. ASSUME NEW p \in Procs, NEW l \in Labels, StartSend(p, l) PROVE TypeOK'
  <2>1. [kind |-> "send", label |-> l] \in SendCommand
    BY DEF SendCommand
  <2>2. QED
    BY <1>0, <1>5, <2>1 DEF StartSend, Goto
<1>6. ASSUME NEW p \in Procs, NEW c \in InboxCommand, StartInbox(p, c) PROVE TypeOK'
  BY <1>0, <1>6 DEF StartInbox, Goto
<1>7. ASSUME NEW p \in Procs,
             TrustAllows(p) \/ WriteArtifact(p) \/ Reload(p) \/ Protected(p)
      PROVE  TypeOK'
  BY <1>0, <1>7 DEF TrustAllows, WriteArtifact, Reload, Protected, Goto
<1>8. ASSUME NEW p \in Procs, CheckLabel(p) PROVE TypeOK'
  <2>1. cmd[p].kind = "send"
    BY <1>0, <1>8, CommandArguments DEF CheckLabel, Position
  <2>2. QED
    BY <1>0, <1>8, <2>1 DEF CheckLabel, Begins, Goto
<1>9. ASSUME NEW p \in Procs, Reserve(p) PROVE TypeOK'
  BY <1>0, <1>9 DEF Reserve, Goto
<1>10. ASSUME NEW p \in Procs, Protect(p) PROVE TypeOK'
  BY <1>0, <1>10, Intervals DEF Protect, Goto
<1>11. ASSUME NEW p \in Procs, WriteMessage(p) PROVE TypeOK'
  <2>1. cmd[p].label \in Labels
    BY <1>0, <1>11, CommandArguments DEF WriteMessage, Position
  <2>2. PICK k \in Keys :
          artifact' = [artifact EXCEPT ![cmd[p].label] = [label |-> cmd[p].label, key |-> k]]
    BY <1>11 DEF WriteMessage
  <2>3. [label |-> cmd[p].label, key |-> k] \in Message
    BY <2>1 DEF Message
  <2>4. artifact' \in [Labels -> Message \cup {Absent, Empty}]
    BY <1>0, <2>2, <2>3
  <2>5. QED
    BY <1>0, <1>11, <2>4 DEF WriteMessage, Goto
<1>12. ASSUME NEW p \in Procs, Truncate(p) \/ Save(p) PROVE TypeOK'
  <2>1. PICK text \in {Torn} \cup SUBSET Keys :
          storage' = [storage EXCEPT ![cmd[p].kind] = text]
    BY <1>0, <1>12 DEF Truncate, Save
  <2>2. storage' \in [{"send", "inbox"} -> {Torn} \cup SUBSET Keys]
    BY <1>0, <2>1
  <2>3. pc' = [pc EXCEPT ![p] = "save"] \/ pc' = [pc EXCEPT ![p] = "reload"]
    BY <1>12 DEF Truncate, Save, Goto
  <2>4. QED
    BY <1>0, <1>12, <2>2, <2>3 DEF Truncate, Save
<1>13. ASSUME NEW p \in Procs, NEW e \in Envelopes, Submit(p, e) PROVE TypeOK'
  <2>1. artifact[cmd[p].label] \in Message
    BY <1>0, <1>13, CommandArguments DEF Submit, Position
  <2>2. QED
    BY <1>0, <1>3, <1>13, <2>1 DEF Submit, Post
<1>14. ASSUME NEW p \in Procs, Fetch(p) PROVE TypeOK'
  BY <1>0, <1>14 DEF Fetch, Goto
<1>15. ASSUME NEW p \in Procs, NEW e \in Envelopes, SkipUnsupported(p, e) \/ Visit(p, e)
       PROVE  TypeOK'
  <2>1. rest' \in [Procs -> SUBSET Envelopes]
    BY <1>0, <1>15 DEF SkipUnsupported, Visit
  <2>2. CASE SkipUnsupported(p, e)
    BY <1>0, <2>1, <2>2 DEF SkipUnsupported
  <2>3. CASE Visit(p, e)
    BY <1>0, <2>1, <2>3 DEF Visit, Goto
  <2>4. QED
    BY <1>15, <2>2, <2>3
<1>16. ASSUME NEW p \in Procs, WriteFails(p) \/ OpenFails(p) \/ ReloadFails(p) PROVE TypeOK'
  BY <1>0, <1>16 DEF WriteFails, OpenFails, ReloadFails, Continue, Goto
<1>17. ASSUME NEW p \in Procs, Open(p) PROVE TypeOK'
  <2>1. cmd[p].kind = "inbox"
    BY <1>0, <1>17, CommandArguments DEF Open, Position
  <2>2. content[at[p]].key \in Keys /\ storage["inbox"] \in SUBSET Keys
    BY <1>0, <1>17, MessageParts DEF Open, Opens
  <2>3. QED
    BY <1>0, <1>17, <2>1, <2>2 DEF Open, Begins, Goto
<1>18. ASSUME NEW p \in Procs, Opened(p) PROVE TypeOK'
  <2>1. at[p] \in Envelopes
    BY <1>0, <1>18 DEF Opened, Position, Opening
  <2>2. QED
    BY <1>0, <1>18, <2>1 DEF Opened, Goto
<1>19. ASSUME NEW p \in Procs, Ack(p) PROVE TypeOK'
  BY <1>0, <1>19 DEF Ack, Goto
<1>20. ASSUME NEW p \in Procs, Show(p) PROVE TypeOK'
  <2>1. content[at[p]].key \in Keys
    BY <1>0, <1>20, MessageParts DEF Show, Position, Opening, HasPlaintext
  <2>2. QED
    BY <1>0, <1>20, <2>1 DEF Show, Continue, Goto
<1>21. ASSUME NEW p \in Procs, InboxIOFailure(p) PROVE TypeOK'
  BY <1>0, <1>21 DEF InboxIOFailure, Continue, Goto
<1>22. QED
  BY <1>1, <1>2, <1>4, <1>5, <1>6, <1>7, <1>8, <1>9, <1>10, <1>11, <1>12, <1>13, <1>14,
     <1>15, <1>16, <1>17, <1>18, <1>19, <1>20, <1>21
  DEF Next, Step, Failure

-----------------------------------------------------------------------------
(* What a step does *)

\* A step of p leaves the position and the memory of the others alone.
LEMMA OthersUntouched ==
  ASSUME TypeOK, NEW p \in Procs, NEW q \in Procs, p # q, ProcessStep(p)
  PROVE  /\ pc'[q] = pc[q] /\ cmd'[q] = cmd[q] /\ memory'[q] = memory[q]
         /\ rest'[q] = rest[q] /\ at'[q] = at[q]
<1> USE DEF TypeOK, ProcessStep, Step, Failure, StartSend, StartInbox, TrustAllows,
        CheckLabel, Reserve, Protect, WriteMessage, Truncate, Save, Reload, Protected, Submit,
        SendFails, Fetch, FetchFails, Finish, SkipUnsupported, Visit, WriteArtifact,
        WriteFails, Open, OpenFails, ReloadFails, Opened, Ack, Show, InboxIOFailure, Crash,
        Forget, Continue, loop
<1>1. pc'[q] = pc[q]
  BY DEF Goto
<1>2. cmd'[q] = cmd[q]
  OBVIOUS
<1>3. memory'[q] = memory[q]
  OBVIOUS
<1>4. rest'[q] = rest[q]
  OBVIOUS
<1>5. at'[q] = at[q]
  OBVIOUS
<1>6. QED
  BY <1>1, <1>2, <1>3, <1>4, <1>5

\* Of the steps of p, few change what the processes share.
LEMMA WhoWrites ==
  ASSUME NEW p \in Procs, ProcessStep(p)
  PROVE  /\ relay' # relay \/ content' # content =>
              Ack(p) \/ \E e \in Envelopes : Submit(p, e)
         /\ artifact' # artifact => Reserve(p) \/ WriteMessage(p)
         /\ storage' # storage => Truncate(p) \/ Save(p)
         /\ opened' # opened => Opened(p)
         /\ shown' # shown => Show(p)
         /\ overlapped' # overlapped => CheckLabel(p) \/ Open(p)
BY DEF ProcessStep, Step, Failure, StartSend, StartInbox, TrustAllows, CheckLabel, Reserve,
   Protect, WriteMessage, Truncate, Save, Reload, Protected, Submit, SendFails, Fetch,
   FetchFails, Finish, SkipUnsupported, Visit, WriteArtifact, WriteFails, Open, OpenFails,
   ReloadFails, Opened, Ack, Show, InboxIOFailure, Crash, posts, ghosts

\* What p knows after a step that ends its command, or the visit of an envelope.
LEMMA AfterStop ==
  ASSUME TypeOK, NEW p \in Procs, Stops(p)
  PROVE  pc'[p] = "idle" /\ cmd'[p] = NoCommand /\ at'[p] = Nothing /\ rest'[p] = {}
BY DEF TypeOK, Stops, Submit, SendFails, FetchFails, Finish, Crash, Forget, Goto

LEMMA AfterLeave ==
  ASSUME TypeOK, NEW p \in Procs, Leaves(p), Position(p)
  PROVE  /\ pc'[p] = "next" /\ cmd'[p] = cmd[p] /\ at'[p] = Nothing /\ rest'[p] = rest[p]
         /\ cmd[p] \in InboxCommand
<1>1. pc'[p] = "next" /\ cmd'[p] = cmd[p] /\ at'[p] = Nothing /\ rest'[p] = rest[p]
  BY DEF TypeOK, Leaves, WriteFails, OpenFails, ReloadFails, Show, InboxIOFailure, Continue,
     Goto
<1>2. pc[p] \in {"write", "open", "show"} => cmd[p] \in InboxCommand
  BY DEF Position
<1>3. cmd[p].kind = "inbox" => cmd[p] \in InboxCommand
  BY CommandArguments DEF TypeOK
<1>4. QED
  BY <1>1, <1>2, <1>3
  DEF Leaves, WriteFails, OpenFails, ReloadFails, Show, InboxIOFailure

\* What has been posted stays posted, and keeps its content.
LEMMA PostedStays ==
  ASSUME TypeOK, [Next]_vars, NEW e \in Envelopes, relay[e] # "unsent"
  PROVE  relay'[e] # "unsent" /\ content'[e] = content[e]
<1>1. CASE UNCHANGED vars
  BY <1>1 DEF vars, posts
<1>2. ASSUME NEW f \in Envelopes, NEW c \in Other, Deliver(f, c)
      PROVE  relay'[e] # "unsent" /\ content'[e] = content[e]
  BY <1>2 DEF TypeOK, Deliver, Post
<1>3. ASSUME NEW p \in Procs, NEW f \in Envelopes, Submit(p, f)
      PROVE  relay'[e] # "unsent" /\ content'[e] = content[e]
  BY <1>3 DEF TypeOK, Submit, Post
<1>4. ASSUME NEW p \in Procs, Ack(p) PROVE relay'[e] # "unsent" /\ content'[e] = content[e]
  BY <1>4 DEF TypeOK, Ack
<1>5. QED
  BY <1>1, <1>2, <1>3, <1>4, WhoWrites DEF Next, ProcessStep

\* A message directory with a message in it never loses it.
LEMMA ArtifactStays ==
  ASSUME TypeOK, \A p \in Procs : Position(p), [Next]_vars, NEW l \in Labels,
         artifact[l] \in Message
  PROVE  artifact'[l] \in Message
<1>1. CASE UNCHANGED vars
  BY <1>1 DEF vars
<1>2. ASSUME NEW f \in Envelopes, NEW c \in Other, Deliver(f, c) PROVE artifact'[l] \in Message
  BY <1>2 DEF Deliver
<1>3. ASSUME NEW p \in Procs, Reserve(p) PROVE artifact'[l] \in Message
  BY <1>3, NoMessage DEF TypeOK, Reserve
<1>4. ASSUME NEW p \in Procs, WriteMessage(p) PROVE artifact'[l] \in Message
  <2>1. cmd[p].label \in Labels
    BY <1>4, CommandArguments DEF WriteMessage, Position
  <2>2. PICK k \in Keys :
          artifact' = [artifact EXCEPT ![cmd[p].label] = [label |-> cmd[p].label, key |-> k]]
    BY <1>4 DEF WriteMessage
  <2>3. [label |-> cmd[p].label, key |-> k] \in Message
    BY <2>1 DEF Message
  <2>4. QED
    BY <2>2, <2>3 DEF TypeOK
<1>5. QED
  BY <1>1, <1>2, <1>3, <1>4, WhoWrites DEF Next, ProcessStep

-----------------------------------------------------------------------------
(* The parts of the invariant that hold whatever overlaps *)

\* The halves of Position: what has been fetched, and the rest.
Received(p) ==
  /\ \A e \in rest[p] : relay[e] # "unsent"
  /\ at[p] # Nothing => relay[at[p]] # "unsent"

Arguments(p) ==
  /\ pc[p] \in {"trust", "protect", "reserve", "load", "artifact", "submit"} =>
       cmd[p] \in SendCommand
  /\ pc[p] \in {"fetch", "next", "write", "open", "ack", "show"} => cmd[p] \in InboxCommand
  /\ pc[p] \in {"truncate", "save", "reload", "report"} => cmd[p] # NoCommand
  /\ cmd[p].kind = "send" /\ pc[p] \in {"truncate", "save", "reload", "report", "submit"} =>
       artifact[cmd[p].label] \in Message
  /\ pc[p] \in {"write", "open"} => at[p] # Nothing
  /\ Opening(p) => at[p] # Nothing /\ content[at[p]] \in Message
  /\ HasPlaintext(p) => at[p] \in opened

LEMMA PositionParts == \A p \in Procs : Position(p) <=> Received(p) /\ Arguments(p)
BY DEF Position, Received, Arguments

LEMMA NextReceived == IInv /\ [Next]_vars => \A q \in Procs : Received(q)'
<1> SUFFICES ASSUME IInv, [Next]_vars, NEW q \in Procs PROVE Received(q)'
  OBVIOUS
<1>0. TypeOK /\ Received(q) /\ Position(q)
  BY PositionParts DEF IInv
<1>1. ASSUME rest'[q] \subseteq rest[q], at'[q] \in {at[q], Nothing} \cup rest[q]
      PROVE  Received(q)'
  BY <1>0, <1>1, PostedStays DEF TypeOK, Received
<1>2. CASE UNCHANGED vars \/ \E e \in Envelopes, c \in Other : Deliver(e, c)
  BY <1>1, <1>2 DEF vars, loop, Deliver
<1>3. ASSUME NEW p \in Procs, Fetch(p) PROVE Received(q)'
  <2>1. CASE p = q
    <3>1. rest'[q] = {e \in Envelopes : relay[e] = "queued"}
          /\ UNCHANGED <<relay, at>>
      BY <1>0, <1>3, <2>1 DEF TypeOK, Fetch, posts
    <3>2. QED
      BY <1>0, <3>1 DEF Received
  <2>2. CASE p # q
    BY <1>0, <1>1, <1>3, <2>2 DEF TypeOK, Fetch
  <2>3. QED
    BY <2>1, <2>2
<1>4. ASSUME NEW p \in Procs, ProcessStep(p), ~Fetch(p) PROVE Received(q)'
  <2>1. CASE p # q
    BY <1>0, <1>1, <1>4, <2>1, OthersUntouched
  <2>2. CASE p = q /\ (Stops(p) \/ Leaves(p))
    BY <1>0, <1>1, <2>2, AfterStop, AfterLeave
  <2>3. CASE p = q /\ ~Stops(p) /\ ~Leaves(p)
    <3>1. rest'[q] \subseteq rest[q] /\ at'[q] \in {at[q], Nothing} \cup rest[q]
      BY <1>0, <1>4, <2>3
      DEF TypeOK, ProcessStep, Step, Failure, Stops, Leaves, StartSend, StartInbox,
          TrustAllows, CheckLabel, Reserve, Protect, WriteMessage, Truncate, Save, Reload,
          Protected, SkipUnsupported, Visit, WriteArtifact, Open, Opened, Ack, loop
    <3>2. QED
      BY <1>1, <3>1
  <2>4. QED
    BY <2>1, <2>2, <2>3
<1>5. QED
  BY <1>2, <1>3, <1>4 DEF Next, ProcessStep

LEMMA NextArguments == IInv /\ [Next]_vars => \A q \in Procs : Arguments(q)'
<1> SUFFICES ASSUME IInv, [Next]_vars, NEW q \in Procs PROVE Arguments(q)'
  OBVIOUS
<1>0. TypeOK /\ \A p \in Procs : Position(p)
  BY DEF IInv
<1>01. Arguments(q) /\ Received(q)
  BY <1>0, PositionParts
<1>02. opened \subseteq opened'
  BY WhoWrites DEF Next, ProcessStep, vars, ghosts, Deliver, Opened
<1>03. at[q] # Nothing => content'[at[q]] = content[at[q]]
  BY <1>0, <1>01, PostedStays DEF TypeOK, Received
<1>04. cmd[q].kind = "send" /\ artifact[cmd[q].label] \in Message =>
         artifact'[cmd[q].label] \in Message
  <2>1. cmd[q].kind = "send" => cmd[q].label \in Labels
    BY <1>0, CommandArguments DEF TypeOK
  <2>2. QED
    BY <1>0, <2>1, ArtifactStays
<1>2. ASSUME pc'[q] = pc[q], cmd'[q] = cmd[q], at'[q] = at[q] PROVE Arguments(q)'
  BY <1>01, <1>02, <1>03, <1>04, <1>2 DEF Arguments, Opening, HasPlaintext
<1>3. CASE UNCHANGED vars \/ \E e \in Envelopes, c \in Other : Deliver(e, c)
  BY <1>2, <1>3 DEF vars, loop, Deliver
<1>4. ASSUME NEW p \in Procs, p # q, ProcessStep(p) PROVE Arguments(q)'
  BY <1>0, <1>2, <1>4, OthersUntouched
<1>5. ASSUME ProcessStep(q) PROVE Arguments(q)'
  <2> USE DEF Arguments, Opening, HasPlaintext
  <2>1. CASE Stops(q)
    <3>1. pc'[q] = "idle"
      BY <1>0, <2>1, AfterStop
    <3>2. QED
      BY <3>1
  <2>2. CASE Leaves(q)
    <3>1. pc'[q] = "next" /\ cmd'[q] \in InboxCommand
      BY <1>0, <2>2, AfterLeave
    <3>2. QED
      BY <3>1
  <2>3. ASSUME NEW l \in Labels, StartSend(q, l) PROVE Arguments(q)'
    <3>1. pc'[q] = "trust" /\ cmd'[q] \in SendCommand
      BY <1>0, <2>3 DEF TypeOK, StartSend, Goto, SendCommand
    <3>2. QED
      BY <3>1
  <2>4. ASSUME NEW c \in InboxCommand, StartInbox(q, c) PROVE Arguments(q)'
    <3>1. pc'[q] = "fetch" /\ cmd'[q] \in InboxCommand
      BY <1>0, <2>4 DEF TypeOK, StartInbox, Goto
    <3>2. QED
      BY <3>1
  <2>5. CASE TrustAllows(q) \/ CheckLabel(q) \/ Reserve(q) \/ Protect(q)
    <3>1. /\ pc[q] \in {"trust", "protect", "reserve", "load"}
          /\ pc'[q] \in {"protect", "reserve", "load", "artifact"}
          /\ cmd' = cmd
      BY <1>0, <2>5 DEF TypeOK, TrustAllows, CheckLabel, Reserve, Protect, Goto
    <3>2. QED
      BY <1>01, <3>1
  <2>6. CASE WriteMessage(q)
    <3>1. pc[q] = "artifact" /\ pc'[q] = "truncate" /\ cmd' = cmd
      BY <1>0, <2>6 DEF TypeOK, WriteMessage, Goto
    <3>2. cmd[q] \in SendCommand
      BY <1>01, <3>1
    <3>3. PICK k \in Keys :
          artifact' = [artifact EXCEPT ![cmd[q].label] = [label |-> cmd[q].label, key |-> k]]
      BY <2>6 DEF WriteMessage
    <3>4. artifact'[cmd[q].label] \in Message
      BY <1>0, <3>2, <3>3, CommandArguments DEF TypeOK, Message
    <3>5. cmd[q].kind = "send" /\ cmd[q] # NoCommand
      BY <3>2, CommandArguments
    <3>6. QED
      BY <3>1, <3>4, <3>5
  <2>7. CASE Truncate(q) \/ Save(q) \/ Reload(q)
    <3>1. /\ pc[q] \in {"truncate", "save", "reload"} /\ pc'[q] \in {"save", "reload", "report"}
          /\ cmd' = cmd /\ at' = at
      BY <1>0, <2>7 DEF TypeOK, Truncate, Save, Reload, Goto, loop
    <3>2. QED
      BY <1>01, <1>03, <1>04, <3>1
  <2>8. CASE Protected(q)
    <3>1. /\ pc[q] = "report" /\ pc'[q] = "submit" /\ cmd' = cmd /\ cmd[q].kind = "send"
      BY <1>0, <2>8 DEF TypeOK, Protected, Goto
    <3>2. cmd[q] \in SendCommand
      BY <1>0, <3>1, CommandArguments DEF TypeOK
    <3>3. QED
      BY <1>01, <1>04, <3>1, <3>2
  <2>9. CASE Fetch(q)
    <3>1. pc[q] = "fetch" /\ pc'[q] = "next" /\ cmd' = cmd
      BY <1>0, <2>9 DEF TypeOK, Fetch, Goto
    <3>2. QED
      BY <1>01, <3>1
  <2>10. ASSUME NEW e \in Envelopes, SkipUnsupported(q, e) PROVE Arguments(q)'
    BY <1>2, <2>10 DEF SkipUnsupported
  <2>11. ASSUME NEW e \in Envelopes, Visit(q, e) PROVE Arguments(q)'
    <3>1. pc[q] = "next" /\ pc'[q] = "write" /\ at'[q] = e /\ cmd' = cmd
      BY <1>0, <2>11 DEF TypeOK, Visit, Goto
    <3>2. QED
      BY <1>01, <3>1, NoMessage
  <2>12. CASE WriteArtifact(q)
    <3>1. pc[q] = "write" /\ pc'[q] = "open" /\ at' = at /\ cmd' = cmd
      BY <1>0, <2>12 DEF TypeOK, WriteArtifact, Goto, loop
    <3>2. QED
      BY <1>01, <3>1
  <2>13. CASE Open(q)
    <3>1. /\ pc[q] = "open" /\ pc'[q] = "truncate" /\ at' = at /\ cmd' = cmd
          /\ content[at[q]] \in Message
      BY <1>0, <2>13 DEF TypeOK, Open, Opens, Goto, loop
    <3>2. cmd[q].kind = "inbox" /\ cmd[q] # NoCommand
      BY <1>01, <3>1, CommandArguments
    <3>3. QED
      BY <1>01, <1>03, <3>1, <3>2
  <2>14. CASE Opened(q)
    <3>1. /\ pc[q] = "report" /\ pc'[q] \in {"ack", "show"} /\ at' = at /\ cmd' = cmd
          /\ cmd[q].kind = "inbox" /\ at[q] \in opened'
      BY <1>0, <2>14 DEF TypeOK, Opened, Goto
    <3>2. cmd[q] \in InboxCommand
      BY <1>0, <3>1, CommandArguments DEF TypeOK
    <3>3. QED
      BY <1>01, <1>03, <3>1, <3>2
  <2>15. CASE Ack(q)
    <3>1. pc[q] = "ack" /\ pc'[q] = "show" /\ at' = at /\ cmd' = cmd
      BY <1>0, <2>15 DEF TypeOK, Ack, Goto, loop
    <3>2. QED
      BY <1>01, <1>02, <1>03, <3>1
  <2>16. QED
    BY <1>5, <2>1, <2>2, <2>3, <2>4, <2>5, <2>6, <2>7, <2>8, <2>9, <2>10, <2>11, <2>12,
       <2>13, <2>14, <2>15
    DEF ProcessStep, Step, Failure, Stops, Leaves
<1>6. QED
  BY <1>3, <1>4, <1>5 DEF Next, ProcessStep

LEMMA NextPosted == IInv /\ [Next]_vars => Posted'
<1> SUFFICES ASSUME IInv, [Next]_vars PROVE Posted'
  OBVIOUS
<1>0. TypeOK /\ Posted /\ \A p \in Procs : Position(p)
  BY DEF IInv
<1>1. CASE UNCHANGED vars
  BY <1>0, <1>1 DEF vars, posts, ghosts, Posted
<1>2. ASSUME NEW f \in Envelopes, NEW c \in Message \cup Other, Post(f, c), opened' = opened
      PROVE  Posted'
  BY <1>0, <1>2, NoMessage DEF TypeOK, Post, Posted
<1>3. ASSUME NEW f \in Envelopes, NEW c \in Other, Deliver(f, c) PROVE Posted'
  BY <1>2, <1>3 DEF Deliver, ghosts
<1>4. ASSUME NEW p \in Procs, NEW f \in Envelopes, Submit(p, f) PROVE Posted'
  <2>1. artifact[cmd[p].label] \in Message
    BY <1>0, <1>4, CommandArguments DEF Submit, Position
  <2>2. QED
    BY <1>2, <1>4, <2>1 DEF Submit, ghosts
<1>5. ASSUME NEW p \in Procs, Ack(p) PROVE Posted'
  <2>1. at[p] \in opened /\ relay[at[p]] # "unsent"
    BY <1>0, <1>5, NoMessage DEF TypeOK, Ack, Position, HasPlaintext
  <2>2. PICK taken \in BOOLEAN :
          relay' = [relay EXCEPT ![at[p]] = IF taken THEN "acknowledged" ELSE @]
    BY <1>5 DEF Ack
  <2>3. QED
    BY <1>0, <1>5, <2>1, <2>2 DEF TypeOK, Posted, Ack, ghosts
<1>6. ASSUME NEW p \in Procs, ProcessStep(p), relay' = relay, content' = content
      PROVE  Posted'
  <2>1. opened \subseteq opened'
    BY <1>6, WhoWrites DEF Opened
  <2>2. QED
    BY <1>0, <1>6, <2>1 DEF Posted
<1>7. QED
  BY <1>1, <1>3, <1>4, <1>5, <1>6, WhoWrites DEF Next, ProcessStep

-----------------------------------------------------------------------------
(* Sends that do not overlap *)

\* The steps of a send that has its label.
SendMoves(p) ==
  \/ CheckLabel(p) \/ Reserve(p) \/ Protect(p) \/ WriteMessage(p)
  \/ cmd[p].kind = "send" /\ (Truncate(p) \/ Save(p) \/ Reload(p))
  \/ Protected(p)

\* What the invariant says of sends is about those that have their labels.
LEMMA SendFrame ==
  ASSUME SendSafe, SubmittedOnce, "send" \notin overlapped,
         artifact' = artifact, storage'["send"] = storage["send"],
         \A e \in Envelopes : content'[e] \in Message => content'[e] = content[e],
         \A q \in Procs : HasLabel(q)' =>
           /\ HasLabel(q) /\ cmd'[q] = cmd[q] /\ memory'[q] = memory[q]
           /\ pc'[q] = pc[q] \/ (pc[q] = "report" /\ pc'[q] = "submit")
  PROVE  SendSafe' /\ SubmittedOnce'
<1>1. \A q \in Procs : HasKey(q)' => HasLabel(q)' /\ HasKey(q)
  BY DEF HasKey, HasLabel
<1>2. \A q \in Procs : InCall(q)' /\ cmd'[q].kind = "send" => HasLabel(q)' /\ InCall(q)
  BY DEF InCall, HasLabel
<1>3. Alone("send")'
  BY <1>2 DEF SendSafe, Alone, InCall
<1>4. ASSUME NEW p \in Procs PROVE SendPosition(p)'
  <2>1. CASE HasLabel(p)'
    <3>1. SendPosition(p) /\ HasLabel(p)
      BY <2>1 DEF SendSafe
    <3>2. /\ pc'[p] = pc[p] \/ (pc[p] = "report" /\ pc'[p] = "submit")
          /\ cmd'[p] = cmd[p] /\ memory'[p] = memory[p]
      BY <2>1
    <3>3. QED
      BY <3>1, <3>2 DEF SendPosition, HasLabel, HasKey
  <2>2. CASE ~HasLabel(p)'
    BY <2>2 DEF SendPosition, HasLabel, HasKey
  <2>3. QED
    BY <2>1, <2>2
<1>5. Spent' \subseteq Spent
  BY <1>1 DEF Spent
<1>6. SpentForGood'
  <2>1. \A p \in Procs :
          cmd'[p].kind = "send" /\ pc'[p] \in {"artifact", "truncate", "save"} =>
            HasLabel(p)'
    BY DEF HasLabel
  <2>2. QED
    BY <1>5, <2>1 DEF SendSafe, SpentForGood
<1>7. \A e \in Envelopes : content'[e] \in Message => artifact'[content'[e].label] # Absent
  BY DEF SendSafe
<1>8. \A p \in Procs : HasLabel(p)' =>
        /\ \A q \in Procs : HasLabel(q)' /\ cmd'[q].label = cmd'[p].label => q = p
        /\ \A e \in Envelopes : content'[e] \in Message => content'[e].label # cmd'[p].label
  BY DEF SendSafe
<1>9. \A p \in Procs : HasKey(p)' =>
        /\ \A q \in Procs :
             HasKey(q)' /\ artifact'[cmd'[q].label].key = artifact'[cmd'[p].label].key => q = p
        /\ \A e \in Envelopes :
             content'[e] \in Message => content'[e].key # artifact'[cmd'[p].label].key
  BY <1>1 DEF SendSafe
<1>10. SendSafe'
  BY <1>3, <1>4, <1>6, <1>7, <1>8, <1>9 DEF SendSafe
<1>11. SubmittedOnce'
  BY DEF SubmittedOnce
<1>12. QED
  BY <1>10, <1>11

\* A send gets its label by looking for it.
LEMMA WhoHasLabel ==
  ASSUME TypeOK, NEW p \in Procs, Position(p), ProcessStep(p), HasLabel(p)'
  PROVE  SendMoves(p)
<1>1. CASE Stops(p) \/ Leaves(p)
  BY <1>1, AfterStop, AfterLeave, CommandArguments DEF HasLabel
<1>2. ASSUME NEW l \in Labels, StartSend(p, l) PROVE SendMoves(p)
  BY <1>2 DEF TypeOK, StartSend, Goto, HasLabel
<1>3. ASSUME NEW c \in InboxCommand, StartInbox(p, c) PROVE SendMoves(p)
  BY <1>3 DEF TypeOK, StartInbox, Goto, HasLabel
<1>4. CASE TrustAllows(p) \/ Fetch(p) \/ (\E e \in Envelopes : Visit(p, e)) \/ WriteArtifact(p)
  BY <1>4 DEF TypeOK, TrustAllows, Fetch, Visit, WriteArtifact, Goto, HasLabel
<1>5. CASE \E e \in Envelopes : SkipUnsupported(p, e)
  BY <1>5 DEF SkipUnsupported, HasLabel
<1>6. CASE Open(p) \/ Opened(p) \/ Ack(p)
  <2>1. cmd' = cmd
    BY <1>6 DEF Open, Opened, Ack
  <2>2. cmd[p].kind = "inbox"
    BY <1>6, CommandArguments DEF Open, Opened, Ack, Position
  <2>3. QED
    BY <2>1, <2>2 DEF HasLabel
<1>7. CASE Truncate(p) \/ Save(p) \/ Reload(p)
  <2>1. cmd' = cmd
    BY <1>7 DEF Truncate, Save, Reload
  <2>2. QED
    BY <1>7, <2>1 DEF HasLabel, SendMoves
<1>8. QED
  BY <1>1, <1>2, <1>3, <1>4, <1>5, <1>6, <1>7
  DEF ProcessStep, Step, Failure, Stops, Leaves, SendMoves

\* When the send of p is the only one in its call, a step of its call is safe if it
\* leaves p where it should be, and no spent key to be drawn again.
SendStepOf(p) ==
  /\ cmd[p] \in SendCommand /\ cmd'[p] = cmd[p] /\ content' = content
  /\ \A q \in Procs : q # p =>
       /\ pc'[q] = pc[q] /\ cmd'[q] = cmd[q] /\ memory'[q] = memory[q]
       /\ ~(InCall(q) /\ cmd[q].kind = "send")
       /\ HasLabel(q) => cmd[q].label # cmd[p].label
  /\ \A e \in Envelopes : content[e] \in Message => content[e].label # cmd[p].label
  /\ \A l \in Labels : /\ l # cmd[p].label => artifact'[l] = artifact[l]
                       /\ artifact[l] # Absent => artifact'[l] # Absent

LEMMA SendOthers ==
  ASSUME TypeOK, SendSafe, NEW p \in Procs, SendStepOf(p), NEW q \in Procs, q # p
  PROVE  /\ HasLabel(q)' <=> HasLabel(q)
         /\ HasKey(q)' <=> HasKey(q)
         /\ InCall(q)' <=> InCall(q)
         /\ HasLabel(q) => /\ HasKey(q) /\ pc[q] \in {"report", "submit"}
                           /\ artifact'[cmd[q].label] = artifact[cmd[q].label]
<1>1. pc'[q] = pc[q] /\ cmd'[q] = cmd[q]
  BY DEF SendStepOf
<1>2. HasLabel(q) => cmd[q].label \in Labels /\ cmd[q].label # cmd[p].label
  BY CommandArguments DEF SendStepOf, HasLabel, TypeOK
<1>3. HasLabel(q) => HasKey(q) /\ pc[q] \in {"report", "submit"}
  BY DEF SendStepOf, HasLabel, HasKey, InCall
<1>4. QED
  BY <1>1, <1>2, <1>3 DEF SendStepOf, HasLabel, HasKey, InCall

LEMMA SpentLocal ==
  ASSUME TypeOK, SendSafe, NEW p \in Procs, SendStepOf(p)
  PROVE  /\ ~HasKey(p)' => Spent' \subseteq Spent
         /\ Spent' \subseteq Spent \cup {artifact'[cmd[p].label].key}
<1>1. ASSUME NEW k \in Spent', k \notin Spent
      PROVE  HasKey(p)' /\ k = artifact'[cmd[p].label].key
  <2>1. content' = content /\ cmd'[p] = cmd[p]
    BY DEF SendStepOf
  <2>2. PICK q \in Procs : HasKey(q)' /\ k = artifact'[cmd'[q].label].key
    BY <1>1, <2>1 DEF Spent
  <2>3. CASE q # p
    <3>1. HasKey(q) /\ HasLabel(q) /\ cmd'[q] = cmd[q]
      BY <2>2, <2>3, SendOthers DEF HasKey, HasLabel, SendStepOf
    <3>2. k = artifact[cmd[q].label].key
      BY <2>2, <2>3, <3>1, SendOthers
    <3>3. QED
      BY <1>1, <3>1, <3>2 DEF Spent
  <2>4. QED
    BY <2>1, <2>2, <2>3
<1>2. QED
  BY <1>1

LEMMA SendLocal ==
  ASSUME TypeOK, SendSafe, NEW p \in Procs, SendStepOf(p), SendPosition(p)',
         storage'["send"] # Torn => Spent' \subseteq storage'["send"],
         pc'[p] \in {"artifact", "truncate", "save"} =>
           \A k \in Spent' : \E n \in Keys : memory'[p] = 1..n /\ k < n,
         HasKey(p)' => \/ HasKey(p) /\ artifact'[cmd[p].label] = artifact[cmd[p].label]
                       \/ artifact'[cmd[p].label].key \notin Spent
  PROVE  SendSafe'
<1>1. content' = content /\ cmd'[p] = cmd[p] /\ cmd[p].kind = "send" /\ cmd[p].label \in Labels
  BY CommandArguments DEF SendStepOf
<1>2. ASSUME NEW q \in Procs, q # p PROVE ~(InCall(q)' /\ cmd'[q].kind = "send")
  BY <1>2, SendOthers DEF SendStepOf
<1>3. Alone("send")'
  BY <1>2 DEF Alone
<1>4. ASSUME NEW q \in Procs PROVE SendPosition(q)'
  <2>1. CASE q = p
    BY <2>1
  <2>2. CASE q # p
    <3>1. pc'[q] = pc[q] /\ cmd'[q] = cmd[q]
      BY <2>2 DEF SendStepOf
    <3>2. CASE HasLabel(q)
      <4>1. /\ artifact'[cmd[q].label] = artifact[cmd[q].label] /\ HasKey(q)
            /\ pc[q] \in {"report", "submit"}
        BY <2>2, <3>2, SendOthers
      <4>2. /\ artifact[cmd[q].label] # Absent
            /\ \E k \in Keys : artifact[cmd[q].label] = [label |-> cmd[q].label, key |-> k]
        <5>1. SendPosition(q)
          BY DEF SendSafe
        <5>2. cmd[q].kind = "send"
          BY <3>2 DEF HasLabel
        <5>3. QED
          BY <3>2, <4>1, <5>1, <5>2 DEF SendPosition
      <4>3. /\ artifact'[cmd'[q].label] # Absent
            /\ \E k \in Keys : artifact'[cmd'[q].label] = [label |-> cmd'[q].label, key |-> k]
        BY <3>1, <4>1, <4>2
      <4>4. pc'[q] \in {"report", "submit"}
        BY <3>1, <4>1
      <4>5. QED
        BY <4>3, <4>4 DEF SendPosition
    <3>3. CASE ~HasLabel(q)
      BY <3>1, <3>3 DEF SendPosition, HasLabel, HasKey
    <3>4. QED
      BY <3>2, <3>3
  <2>3. QED
    BY <2>1, <2>2
<1>5. \A e \in Envelopes : content'[e] \in Message => artifact'[content'[e].label] # Absent
  BY <1>1, MessageParts DEF SendSafe, SendStepOf
<1>6. SpentForGood'
  <2>1. ASSUME NEW q \in Procs, cmd'[q].kind = "send",
               pc'[q] \in {"artifact", "truncate", "save"}
        PROVE  q = p
    BY <1>2, <2>1 DEF InCall
  <2>2. QED
    BY <2>1 DEF SpentForGood
<1>7. \A q \in Procs : HasLabel(q)' =>
        /\ \A r \in Procs : HasLabel(r)' /\ cmd'[r].label = cmd'[q].label => r = q
        /\ \A e \in Envelopes : content'[e] \in Message => content'[e].label # cmd'[q].label
  <2>1. ASSUME NEW q \in Procs, HasLabel(q)', q # p
        PROVE  cmd'[q] = cmd[q] /\ HasLabel(q) /\ cmd[q].label # cmd[p].label
    BY <2>1, SendOthers DEF SendStepOf
  <2>2. \A e \in Envelopes : content[e] \in Message => content[e].label # cmd[p].label
    BY DEF SendStepOf
  <2>3. QED
    BY <1>1, <2>1, <2>2 DEF SendSafe
<1>8. \A q \in Procs : HasKey(q)' =>
        /\ \A r \in Procs :
             HasKey(r)' /\ artifact'[cmd'[r].label].key = artifact'[cmd'[q].label].key => r = q
        /\ \A e \in Envelopes :
             content'[e] \in Message => content'[e].key # artifact'[cmd'[q].label].key
  <2>1. ASSUME NEW q \in Procs, HasKey(q)', q # p
        PROVE  /\ cmd'[q] = cmd[q] /\ HasKey(q)
               /\ artifact'[cmd'[q].label] = artifact[cmd[q].label]
               /\ artifact[cmd[q].label].key \in Spent
    <3>1. HasKey(q) /\ HasLabel(q) /\ cmd'[q] = cmd[q]
      BY <2>1, SendOthers DEF HasKey, HasLabel, SendStepOf
    <3>2. artifact[cmd[q].label].key \in Spent
      BY <3>1 DEF Spent
    <3>3. QED
      BY <2>1, <3>1, <3>2, SendOthers
  <2>2. \A e \in Envelopes : content[e] \in Message => content[e].key \in Spent
    BY DEF Spent
  <2>3. \A q \in Procs : HasKey(q) =>
          /\ \A r \in Procs :
               HasKey(r) /\ artifact[cmd[r].label].key = artifact[cmd[q].label].key => r = q
          /\ \A e \in Envelopes :
               content[e] \in Message => content[e].key # artifact[cmd[q].label].key
    BY DEF SendSafe
  <2>4. QED
    BY <1>1, <2>1, <2>2, <2>3
<1>9. QED
  BY <1>3, <1>4, <1>5, <1>6, <1>7, <1>8 DEF SendSafe

\* What the steps of a call that has started share.
LEMMA CallStep ==
  ASSUME TypeOK, SendSafe, NEW p \in Procs, Position(p), ProcessStep(p), HasLabel(p), InCall(p),
         cmd' = cmd,
         \A l \in Labels : /\ l # cmd[p].label => artifact'[l] = artifact[l]
                           /\ artifact[l] # Absent => artifact'[l] # Absent
  PROVE  SendStepOf(p)
<1>1. cmd[p] \in SendCommand /\ cmd[p].kind = "send"
  BY CommandArguments DEF TypeOK, HasLabel
<1>2. content' = content
  <2>1. pc[p] \notin {"submit", "ack"}
    BY DEF InCall
  <2>2. QED
    BY <2>1, WhoWrites DEF Submit, Ack
<1>3. ASSUME NEW q \in Procs, q # p
      PROVE  /\ pc'[q] = pc[q] /\ cmd'[q] = cmd[q] /\ memory'[q] = memory[q]
             /\ ~(InCall(q) /\ cmd[q].kind = "send")
             /\ HasLabel(q) => cmd[q].label # cmd[p].label
  <2>1. pc'[q] = pc[q] /\ cmd'[q] = cmd[q] /\ memory'[q] = memory[q]
    BY <1>3, OthersUntouched
  <2>2. QED
    BY <1>1, <1>3, <2>1 DEF SendSafe, Alone
<1>4. \A e \in Envelopes : content[e] \in Message => content[e].label # cmd[p].label
  BY DEF SendSafe
<1>5. QED
  BY <1>1, <1>2, <1>3, <1>4 DEF SendStepOf

LEMMA CheckLabelSafe ==
  ASSUME IInv, SendSafe, NEW p \in Procs, CheckLabel(p), "send" \notin overlapped'
  PROVE  SendSafe'
<1>0. TypeOK /\ Position(p) /\ ProcessStep(p)
  BY DEF IInv, ProcessStep, Step
<1>1. /\ cmd[p] \in SendCommand /\ cmd[p].kind = "send" /\ cmd' = cmd
      /\ UNCHANGED <<content, artifact, storage, memory>> /\ pc' = [pc EXCEPT ![p] = "reserve"]
      /\ artifact[cmd[p].label] = Absent /\ pc'[p] = "reserve"
  BY <1>0, CommandArguments DEF TypeOK, CheckLabel, Position, Goto, posts
<1>2. \A q \in Procs \ {p} : ~(InCall(q) /\ cmd[q].kind = "send")
  BY <1>1 DEF CheckLabel, Begins
<1>3. ASSUME NEW q \in Procs, q # p, HasLabel(q) PROVE cmd[q].label # cmd[p].label
  <2>1. pc[q] # "reserve" /\ SendPosition(q) /\ cmd[q].kind = "send"
    BY <1>2, <1>3 DEF InCall, HasLabel, SendSafe
  <2>2. QED
    BY <1>1, <1>3, <2>1 DEF SendPosition
<1>4. SendStepOf(p)
  BY <1>1, <1>2, <1>3 DEF SendStepOf, SendSafe, TypeOK
<1>5. SendPosition(p)' /\ ~HasKey(p)'
  BY <1>1 DEF SendPosition, HasLabel, HasKey
<1>6. Spent' \subseteq Spent
  BY <1>0, <1>4, <1>5, SpentLocal
<1>7. storage'["send"] # Torn => Spent' \subseteq storage'["send"]
  BY <1>1, <1>6 DEF SendSafe, SpentForGood
<1>8. QED
  BY <1>0, <1>1, <1>4, <1>5, <1>7, SendLocal

LEMMA ReserveSafe ==
  ASSUME IInv, SendSafe, NEW p \in Procs, Reserve(p)
  PROVE  SendSafe'
<1>0. TypeOK /\ Position(p) /\ ProcessStep(p)
  BY DEF IInv, ProcessStep, Step
<1>1. /\ pc[p] = "reserve" /\ pc'[p] = "load" /\ UNCHANGED <<cmd, storage, memory>>
      /\ cmd[p] \in SendCommand /\ cmd[p].kind = "send" /\ cmd[p].label \in Labels
      /\ artifact' = [artifact EXCEPT ![cmd[p].label] = IF @ = Absent THEN Empty ELSE @]
  BY <1>0, CommandArguments DEF TypeOK, Reserve, Position, Goto
<1>2. /\ artifact'[cmd[p].label] # Absent
      /\ \A l \in Labels : /\ l # cmd[p].label => artifact'[l] = artifact[l]
                           /\ artifact[l] # Absent => artifact'[l] # Absent
  BY <1>0, <1>1, NoMessage DEF TypeOK
<1>3. HasLabel(p) /\ InCall(p)
  BY <1>1 DEF HasLabel, InCall
<1>4. SendStepOf(p)
  BY <1>0, <1>1, <1>2, <1>3, CallStep
<1>5. SendPosition(p)' /\ ~HasKey(p)'
  BY <1>1, <1>2 DEF SendPosition, HasLabel, HasKey
<1>6. Spent' \subseteq Spent
  BY <1>0, <1>4, <1>5, SpentLocal
<1>7. storage'["send"] # Torn => Spent' \subseteq storage'["send"]
  BY <1>1, <1>6 DEF SendSafe, SpentForGood
<1>8. QED
  BY <1>0, <1>1, <1>4, <1>5, <1>7, SendLocal

LEMMA ProtectSafe ==
  ASSUME IInv, SendSafe, NEW p \in Procs, Protect(p)
  PROVE  SendSafe'
<1>0. TypeOK /\ Position(p) /\ ProcessStep(p)
  BY DEF IInv, ProcessStep, Step
<1>1. /\ pc[p] = "load" /\ pc'[p] = "artifact" /\ UNCHANGED <<cmd, storage, artifact>>
      /\ cmd[p] \in SendCommand /\ cmd[p].kind = "send"
  BY <1>0, CommandArguments DEF TypeOK, Protect, Position, Goto
<1>2. PICK k \in Keys : storage["send"] = 1..(k - 1) /\ memory'[p] = 1..k
  BY <1>0 DEF TypeOK, Protect
<1>3. HasLabel(p) /\ InCall(p)
  BY <1>1 DEF HasLabel, InCall
<1>4. SendStepOf(p)
  BY <1>0, <1>1, <1>3, CallStep
<1>5. SendPosition(p)' /\ ~HasKey(p)'
  <2>1. artifact[cmd[p].label] # Absent
    BY <1>1, <1>3 DEF SendSafe, SendPosition
  <2>2. QED
    BY <1>1, <1>2, <2>1 DEF SendPosition, HasLabel, HasKey
<1>6. Spent' \subseteq Spent
  BY <1>0, <1>4, <1>5, SpentLocal
<1>7. storage["send"] # Torn
  BY <1>2, Intervals, NoMessage
<1>8. storage'["send"] # Torn => Spent' \subseteq storage'["send"]
  BY <1>1, <1>6 DEF SendSafe, SpentForGood
<1>9. \A s \in Spent' : s < k
  <2>1. \A s \in Spent' : s \in 1..(k - 1)
    BY <1>1, <1>2, <1>7, <1>8
  <2>2. k \in Nat
    BY MessageAssumption DEF Keys
  <2>3. QED
    BY <2>1, <2>2
<1>10. \A s \in Spent' : \E n \in Keys : memory'[p] = 1..n /\ s < n
  BY <1>2, <1>9
<1>11. QED
  BY <1>0, <1>4, <1>5, <1>8, <1>10, SendLocal

LEMMA WriteMessageSafe ==
  ASSUME IInv, SendSafe, NEW p \in Procs, WriteMessage(p)
  PROVE  SendSafe'
<1>0. TypeOK /\ Position(p) /\ ProcessStep(p)
  BY DEF IInv, ProcessStep, Step
<1>1. /\ pc[p] = "artifact" /\ pc'[p] = "truncate" /\ UNCHANGED <<cmd, storage, memory>>
      /\ cmd[p] \in SendCommand /\ cmd[p].kind = "send" /\ cmd[p].label \in Labels
  BY <1>0, CommandArguments DEF TypeOK, WriteMessage, Position, Goto
<1>2. PICK k \in Keys :
        /\ memory[p] = 1..k
        /\ artifact' = [artifact EXCEPT ![cmd[p].label] = [label |-> cmd[p].label, key |-> k]]
  BY DEF WriteMessage
<1>3. [label |-> cmd[p].label, key |-> k] \in Message
  BY <1>1 DEF Message
<1>4. /\ artifact'[cmd[p].label] = [label |-> cmd[p].label, key |-> k]
      /\ artifact'[cmd[p].label] # Absent
      /\ \A l \in Labels : /\ l # cmd[p].label => artifact'[l] = artifact[l]
                           /\ artifact[l] # Absent => artifact'[l] # Absent
  BY <1>0, <1>1, <1>2, <1>3, NoMessage DEF TypeOK
<1>5. HasLabel(p) /\ InCall(p)
  BY <1>1 DEF HasLabel, InCall
<1>6. SendStepOf(p)
  BY <1>0, <1>1, <1>4, <1>5, CallStep
<1>7. storage["send"] = 1..(k - 1)
  <2>1. PICK n \in Keys : memory[p] = 1..n /\ storage["send"] = 1..(n - 1)
    BY <1>1 DEF SendSafe, SendPosition
  <2>2. QED
    BY <1>2, <2>1, Intervals
<1>8. SendPosition(p)' /\ ~HasKey(p)'
  BY <1>1, <1>2, <1>4, <1>7 DEF SendPosition, HasLabel, HasKey
<1>9. Spent' \subseteq Spent
  BY <1>0, <1>6, <1>8, SpentLocal
<1>10. storage'["send"] # Torn => Spent' \subseteq storage'["send"]
  BY <1>1, <1>9 DEF SendSafe, SpentForGood
<1>11. \A s \in Spent' : \E n \in Keys : memory'[p] = 1..n /\ s < n
  BY <1>1, <1>9 DEF SendSafe, SpentForGood
<1>12. QED
  BY <1>0, <1>6, <1>8, <1>10, <1>11, SendLocal

LEMMA TruncateSafe ==
  ASSUME IInv, SendSafe, NEW p \in Procs, Truncate(p), cmd[p].kind = "send"
  PROVE  SendSafe'
<1>0. TypeOK /\ Position(p) /\ ProcessStep(p)
  BY DEF IInv, ProcessStep, Step
<1>1. /\ pc[p] = "truncate" /\ pc'[p] = "save" /\ UNCHANGED <<cmd, artifact, memory>>
      /\ storage'["send"] = Torn
  BY <1>0 DEF TypeOK, Truncate, Goto
<1>2. HasLabel(p) /\ InCall(p)
  BY <1>1 DEF HasLabel, InCall
<1>3. SendStepOf(p)
  BY <1>0, <1>1, <1>2, CallStep
<1>4. SendPosition(p)' /\ ~HasKey(p)'
  <2>1. SendPosition(p)
    BY DEF SendSafe
  <2>2. /\ artifact[cmd[p].label] # Absent
        /\ \E k \in Keys : /\ memory[p] = 1..k
                           /\ artifact[cmd[p].label] = [label |-> cmd[p].label, key |-> k]
    BY <1>1, <1>2, <2>1 DEF SendPosition
  <2>3. QED
    BY <1>1, <2>2 DEF SendPosition, HasLabel, HasKey
<1>5. Spent' \subseteq Spent
  BY <1>0, <1>3, <1>4, SpentLocal
<1>6. \A s \in Spent' : \E n \in Keys : memory'[p] = 1..n /\ s < n
  BY <1>1, <1>5 DEF SendSafe, SpentForGood
<1>7. QED
  BY <1>0, <1>1, <1>3, <1>4, <1>6, SendLocal

LEMMA SaveSafe ==
  ASSUME IInv, SendSafe, NEW p \in Procs, Save(p), cmd[p].kind = "send"
  PROVE  SendSafe'
<1>0. TypeOK /\ Position(p) /\ ProcessStep(p)
  BY DEF IInv, ProcessStep, Step
<1>1. pc[p] = "save" /\ pc'[p] = "reload" /\ UNCHANGED <<cmd, artifact, memory>>
  BY <1>0 DEF TypeOK, Save, Goto
<1>2. HasLabel(p) /\ InCall(p)
  BY <1>1 DEF HasLabel, InCall
<1>3. SendStepOf(p)
  BY <1>0, <1>1, <1>2, CallStep
<1>4. PICK k \in Keys : /\ memory[p] = 1..k /\ storage["send"] = Torn
                        /\ artifact[cmd[p].label] = [label |-> cmd[p].label, key |-> k]
  <2>1. SendPosition(p)
    BY DEF SendSafe
  <2>2. QED
    BY <1>1, <2>1 DEF SendPosition
<1>5. storage'["send"] = 1..k
  BY <1>0, <1>4 DEF TypeOK, Save
<1>6. artifact[cmd[p].label].key = k /\ k \in Nat \ {0}
  BY <1>4, MessageAssumption DEF Keys
<1>7. \A s \in Spent : s < k
  <2>1. ASSUME NEW s \in Spent PROVE s < k
    <3>1. PICK n \in Keys : memory[p] = 1..n /\ s < n
      BY <1>1 DEF SendSafe, SpentForGood
    <3>2. n = k
      BY <1>4, <3>1, Intervals
    <3>3. QED
      BY <3>1, <3>2
  <2>2. QED
    BY <2>1
<1>8. SendPosition(p)'
  <2>1. SendPosition(p)
    BY DEF SendSafe
  <2>2. artifact[cmd[p].label] # Absent
    BY <1>1, <1>2, <2>1 DEF SendPosition
  <2>3. QED
    BY <1>1, <1>4, <2>2 DEF SendPosition, HasLabel, HasKey
<1>9. Spent' \subseteq 1..k
  <2>1. Spent' \subseteq Spent \cup {k}
    BY <1>0, <1>1, <1>3, <1>6, SpentLocal
  <2>2. Spent \subseteq 1..k
    <3>1. ASSUME NEW s \in Spent PROVE s \in 1..k
      <4>1. PICK n \in Keys : memory[p] = 1..n /\ s < n
        BY <1>1 DEF SendSafe, SpentForGood
      <4>2. s \in Keys
        <5>1. CASE \E e \in Envelopes : content[e] \in Message /\ s = content[e].key
          BY <5>1, MessageParts
        <5>2. CASE \E q \in Procs : HasKey(q) /\ s = artifact[cmd[q].label].key
          <6>1. PICK q \in Procs : HasKey(q) /\ s = artifact[cmd[q].label].key
            BY <5>2
          <6>2. cmd[q].kind = "send" /\ SendPosition(q)
            BY <6>1 DEF HasKey, SendSafe
          <6>3. \E n2 \in Keys : artifact[cmd[q].label] = [label |-> cmd[q].label, key |-> n2]
            BY <6>1, <6>2 DEF SendPosition
          <6>4. QED
            BY <6>1, <6>3
        <5>3. QED
          BY <5>1, <5>2 DEF Spent
      <4>3. QED
        BY <1>6, <1>7, <4>2, MessageAssumption DEF Keys
    <3>2. QED
      BY <3>1
  <2>3. QED
    BY <1>6, <2>1, <2>2
<1>10. artifact'[cmd[p].label].key \notin Spent
  BY <1>1, <1>6, <1>7
<1>11. pc'[p] \notin {"artifact", "truncate", "save"}
  BY <1>1
<1>12. QED
  BY <1>0, <1>3, <1>5, <1>8, <1>9, <1>10, <1>11, SendLocal

LEMMA ReloadSafe ==
  ASSUME IInv, SendSafe, NEW p \in Procs, Reload(p), cmd[p].kind = "send"
  PROVE  SendSafe'
<1>0. TypeOK /\ Position(p) /\ ProcessStep(p)
  BY DEF IInv, ProcessStep, Step
<1>1. pc[p] = "reload" /\ pc'[p] = "report" /\ UNCHANGED <<cmd, artifact, storage, memory>>
  BY <1>0 DEF TypeOK, Reload, Goto
<1>2. HasLabel(p) /\ HasKey(p) /\ InCall(p)
  BY <1>1 DEF HasLabel, HasKey, InCall
<1>3. SendStepOf(p)
  BY <1>0, <1>1, <1>2, CallStep
<1>4. SendPosition(p)'
  <2>1. SendPosition(p)
    BY DEF SendSafe
  <2>2. /\ artifact[cmd[p].label] # Absent
        /\ \E k \in Keys : artifact[cmd[p].label] = [label |-> cmd[p].label, key |-> k]
    BY <1>1, <1>2, <2>1 DEF SendPosition
  <2>3. QED
    BY <1>1, <2>2 DEF SendPosition, HasLabel, HasKey
<1>5. Spent' \subseteq Spent
  <2>1. artifact'[cmd[p].label].key \in Spent
    BY <1>1, <1>2 DEF Spent
  <2>2. QED
    BY <1>0, <1>3, <2>1, SpentLocal
<1>6. storage'["send"] # Torn => Spent' \subseteq storage'["send"]
  BY <1>1, <1>5 DEF SendSafe, SpentForGood
<1>7. artifact'[cmd[p].label] = artifact[cmd[p].label]
      /\ pc'[p] \notin {"artifact", "truncate", "save"}
  BY <1>1
<1>8. QED
  BY <1>0, <1>2, <1>3, <1>4, <1>6, <1>7, SendLocal

\* The message is submitted: the label and the key that were those of the command are
\* those of the envelope.
LEMMA SubmitSafe ==
  ASSUME IInv, SendSafe, SubmittedOnce, "send" \notin overlapped,
         NEW p \in Procs, NEW e \in Envelopes, Submit(p, e)
  PROVE  SendSafe' /\ SubmittedOnce'
<1>0. TypeOK /\ Position(p) /\ ProcessStep(p) /\ Posted
  BY DEF IInv, ProcessStep, Step
<1>1. /\ cmd[p] \in SendCommand /\ cmd[p].kind = "send" /\ pc[p] = "submit" /\ pc'[p] = "idle"
      /\ UNCHANGED <<artifact, storage>> /\ content[e] = Nothing
      /\ content' = [content EXCEPT ![e] = artifact[cmd[p].label]]
  BY <1>0, CommandArguments
  DEF TypeOK, Submit, Post, Forget, Goto, Position, Posted
<1>2. HasKey(p) /\ HasLabel(p)
  BY <1>1 DEF HasKey, HasLabel
<1>3. PICK k \in Keys : artifact[cmd[p].label] = [label |-> cmd[p].label, key |-> k]
  <2>1. SendPosition(p)
    BY DEF SendSafe
  <2>2. QED
    BY <1>1, <1>2, <2>1 DEF SendPosition
<1>4. /\ content'[e].label = cmd[p].label /\ content'[e].key = artifact[cmd[p].label].key
      /\ \A f \in Envelopes : f # e => content'[f] = content[f]
  BY <1>0, <1>1, <1>3 DEF TypeOK
<1>5. ASSUME NEW q \in Procs, q # p
      PROVE  pc'[q] = pc[q] /\ cmd'[q] = cmd[q] /\ memory'[q] = memory[q]
  BY <1>0, <1>5, OthersUntouched
<1>6. ASSUME NEW q \in Procs PROVE /\ HasLabel(q)' => q # p /\ HasLabel(q)
                                   /\ HasKey(q)' => q # p /\ HasKey(q)
  BY <1>1, <1>5 DEF HasLabel, HasKey
<1>7. Alone("send")'
  <2>1. \A q \in Procs : InCall(q)' => q # p /\ InCall(q)
    BY <1>1, <1>5 DEF InCall
  <2>2. QED
    BY <1>5, <2>1 DEF SendSafe, Alone
<1>8. ASSUME NEW q \in Procs PROVE SendPosition(q)'
  <2>1. CASE q = p
    BY <1>1, <2>1 DEF SendPosition, HasLabel, HasKey
  <2>2. CASE q # p
    <3>1. SendPosition(q)
      BY DEF SendSafe
    <3>2. QED
      BY <1>1, <1>5, <2>2, <3>1 DEF SendPosition, HasLabel, HasKey
  <2>3. QED
    BY <2>1, <2>2
<1>9. \A f \in Envelopes : content'[f] \in Message => artifact'[content'[f].label] # Absent
  <2>1. artifact[cmd[p].label] # Absent
    <3>1. SendPosition(p)
      BY DEF SendSafe
    <3>2. QED
      BY <1>1, <1>2, <3>1 DEF SendPosition
  <2>2. QED
    BY <1>1, <1>4, <2>1 DEF SendSafe
<1>10. Spent' \subseteq Spent
  <2>1. artifact[cmd[p].label].key \in Spent
    BY <1>2 DEF Spent
  <2>2. QED
    BY <1>1, <1>4, <1>5, <1>6, <2>1 DEF Spent
<1>11. SpentForGood'
  <2>1. ASSUME NEW q \in Procs, cmd'[q].kind = "send",
               pc'[q] \in {"artifact", "truncate", "save"}
        PROVE  q # p
    BY <1>1, <2>1
  <2>2. QED
    BY <1>1, <1>5, <1>10, <2>1 DEF SendSafe, SpentForGood
<1>12. \A q \in Procs : HasLabel(q)' =>
         /\ \A r \in Procs : HasLabel(r)' /\ cmd'[r].label = cmd'[q].label => r = q
         /\ \A f \in Envelopes : content'[f] \in Message => content'[f].label # cmd'[q].label
  BY <1>2, <1>4, <1>5, <1>6 DEF SendSafe
<1>13. \A q \in Procs : HasKey(q)' =>
         /\ \A r \in Procs :
              HasKey(r)' /\ artifact'[cmd'[r].label].key = artifact'[cmd'[q].label].key => r = q
         /\ \A f \in Envelopes :
              content'[f] \in Message => content'[f].key # artifact'[cmd'[q].label].key
  BY <1>1, <1>2, <1>4, <1>5, <1>6 DEF SendSafe
<1>14. SubmittedOnce'
  <2>1. \A f \in Envelopes : content[f] \in Message =>
          content[f].label # cmd[p].label /\ content[f].key # artifact[cmd[p].label].key
    BY <1>2 DEF SendSafe
  <2>2. QED
    BY <1>4, <2>1 DEF SubmittedOnce
<1>15. QED
  BY <1>7, <1>8, <1>9, <1>11, <1>12, <1>13, <1>14 DEF SendSafe

LEMMA NextSend ==
  IInv /\ [Next]_vars /\ "send" \notin overlapped' => SendSafe' /\ SubmittedOnce'
<1> SUFFICES ASSUME IInv, [Next]_vars, "send" \notin overlapped'
             PROVE  SendSafe' /\ SubmittedOnce'
  OBVIOUS
<1>0. TypeOK /\ \A p \in Procs : Position(p)
  BY DEF IInv
<1>1. "send" \notin overlapped
  BY WhoWrites
  DEF Next, ProcessStep, vars, ghosts, Deliver, CheckLabel, Open, Begins
<1>2. SendSafe /\ SubmittedOnce
  BY <1>1 DEF IInv
<1>3. CASE UNCHANGED vars
  <2>1. UNCHANGED <<content, artifact, storage, pc, cmd, memory>>
    BY <1>3 DEF vars, posts
  <2>2. \A q \in Procs : HasLabel(q)' => HasLabel(q)
    BY <2>1 DEF HasLabel
  <2>3. QED
    BY <1>1, <1>2, <2>1, <2>2, SendFrame
<1>4. ASSUME NEW e \in Envelopes, NEW c \in Other, Deliver(e, c)
      PROVE  SendSafe' /\ SubmittedOnce'
  <2>1. UNCHANGED <<artifact, storage, pc, cmd, memory>>
    BY <1>4 DEF Deliver
  <2>2. \A q \in Procs : HasLabel(q)' => HasLabel(q)
    BY <2>1 DEF HasLabel
  <2>3. c \notin Message
    BY DEF Message, Other
  <2>4. \A f \in Envelopes : content'[f] \in Message => content'[f] = content[f]
    BY <1>0, <1>4, <2>3 DEF TypeOK, Deliver, Post
  <2>5. QED
    BY <1>1, <1>2, <2>1, <2>2, <2>4, SendFrame
<1>5. ASSUME NEW p \in Procs, ProcessStep(p) PROVE SendSafe' /\ SubmittedOnce'
  <2>1. CASE \/ CheckLabel(p) \/ Reserve(p) \/ Protect(p) \/ WriteMessage(p)
             \/ cmd[p].kind = "send" /\ (Truncate(p) \/ Save(p) \/ Reload(p))
    <3>1. SendSafe'
      BY <1>2, <2>1, CheckLabelSafe, ReserveSafe, ProtectSafe, WriteMessageSafe,
         TruncateSafe, SaveSafe, ReloadSafe
    <3>2. content' = content
      BY <2>1 DEF CheckLabel, Reserve, Protect, WriteMessage, Truncate, Save, Reload, posts
    <3>3. QED
      BY <1>1, <1>2, <3>1, <3>2 DEF SubmittedOnce
  <2>2. CASE \E e \in Envelopes : Submit(p, e)
    BY <1>1, <1>2, <2>2, SubmitSafe
  <2>3. CASE Protected(p)
    <3>1. /\ UNCHANGED <<content, artifact, storage, cmd, memory>>
          /\ pc[p] = "report" /\ pc'[p] = "submit"
          /\ \A q \in Procs : q # p => pc'[q] = pc[q]
      BY <1>0, <2>3 DEF TypeOK, Protected, Goto, posts
    <3>2. \A q \in Procs : HasLabel(q)' => HasLabel(q)
      BY <3>1 DEF HasLabel
    <3>3. QED
      BY <1>1, <1>2, <3>1, <3>2, SendFrame
  <2>4. CASE ~SendMoves(p) /\ ~\E e \in Envelopes : Submit(p, e)
    <3>1. ~HasLabel(p)'
      BY <1>0, <1>5, <2>4, WhoHasLabel
    <3>2. artifact' = artifact
      BY <1>5, <2>4, WhoWrites DEF SendMoves
    <3>3. storage'["send"] = storage["send"]
      <4>1. CASE Truncate(p) \/ Save(p)
        <5>1. cmd[p].kind # "send"
          BY <2>4, <4>1 DEF SendMoves
        <5>2. PICK text \in {Torn} \cup SUBSET Keys :
                storage' = [storage EXCEPT ![cmd[p].kind] = text]
          BY <1>0, <4>1 DEF TypeOK, Truncate, Save
        <5>3. QED
          BY <1>0, <5>1, <5>2 DEF TypeOK
      <4>2. QED
        BY <1>5, <4>1, WhoWrites
    <3>4. content' = content
      BY <1>5, <2>4, WhoWrites DEF Ack
    <3>5. \A q \in Procs : HasLabel(q)' =>
            /\ HasLabel(q)
            /\ pc'[q] = pc[q] /\ cmd'[q] = cmd[q] /\ memory'[q] = memory[q]
      BY <1>0, <1>5, <3>1, OthersUntouched DEF HasLabel
    <3>6. QED
      BY <1>1, <1>2, <3>2, <3>3, <3>4, <3>5, SendFrame
  <2>5. QED
    BY <2>1, <2>2, <2>3, <2>4 DEF SendMoves
<1>6. QED
  BY <1>3, <1>4, <1>5 DEF Next, ProcessStep

-----------------------------------------------------------------------------
(* Message-opens that do not overlap *)

\* What the invariant says of opens is about those in their call, or with an answer.
LEMMA InboxFrame ==
  ASSUME InboxSafe, \A q \in Procs : Position(q)',
         storage'["inbox"] = storage["inbox"], shown' = shown,
         \A q \in Procs : Opening(q)' =>
           /\ Opening(q) /\ cmd'[q] = cmd[q] /\ memory'[q] = memory[q] /\ at'[q] = at[q]
           /\ content'[at[q]] = content[at[q]]
           /\ \/ pc'[q] = pc[q]
              \/ Consumed(q) /\ Consumed(q)' /\ (InCall(q)' => InCall(q))
                 /\ pc'[q] \notin {"truncate", "save"}
  PROVE  InboxSafe'
<1>1. \A q \in Procs : Consumed(q)' => Opening(q)' /\ Consumed(q)
  BY DEF Consumed, Opening, HasPlaintext
<1>2. ASSUME NEW q \in Procs, InCall(q)', cmd'[q].kind = "inbox" PROVE Opening(q)' /\ InCall(q)
  <2>1. Opening(q)'
    BY <1>2, CommandArguments DEF InCall, Position, Opening
  <2>2. QED
    BY <1>2, <2>1 DEF InCall
<1>3. Alone("inbox")'
  BY <1>2 DEF InboxSafe, Alone
<1>4. ASSUME NEW q \in Procs PROVE OpenPosition(q)'
  <2>1. CASE cmd'[q].kind = "inbox" /\ pc'[q] \in {"truncate", "save"}
    <3>1. /\ pc'[q] = pc[q] /\ cmd'[q] = cmd[q] /\ memory'[q] = memory[q] /\ at'[q] = at[q]
          /\ content'[at[q]] = content[at[q]]
      BY <2>1 DEF Opening
    <3>2. OpenPosition(q)
      BY DEF InboxSafe
    <3>3. QED
      BY <3>1, <3>2 DEF OpenPosition
  <2>2. QED
    BY <2>1 DEF OpenPosition
<1>5. Used' \subseteq Used
  BY <1>1 DEF Used
<1>6. UsedForGood'
  <2>1. \A q \in Procs : cmd'[q].kind = "inbox" /\ pc'[q] \in {"truncate", "save"} =>
          Opening(q)' /\ pc'[q] = pc[q]
    BY DEF Opening
  <2>2. QED
    BY <1>5, <2>1 DEF InboxSafe, UsedForGood
<1>7. \A p \in Procs : Consumed(p)' =>
        /\ content'[at'[p]].key \notin shown'
        /\ \A q \in Procs :
             Consumed(q)' /\ content'[at'[q]].key = content'[at'[p]].key => q = p
  BY <1>1 DEF InboxSafe
<1>8. QED
  BY <1>3, <1>4, <1>6, <1>7 DEF InboxSafe

\* When the open of p is the only one in its call, a step of its call is safe if it
\* leaves p where it should be, and no used key to be used again.
InboxStepOf(p) ==
  /\ cmd[p].kind = "inbox" /\ cmd' = cmd /\ at' = at /\ content' = content /\ shown' = shown
  /\ \A q \in Procs : q # p => /\ pc'[q] = pc[q] /\ memory'[q] = memory[q]
                               /\ ~(InCall(q) /\ cmd[q].kind = "inbox")

LEMMA UsedLocal ==
  ASSUME NEW p \in Procs, InboxStepOf(p)
  PROVE  /\ \A q \in Procs : q # p => (Consumed(q)' <=> Consumed(q))
         /\ ~Consumed(p)' => Used' \subseteq Used
         /\ Used' \subseteq Used \cup {content[at[p]].key}
<1>1. \A q \in Procs : q # p => (Consumed(q)' <=> Consumed(q))
  BY DEF InboxStepOf, Consumed, HasPlaintext
<1>2. ASSUME NEW k \in Used', k \notin Used PROVE Consumed(p)' /\ k = content[at[p]].key
  <2>1. PICK q \in Procs : Consumed(q)' /\ k = content[at[q]].key
    BY <1>2 DEF Used, InboxStepOf
  <2>2. q = p
    BY <1>1, <1>2, <2>1 DEF Used
  <2>3. QED
    BY <2>1, <2>2
<1>3. QED
  BY <1>1, <1>2

LEMMA InboxLocal ==
  ASSUME InboxSafe, NEW p \in Procs, InboxStepOf(p), OpenPosition(p)',
         storage'["inbox"] # Torn => Used' \subseteq storage'["inbox"],
         pc'[p] \in {"truncate", "save"} =>
           \A k \in Used' : k \in memory'[p] /\ k # content[at[p]].key,
         Consumed(p)' => content[at[p]].key \notin Used
  PROVE  InboxSafe'
<1>1. cmd' = cmd /\ at' = at /\ content' = content /\ shown' = shown
  BY DEF InboxStepOf
<1>2. ASSUME NEW q \in Procs, q # p PROVE ~(InCall(q)' /\ cmd'[q].kind = "inbox")
  BY <1>2 DEF InboxStepOf, InCall
<1>3. Alone("inbox")'
  BY <1>2 DEF Alone
<1>4. ASSUME NEW q \in Procs, cmd'[q].kind = "inbox", pc'[q] \in {"truncate", "save"}
      PROVE  q = p
  BY <1>2, <1>4 DEF InCall
<1>5. ASSUME NEW q \in Procs PROVE OpenPosition(q)'
  <2>1. CASE q = p
    BY <2>1
  <2>2. CASE q # p
    BY <1>4, <2>2 DEF OpenPosition
  <2>3. QED
    BY <2>1, <2>2
<1>6. UsedForGood'
  BY <1>1, <1>4 DEF UsedForGood
<1>7. \A q \in Procs : Consumed(q)' =>
        /\ content'[at'[q]].key \notin shown'
        /\ \A r \in Procs :
             Consumed(r)' /\ content'[at'[r]].key = content'[at'[q]].key => r = q
  <2>1. \A q \in Procs : Consumed(q) => content[at[q]].key \in Used
    BY DEF Used
  <2>2. shown \subseteq Used
    BY DEF Used
  <2>3. \A q \in Procs : q # p => (Consumed(q)' <=> Consumed(q))
    BY UsedLocal
  <2>4. QED
    BY <1>1, <2>1, <2>2, <2>3 DEF InboxSafe
<1>8. QED
  BY <1>3, <1>5, <1>6, <1>7 DEF InboxSafe

LEMMA OpenSafe ==
  ASSUME IInv, InboxSafe, NEW p \in Procs, Open(p), "inbox" \notin overlapped'
  PROVE  InboxSafe'
<1>0. TypeOK /\ Position(p) /\ ProcessStep(p)
  BY DEF IInv, ProcessStep, Step
<1>1. /\ cmd[p].kind = "inbox" /\ UNCHANGED <<cmd, at, content, shown, storage>>
      /\ pc' = [pc EXCEPT ![p] = "truncate"] /\ pc'[p] = "truncate"
      /\ storage["inbox"] # Torn /\ content[at[p]].key \notin storage["inbox"]
      /\ memory'[p] = storage["inbox"] \cup {content[at[p]].key}
  BY <1>0, CommandArguments DEF TypeOK, Open, Opens, Position, Goto, posts, loop
<1>2. \A q \in Procs \ {p} : ~(InCall(q) /\ cmd[q].kind = "inbox")
  BY <1>1 DEF Open, Begins
<1>3. InboxStepOf(p)
  BY <1>0, <1>1, <1>2, OthersUntouched DEF InboxStepOf
<1>4. OpenPosition(p)'
  BY <1>1 DEF OpenPosition
<1>5. ~Consumed(p)'
  BY <1>1 DEF Consumed, HasPlaintext
<1>6. Used' \subseteq Used
  BY <1>3, <1>5, UsedLocal
<1>7. Used' \subseteq storage["inbox"]
  BY <1>1, <1>6 DEF InboxSafe, UsedForGood
<1>8. QED
  BY <1>1, <1>3, <1>4, <1>5, <1>7, InboxLocal

LEMMA InboxCallStep ==
  ASSUME IInv, InboxSafe, NEW p \in Procs, cmd[p].kind = "inbox", Truncate(p) \/ Save(p)
  PROVE  InboxStepOf(p)
<1>0. TypeOK /\ ProcessStep(p) /\ InCall(p)
  BY DEF IInv, ProcessStep, Step, Truncate, Save, InCall
<1>1. UNCHANGED <<cmd, at, content, shown>>
  BY DEF Truncate, Save, posts, loop, ghosts
<1>2. \A q \in Procs : q # p => ~(InCall(q) /\ cmd[q].kind = "inbox")
  BY <1>0 DEF InboxSafe, Alone
<1>3. QED
  BY <1>0, <1>1, <1>2, OthersUntouched DEF InboxStepOf

LEMMA InboxTruncateSafe ==
  ASSUME IInv, InboxSafe, NEW p \in Procs, Truncate(p), cmd[p].kind = "inbox"
  PROVE  InboxSafe'
<1>0. TypeOK
  BY DEF IInv
<1>1. /\ pc[p] = "truncate" /\ pc'[p] = "save" /\ UNCHANGED <<cmd, at, content, memory>>
      /\ storage'["inbox"] = Torn
  BY <1>0 DEF TypeOK, Truncate, Goto, loop, posts
<1>2. InboxStepOf(p)
  BY InboxCallStep
<1>3. ~Consumed(p)'
  BY <1>1 DEF Consumed, HasPlaintext
<1>4. OpenPosition(p)'
  <2>1. OpenPosition(p)
    BY DEF InboxSafe
  <2>2. QED
    BY <1>1, <2>1 DEF OpenPosition
<1>5. Used' \subseteq Used
  BY <1>2, <1>3, UsedLocal
<1>6. \A k \in Used' : k \in memory'[p] /\ k # content[at[p]].key
  BY <1>1, <1>5 DEF InboxSafe, UsedForGood
<1>7. QED
  BY <1>1, <1>2, <1>3, <1>4, <1>6, InboxLocal

LEMMA InboxSaveSafe ==
  ASSUME IInv, InboxSafe, NEW p \in Procs, Save(p), cmd[p].kind = "inbox"
  PROVE  InboxSafe'
<1>0. TypeOK
  BY DEF IInv
<1>1. pc[p] = "save" /\ pc'[p] = "reload" /\ UNCHANGED <<cmd, at, content, memory>>
  BY <1>0 DEF TypeOK, Save, Goto, loop, posts
<1>2. InboxStepOf(p)
  BY InboxCallStep
<1>3. storage["inbox"] = Torn /\ content[at[p]].key \in memory[p]
  <2>1. OpenPosition(p)
    BY DEF InboxSafe
  <2>2. QED
    BY <1>1, <2>1 DEF OpenPosition
<1>4. storage'["inbox"] = memory[p]
  BY <1>0, <1>3 DEF TypeOK, Save
<1>5. OpenPosition(p)'
  BY <1>1 DEF OpenPosition
<1>6. \A k \in Used : k \in memory[p] /\ k # content[at[p]].key
  BY <1>1 DEF InboxSafe, UsedForGood
<1>7. Used' \subseteq storage'["inbox"]
  BY <1>2, <1>3, <1>4, <1>6, UsedLocal
<1>8. QED
  BY <1>1, <1>2, <1>5, <1>6, <1>7, InboxLocal

\* What has been printed was with the command that printed it, and with no other.
LEMMA ShowSafe ==
  ASSUME IInv, InboxSafe, NEW p \in Procs, Show(p)
  PROVE  InboxSafe'
<1>0. TypeOK /\ Position(p) /\ ProcessStep(p)
  BY DEF IInv, ProcessStep, Step
<1>1. /\ pc[p] = "show" /\ pc'[p] = "next" /\ UNCHANGED <<content, storage>>
      /\ shown' = shown \cup {content[at[p]].key}
  BY <1>0 DEF TypeOK, Show, Continue, Goto, posts
<1>2. ASSUME NEW q \in Procs, q # p
      PROVE  pc'[q] = pc[q] /\ cmd'[q] = cmd[q] /\ memory'[q] = memory[q] /\ at'[q] = at[q]
  BY <1>0, <1>2, OthersUntouched
<1>3. Consumed(p)
  BY <1>1 DEF Consumed, HasPlaintext
<1>4. ASSUME NEW q \in Procs PROVE Consumed(q)' => q # p /\ Consumed(q)
  BY <1>1, <1>2 DEF Consumed, HasPlaintext
<1>5. Alone("inbox")'
  <2>1. \A q \in Procs : InCall(q)' => q # p /\ InCall(q)
    BY <1>1, <1>2 DEF InCall
  <2>2. QED
    BY <1>2, <2>1 DEF InboxSafe, Alone
<1>6. ASSUME NEW q \in Procs PROVE OpenPosition(q)'
  <2>1. CASE q = p
    BY <1>1, <2>1 DEF OpenPosition
  <2>2. CASE q # p
    <3>1. OpenPosition(q)
      BY DEF InboxSafe
    <3>2. QED
      BY <1>1, <1>2, <2>2, <3>1 DEF OpenPosition
  <2>3. QED
    BY <2>1, <2>2
<1>7. Used' \subseteq Used
  BY <1>1, <1>2, <1>3, <1>4 DEF Used
<1>8. UsedForGood'
  <2>1. \A q \in Procs : pc'[q] \in {"truncate", "save"} => q # p
    BY <1>1
  <2>2. QED
    BY <1>1, <1>2, <1>7, <2>1 DEF InboxSafe, UsedForGood
<1>9. \A q \in Procs : Consumed(q)' =>
        /\ content'[at'[q]].key \notin shown'
        /\ \A r \in Procs :
             Consumed(r)' /\ content'[at'[r]].key = content'[at'[q]].key => r = q
  BY <1>1, <1>2, <1>3, <1>4 DEF InboxSafe
<1>10. QED
  BY <1>5, <1>6, <1>8, <1>9 DEF InboxSafe

\* The steps of an open that has its call.
OpenMoves(p) ==
  \/ Open(p) \/ Opened(p) \/ Ack(p) \/ Show(p)
  \/ cmd[p].kind = "inbox" /\ (Truncate(p) \/ Save(p) \/ Reload(p))

LEMMA WhoOpens ==
  ASSUME TypeOK, NEW p \in Procs, Position(p), ProcessStep(p), Opening(p)'
  PROVE  OpenMoves(p)
<1>1. CASE Stops(p) \/ Leaves(p)
  BY <1>1, AfterStop, AfterLeave DEF Opening, HasPlaintext
<1>2. ASSUME NEW l \in Labels, StartSend(p, l) PROVE OpenMoves(p)
  BY <1>2 DEF TypeOK, StartSend, Goto, Opening, HasPlaintext
<1>3. ASSUME NEW c \in InboxCommand, StartInbox(p, c) PROVE OpenMoves(p)
  BY <1>3 DEF TypeOK, StartInbox, Goto, Opening, HasPlaintext
<1>4. CASE \/ TrustAllows(p) \/ CheckLabel(p) \/ Reserve(p) \/ Protect(p) \/ Protected(p)
           \/ Fetch(p) \/ (\E e \in Envelopes : Visit(p, e)) \/ WriteArtifact(p)
  BY <1>4
  DEF TypeOK, TrustAllows, CheckLabel, Reserve, Protect, Protected, Fetch, Visit,
      WriteArtifact, Goto, Opening, HasPlaintext
<1>5. CASE \E e \in Envelopes : SkipUnsupported(p, e)
  BY <1>5 DEF SkipUnsupported, Opening, HasPlaintext
<1>6. CASE WriteMessage(p)
  <2>1. cmd[p].kind = "send" /\ cmd' = cmd /\ pc'[p] = "truncate"
    BY <1>6, CommandArguments DEF TypeOK, WriteMessage, Position, Goto
  <2>2. QED
    BY <2>1 DEF Opening, HasPlaintext
<1>7. CASE Truncate(p) \/ Save(p) \/ Reload(p)
  <2>1. cmd' = cmd /\ pc'[p] \in {"save", "reload", "report"}
    BY <1>7 DEF TypeOK, Truncate, Save, Reload, Goto
  <2>2. QED
    BY <1>7, <2>1 DEF Opening, HasPlaintext, OpenMoves
<1>8. QED
  BY <1>1, <1>2, <1>3, <1>4, <1>5, <1>6, <1>7
  DEF ProcessStep, Step, Failure, Stops, Leaves, OpenMoves

LEMMA NextInbox ==
  IInv /\ [Next]_vars /\ "inbox" \notin overlapped' => InboxSafe'
<1> SUFFICES ASSUME IInv, [Next]_vars, "inbox" \notin overlapped' PROVE InboxSafe'
  OBVIOUS
<1>0. TypeOK /\ \A p \in Procs : Position(p)
  BY DEF IInv
<1>01. \A q \in Procs : Position(q)'
  BY NextReceived, NextArguments DEF Position, Received, Arguments
<1>02. ASSUME NEW q \in Procs, Opening(q) PROVE content'[at[q]] = content[at[q]]
  BY <1>0, <1>02, PostedStays DEF TypeOK, Position
<1>1. "inbox" \notin overlapped
  BY WhoWrites
  DEF Next, ProcessStep, vars, ghosts, Deliver, CheckLabel, Open, Begins
<1>2. InboxSafe
  BY <1>1 DEF IInv
<1>3. CASE UNCHANGED <<storage, pc, cmd, memory, at, shown>>
  <2>1. \A q \in Procs : Opening(q)' => Opening(q)
    BY <1>3 DEF Opening, HasPlaintext
  <2>2. QED
    BY <1>01, <1>02, <1>2, <1>3, <2>1, InboxFrame
<1>4. CASE UNCHANGED vars \/ \E e \in Envelopes, c \in Other : Deliver(e, c)
  BY <1>3, <1>4 DEF vars, loop, ghosts, Deliver
<1>5. ASSUME NEW p \in Procs, ProcessStep(p) PROVE InboxSafe'
  <2>0. ASSUME NEW q \in Procs, q # p, Opening(q)'
        PROVE  /\ Opening(q) /\ pc'[q] = pc[q] /\ cmd'[q] = cmd[q] /\ memory'[q] = memory[q]
               /\ at'[q] = at[q] /\ content'[at[q]] = content[at[q]]
    <3>1. pc'[q] = pc[q] /\ cmd'[q] = cmd[q] /\ memory'[q] = memory[q] /\ at'[q] = at[q]
      BY <1>0, <1>5, <2>0, OthersUntouched
    <3>2. Opening(q)
      BY <2>0, <3>1 DEF Opening, HasPlaintext
    <3>3. QED
      BY <1>02, <3>1, <3>2
  <2>1. CASE \/ Open(p) \/ Show(p)
             \/ cmd[p].kind = "inbox" /\ (Truncate(p) \/ Save(p))
    BY <1>2, <2>1, OpenSafe, ShowSafe, InboxTruncateSafe, InboxSaveSafe
  <2>2. CASE (cmd[p].kind = "inbox" /\ Reload(p)) \/ Opened(p) \/ Ack(p)
    <3>1. /\ UNCHANGED <<storage, cmd, memory, at, shown>>
          /\ pc[p] \in {"reload", "report", "ack"} /\ pc'[p] \in {"report", "ack", "show"}
          /\ cmd[p].kind = "inbox"
      BY <1>0, <2>2, CommandArguments
      DEF TypeOK, Reload, Opened, Ack, Position, Goto, loop, ghosts
    <3>2. Consumed(p) /\ Consumed(p)' /\ Opening(p) /\ InCall(p)' = FALSE
      BY <3>1 DEF Consumed, HasPlaintext, Opening, InCall
    <3>3. \A q \in Procs : Opening(q)' =>
            /\ Opening(q) /\ cmd'[q] = cmd[q] /\ memory'[q] = memory[q] /\ at'[q] = at[q]
            /\ content'[at[q]] = content[at[q]]
            /\ \/ pc'[q] = pc[q]
               \/ Consumed(q) /\ Consumed(q)' /\ (InCall(q)' => InCall(q))
                  /\ pc'[q] \notin {"truncate", "save"}
      <4>1. ASSUME NEW q \in Procs, q # p, Opening(q)'
            PROVE  /\ Opening(q) /\ pc'[q] = pc[q] /\ cmd'[q] = cmd[q]
                   /\ memory'[q] = memory[q]
                   /\ at'[q] = at[q] /\ content'[at[q]] = content[at[q]]
        BY <2>0, <4>1
      <4>2. content'[at[p]] = content[at[p]]
        BY <1>02, <3>2
      <4>3. QED
        BY <3>1, <3>2, <4>1, <4>2
    <3>4. QED
      BY <1>01, <1>2, <3>1, <3>3, InboxFrame
  <2>3. CASE ~OpenMoves(p)
    <3>1. ~Opening(p)'
      BY <1>0, <1>5, <2>3, WhoOpens
    <3>2. shown' = shown
      BY <1>5, <2>3, WhoWrites DEF OpenMoves
    <3>3. storage'["inbox"] = storage["inbox"]
      <4>1. CASE Truncate(p) \/ Save(p)
        <5>1. cmd[p].kind # "inbox"
          BY <2>3, <4>1 DEF OpenMoves
        <5>2. PICK text \in {Torn} \cup SUBSET Keys :
                storage' = [storage EXCEPT ![cmd[p].kind] = text]
          BY <1>0, <4>1 DEF TypeOK, Truncate, Save
        <5>3. QED
          BY <1>0, <5>1, <5>2 DEF TypeOK
      <4>2. QED
        BY <1>5, <4>1, WhoWrites
    <3>4. \A q \in Procs : Opening(q)' =>
            /\ Opening(q) /\ pc'[q] = pc[q] /\ cmd'[q] = cmd[q] /\ memory'[q] = memory[q]
            /\ at'[q] = at[q] /\ content'[at[q]] = content[at[q]]
      BY <2>0, <3>1
    <3>5. QED
      BY <1>01, <1>2, <3>2, <3>3, <3>4, InboxFrame
  <2>4. QED
    BY <2>1, <2>2, <2>3 DEF OpenMoves
<1>6. QED
  BY <1>4, <1>5 DEF Next, ProcessStep

-----------------------------------------------------------------------------
(* Theorems *)

LEMMA InitIInv == Init => IInv
<1> SUFFICES ASSUME Init PROVE IInv
  OBVIOUS
<1>1. \A p \in Procs : pc[p] = "idle" /\ rest[p] = {} /\ at[p] = Nothing
  BY DEF Init
<1>2. \A e \in Envelopes : content[e] = Nothing /\ relay[e] = "unsent" /\ content[e] \notin Message
  BY NoMessage DEF Init
<1>3. \A p \in Procs : /\ Position(p) /\ SendPosition(p) /\ OpenPosition(p)
                       /\ ~HasLabel(p) /\ ~HasKey(p) /\ ~InCall(p) /\ ~Consumed(p)
  BY <1>1
  DEF Position, SendPosition, OpenPosition, Opening, HasPlaintext, HasLabel, HasKey, InCall,
      Consumed
<1>4. Posted /\ SubmittedOnce
  BY <1>2 DEF Posted, SubmittedOnce
<1>5. Spent = {} /\ Used = {}
  BY <1>2, <1>3 DEF Spent, Used, Init
<1>6. SendSafe
  BY <1>2, <1>3, <1>5 DEF SendSafe, Alone, SpentForGood
<1>7. InboxSafe
  BY <1>3, <1>5 DEF InboxSafe, Alone, UsedForGood
<1>8. QED
  BY <1>3, <1>4, <1>6, <1>7, InitType DEF IInv

\* The inductive invariant of the message commands: positions and types whatever
\* overlaps, and for each of the two storages what its calls have done to it and to
\* the message directories while no two of them have overlapped.
THEOREM Inductive == Spec => []IInv
<1>1. IInv /\ [Next]_vars => IInv'
  <2> SUFFICES ASSUME IInv, [Next]_vars PROVE IInv'
    OBVIOUS
  <2>1. \A p \in Procs : Position(p)'
    BY NextReceived, NextArguments DEF Position, Received, Arguments
  <2>2. QED
    BY <2>1, NextType, NextPosted, NextSend, NextInbox DEF IInv
<1>2. QED
  BY <1>1, InitIInv, PTL DEF Spec

\* While no two message-open calls overlap, no two inbox commands hand out the
\* plaintext of one message, and none does it again.
THEOREM MessageDeliveredOnce == Spec => []DeliveredOnce
<1>1. IInv => DeliveredOnce
  <2> SUFFICES ASSUME IInv, "inbox" \notin overlapped, NEW p \in Procs, HasPlaintext(p)
               PROVE  /\ content[at[p]].key \notin shown
                      /\ \A q \in Procs :
                           HasPlaintext(q) /\ content[at[q]].key = content[at[p]].key => q = p
    BY DEF DeliveredOnce
  <2>1. InboxSafe
    BY DEF IInv
  <2>2. QED
    BY <2>1 DEF InboxSafe, Consumed
<1>2. QED
  BY <1>1, Inductive, PTL

\* While no two message-protect calls overlap, a label and a key are submitted with
\* one envelope only, however often a send is repeated and wherever it fails.
THEOREM MessageSubmittedOnce == Spec => []SubmittedOnce
<1>1. IInv => SubmittedOnce
  BY DEF IInv, SubmittedOnce
<1>2. QED
  BY <1>1, Inductive, PTL

-----------------------------------------------------------------------------
(* Refinement *)

Acknowledged == {e \in Envelopes : relay[e] = "acknowledged"}

LEMMA InitDelivery == Init => Delivery!Init
BY DEF Init, Delivery!Init

LEMMA NextDelivery == IInv /\ [Next]_vars => [Delivery!Next]_(Delivery!vars)
<1> SUFFICES ASSUME IInv, [Next]_vars PROVE [Delivery!Next]_(Delivery!vars)
  OBVIOUS
<1>0. TypeOK /\ \A p \in Procs : Position(p)
  BY DEF IInv
<1>1. CASE UNCHANGED <<opened, Acknowledged>>
  BY <1>1 DEF Delivery!vars, Acknowledged
<1>2. CASE UNCHANGED vars
  BY <1>1, <1>2 DEF vars, posts, ghosts, Acknowledged
<1>3. ASSUME NEW e \in Envelopes, NEW c \in Other, Deliver(e, c)
      PROVE  UNCHANGED <<opened, Acknowledged>>
  BY <1>0, <1>3 DEF TypeOK, Deliver, Post, ghosts, Acknowledged
<1>4. ASSUME NEW p \in Procs, NEW e \in Envelopes, Submit(p, e)
      PROVE  UNCHANGED <<opened, Acknowledged>>
  BY <1>0, <1>4 DEF TypeOK, Submit, Post, ghosts, Acknowledged
<1>5. ASSUME NEW p \in Procs, Ack(p) PROVE [Delivery!Next]_(Delivery!vars)
  <2>1. at[p] \in Envelopes /\ at[p] \in opened /\ UNCHANGED opened
    BY <1>0, <1>5 DEF TypeOK, Ack, Position, HasPlaintext, ghosts
  <2>2. PICK taken \in BOOLEAN :
          relay' = [relay EXCEPT ![at[p]] = IF taken THEN "acknowledged" ELSE @]
    BY <1>5 DEF Ack
  <2>3. CASE ~taken
    BY <1>0, <1>1, <2>1, <2>2, <2>3 DEF TypeOK, Acknowledged
  <2>4. CASE taken
    <3>1. PICK e \in Envelopes : e = at[p]
      BY <2>1
    <3>2. Acknowledged' = Acknowledged \cup {e}
      BY <1>0, <2>2, <2>4, <3>1 DEF TypeOK, Acknowledged
    <3>3. Delivery!Acknowledge(e)
      BY <2>1, <3>1, <3>2 DEF Delivery!Acknowledge, Acknowledged
    <3>4. QED
      BY <3>3 DEF Delivery!Next
  <2>5. QED
    BY <2>3, <2>4
<1>6. ASSUME NEW p \in Procs, Opened(p) PROVE Delivery!Next
  <2>1. at[p] \in Envelopes /\ opened' = opened \cup {at[p]} /\ relay' = relay
    BY <1>0, <1>6, NoMessage DEF TypeOK, Opened, Position, Opening, posts
  <2>2. PICK e \in Envelopes : e = at[p]
    BY <2>1
  <2>3. Delivery!Process(e)
    BY <2>1, <2>2 DEF Delivery!Process
  <2>4. QED
    BY <2>3 DEF Delivery!Next
<1>7. ASSUME NEW p \in Procs, ProcessStep(p) PROVE [Delivery!Next]_(Delivery!vars)
  <2>1. CASE UNCHANGED <<relay, opened>>
    BY <1>1, <2>1 DEF Acknowledged
  <2>2. QED
    BY <1>1, <1>4, <1>5, <1>6, <1>7, <2>1, WhoWrites
<1>8. QED
  BY <1>1, <1>2, <1>3, <1>7 DEF Next, ProcessStep

\* The message commands implement RelayDelivery, whatever overlaps: an envelope is
\* acknowledged only after the sidecar has answered with its plaintext.
THEOREM DeliveryRefinement == Spec => ImplementsDelivery
<1>1. Init => Delivery!Init
  BY InitDelivery
<1>2. IInv /\ [Next]_vars => [Delivery!Next]_(Delivery!vars)
  BY NextDelivery
<1>3. QED
  BY <1>1, <1>2, Inductive, PTL DEF Spec, ImplementsDelivery, Delivery!Spec
=============================================================================
