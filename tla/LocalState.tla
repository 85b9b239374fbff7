----------------------------- MODULE LocalState -----------------------------
(***************************************************************************)
(* state.json of a Comms device, which every other command takes its       *)
(* server, account and device from, and the commands that write it or send *)
(* what it names: init, claim-invite, register-device, list-devices, the   *)
(* commands that need a ready device ("use": send, inbox, ack),            *)
(* dev-create-invite, relay-space-invite-claim-dev ("space") and           *)
(* relay-space-member-state-dev ("member").  A save is os.WriteFile of the *)
(* whole record, which empties the file first; there is no lock; and       *)
(* ServerFromStateOrFlag reads the file a second time.                     *)
(*                                                                         *)
(*   state     state.json: absent, torn, or a record                       *)
(*   issuer    the server that issued each account                         *)
(*   owner     the account that each device was registered for             *)
(*   pc, cmd   position and arguments of each process                      *)
(*   memory    the record a process has read, and changed                  *)
(*   target    the server a process is about to ask                        *)
(*                                                                         *)
(* and, to state properties,                                               *)
(*                                                                         *)
(*   reclaimed   the devices that were in the state that a claim-invite    *)
(*               gave another account                                      *)
(*   named       the servers that state.json has ever named                *)
(***************************************************************************)
CONSTANTS Procs, Kinds, Servers, DefaultServer, Accounts, Devices, Nothing, Absent, Torn

VARIABLES state, issuer, owner, pc, cmd, memory, target, reclaimed, named

relay == <<issuer, owner>>
ghosts == <<reclaimed, named>>
vars == <<state, relay, pc, cmd, memory, target, ghosts>>

State == [server : Servers, account : Accounts \cup {Nothing}, device : Devices \cup {Nothing}]

\* What a failed Load returns.
Blank == [server |-> DefaultServer, account |-> Nothing, device |-> Nothing]

\* "server" is the --server flag, Nothing when it is not given.
Command ==
  [kind : Kinds \cap {"init"}, server : Servers]
  \cup [kind : Kinds \cap {"claim", "invite", "space", "member"}, server : Servers \cup {Nothing}]
  \cup [kind : Kinds \cap {"register", "list", "use"}, server : {Nothing}]

NoCommand == [kind |-> "none", server |-> Nothing]

\* What the constants are assumed to be.
ServerAssumption == DefaultServer \in Servers /\ Nothing \notin Servers
NothingAssumption == Nothing \notin Accounts /\ Nothing \notin Devices
UnreadableAssumption == Absent \notin State /\ Torn \notin State /\ Absent # Torn

-----------------------------------------------------------------------------
Goto(p, label) == pc' = [pc EXCEPT ![p] = label]

Return(p) ==
  /\ Goto(p, "idle")
  /\ cmd' = [cmd EXCEPT ![p] = NoCommand]
  /\ memory' = [memory EXCEPT ![p] = Blank]
  /\ target' = [target EXCEPT ![p] = Nothing]

Readable == state \notin {Absent, Torn}

Init ==
  /\ state = Absent
  /\ issuer = [a \in Accounts |-> Nothing]
  /\ owner = [d \in Devices |-> Nothing]
  /\ pc = [p \in Procs |-> "idle"]
  /\ cmd = [p \in Procs |-> NoCommand]
  /\ memory = [p \in Procs |-> Blank]
  /\ target = [p \in Procs |-> Nothing]
  /\ reclaimed = {}
  /\ named = {}

\* dev-create-invite needs no state.
Start(p, c) ==
  /\ pc[p] = "idle"
  /\ Goto(p, IF c.kind = "invite" THEN "resolve" ELSE "load")
  /\ cmd' = [cmd EXCEPT ![p] = c]
  /\ UNCHANGED <<state, relay, memory, target, ghosts>>

-----------------------------------------------------------------------------
(* Reading the state *)

\* Mutant: init changes the server of the state it finds.
InitKeepsAccount(p) ==
  /\ pc[p] = "load"
  /\ cmd[p].kind = "init"
  /\ memory' = [memory EXCEPT ![p] =
       [(IF Readable THEN state ELSE Blank) EXCEPT !.server = cmd[p].server]]
  /\ Goto(p, "save")
  /\ UNCHANGED <<state, relay, cmd, target, ghosts>>

\* init does not read.
InitState(p) ==
  /\ pc[p] = "load"
  /\ cmd[p].kind = "init"
  /\ memory' = [memory EXCEPT ![p] = [Blank EXCEPT !.server = cmd[p].server]]
  /\ Goto(p, "save")
  /\ UNCHANGED <<state, relay, cmd, target, ghosts>>

\* claim-invite takes no notice of an error of Load.
LoadForClaim(p) ==
  /\ pc[p] = "load"
  /\ cmd[p].kind = "claim"
  /\ memory' = [memory EXCEPT ![p] = IF Readable THEN state ELSE Blank]
  /\ Goto(p, "resolve")
  /\ UNCHANGED <<state, relay, cmd, target, ghosts>>

\* Require and RequireReadyDevice, and the checks of the commands.
HasAccount(s, kind) == kind \in {"register", "list", "space"} => s.account # Nothing
HasDevice(s, kind) == kind \in {"use", "space"} => s.device # Nothing

\* Mutant: relay-space-member-state-dev goes on when the state cannot be read.
RequireUnlessMember(p) ==
  /\ pc[p] = "load"
  /\ cmd[p].kind \in {"space", "member"}
  /\ cmd[p].kind = "space" => Readable /\ HasAccount(state, "space") /\ HasDevice(state, "space")
  /\ memory' = [memory EXCEPT ![p] = IF Readable THEN state ELSE Blank]
  /\ Goto(p, "resolve")
  /\ UNCHANGED <<state, relay, cmd, target, ghosts>>

\* The Relay Space commands then look for a server ...
RequireForSpace(p) ==
  /\ pc[p] = "load"
  /\ cmd[p].kind \in {"space", "member"}
  /\ Readable
  /\ HasAccount(state, cmd[p].kind)
  /\ HasDevice(state, cmd[p].kind)
  /\ memory' = [memory EXCEPT ![p] = state]
  /\ Goto(p, "resolve")
  /\ UNCHANGED <<state, relay, cmd, target, ghosts>>

\* ... the others ask the server of the state.
Require(p) ==
  /\ pc[p] = "load"
  /\ cmd[p].kind \in {"register", "list", "use"}
  /\ Readable
  /\ HasAccount(state, cmd[p].kind)
  /\ HasDevice(state, cmd[p].kind)
  /\ memory' = [memory EXCEPT ![p] = state]
  /\ target' = [target EXCEPT ![p] = state.server]
  /\ Goto(p, "request")
  /\ UNCHANGED <<state, relay, cmd, ghosts>>

ServerFromStateOrFlag(flag) ==
  IF flag # Nothing THEN flag ELSE IF Readable THEN state.server ELSE DefaultServer

Resolve(p) ==
  /\ pc[p] = "resolve"
  /\ target' = [target EXCEPT ![p] = ServerFromStateOrFlag(cmd[p].server)]
  /\ Goto(p, "request")
  /\ UNCHANGED <<state, relay, cmd, memory, ghosts>>

-----------------------------------------------------------------------------
(* Asking the server.  It issues a new account for each invite and a new   *)
(* device for each registration.                                           *)

\* Mutant: the state keeps its server.
ClaimKeepsServer(p) ==
  /\ pc[p] = "request"
  /\ cmd[p].kind = "claim"
  /\ \E a \in {b \in Accounts : issuer[b] = Nothing} :
       /\ issuer' = [issuer EXCEPT ![a] = target[p]]
       /\ memory' = [memory EXCEPT ![p].account = a]
  /\ reclaimed' = reclaimed \cup ({memory[p].device} \ {Nothing})
  /\ Goto(p, "save")
  /\ UNCHANGED <<state, owner, cmd, target, named>>

\* The device of the state stays in it.
ClaimInvite(p) ==
  /\ pc[p] = "request"
  /\ cmd[p].kind = "claim"
  /\ \E a \in {b \in Accounts : issuer[b] = Nothing} :
       /\ issuer' = [issuer EXCEPT ![a] = target[p]]
       /\ memory' = [memory EXCEPT ![p].account = a, ![p].server = target[p]]
  /\ reclaimed' = reclaimed \cup ({memory[p].device} \ {Nothing})
  /\ Goto(p, "save")
  /\ UNCHANGED <<state, owner, cmd, target, named>>

\* Mutant: the device is put into the state that is there by then.
RegisterOverFresh(p) ==
  /\ pc[p] = "request"
  /\ cmd[p].kind = "register"
  /\ issuer[memory[p].account] = target[p]
  /\ \E d \in {e \in Devices : owner[e] = Nothing} :
       /\ owner' = [owner EXCEPT ![d] = memory[p].account]
       /\ memory' = [memory EXCEPT ![p] =
            [(IF Readable THEN state ELSE Blank) EXCEPT !.device = d]]
  /\ Goto(p, "save")
  /\ UNCHANGED <<state, issuer, cmd, target, ghosts>>

RegisterDevice(p) ==
  /\ pc[p] = "request"
  /\ cmd[p].kind = "register"
  /\ issuer[memory[p].account] = target[p]
  /\ \E d \in {e \in Devices : owner[e] = Nothing} :
       /\ owner' = [owner EXCEPT ![d] = memory[p].account]
       /\ memory' = [memory EXCEPT ![p].device = d]
  /\ Goto(p, "save")
  /\ UNCHANGED <<state, issuer, cmd, target, ghosts>>

\* The server has done what was asked, and its answer is lost.
AnswerLost(p) ==
  /\ pc[p] = "request"
  /\ \/ /\ cmd[p].kind = "claim"
        /\ \E a \in {b \in Accounts : issuer[b] = Nothing} :
             issuer' = [issuer EXCEPT ![a] = target[p]]
        /\ UNCHANGED owner
     \/ /\ cmd[p].kind = "register"
        /\ issuer[memory[p].account] = target[p]
        /\ \E d \in {e \in Devices : owner[e] = Nothing} :
             owner' = [owner EXCEPT ![d] = memory[p].account]
        /\ UNCHANGED issuer
  /\ Return(p)
  /\ UNCHANGED <<state, ghosts>>

\* The commands that leave the state alone.
Asks(p, kind) ==
  /\ pc[p] = "request"
  /\ cmd[p].kind = kind
  /\ Return(p)
  /\ UNCHANGED <<state, relay, ghosts>>

CreateDevInvite(p) == Asks(p, "invite")
ListDevices(p) == Asks(p, "list")
UseDevice(p) == Asks(p, "use")
ClaimRelaySpaceInvite(p) == Asks(p, "space")
UpdateMemberState(p) == Asks(p, "member")

-----------------------------------------------------------------------------
(* Save *)

Truncate(p) ==
  /\ pc[p] = "save"
  /\ state' = Torn
  /\ Goto(p, "write")
  /\ UNCHANGED <<relay, cmd, memory, target, ghosts>>

\* A shorter text over one that another command has written since leaves a
\* tail of it.
Write(p) ==
  /\ pc[p] = "write"
  /\ state' \in {memory[p]} \cup (IF Readable THEN {Torn} ELSE {})
  /\ named' = named \cup (IF state' = Torn THEN {} ELSE {memory[p].server})
  /\ Return(p)
  /\ UNCHANGED <<relay, reclaimed>>

\* An error of a file or of the server, or a crash; also part of a write.
Fail(p) ==
  /\ pc[p] # "idle"
  /\ Return(p)
  /\ state' \in {state} \cup (IF pc[p] = "write" THEN {Torn} ELSE {})
  /\ UNCHANGED <<relay, ghosts>>

-----------------------------------------------------------------------------
Step(p) ==
  \/ InitState(p) \/ LoadForClaim(p) \/ RequireForSpace(p) \/ Require(p) \/ Resolve(p)
  \/ ClaimInvite(p) \/ RegisterDevice(p) \/ AnswerLost(p) \/ CreateDevInvite(p) \/ ListDevices(p)
  \/ UseDevice(p) \/ ClaimRelaySpaceInvite(p) \/ UpdateMemberState(p)
  \/ Truncate(p) \/ Write(p) \/ Fail(p)

Next == \E p \in Procs : Step(p) \/ \E c \in Command : Start(p, c)

Spec == Init /\ [][Next]_vars

-----------------------------------------------------------------------------
(* Properties *)

\* The type invariant.
TypeOK ==
  /\ state \in State \cup {Absent, Torn}
  /\ issuer \in [Accounts -> Servers \cup {Nothing}]
  /\ owner \in [Devices -> Accounts \cup {Nothing}]
  /\ pc \in [Procs -> {"idle", "load", "resolve", "request", "save", "write"}]
  /\ cmd \in [Procs -> Command \cup {NoCommand}]
  /\ memory \in [Procs -> State]
  /\ target \in [Procs -> Servers \cup {Nothing}]
  /\ \A p \in Procs : pc[p] = "request" => target[p] \in Servers
  /\ reclaimed \subseteq Devices
  /\ named \subseteq Servers

\* Account a and device d are known to server v and belong together.  What a
\* claim-invite over a registered device leaves is not covered.
Issued(v, a, d) ==
  /\ a # Nothing => issuer[a] = v
  /\ d \notin reclaimed \cup {Nothing} => owner[d] = a

\* Commands that overlap, fail or lose answers lose each other's updates, but
\* never mix them: the server of the state issued its account, and its device was
\* registered for this account.
StateIsIssued == Readable => Issued(state.server, state.account, state.device)

\* A command that sends what it has read of the state sends it to the server
\* that issued it, whatever is written to the state in the meantime.
RequestsAreIssued ==
  \A p \in Procs : pc[p] = "request" /\ cmd[p].kind \in {"register", "list", "use"} =>
    Issued(target[p], memory[p].account, memory[p].device)

\* relay-space-invite-claim-dev without --server, which takes the account and the
\* server from two reads, sends an account to the server that issued it.
SpaceClaimsAreIssued ==
  \A p \in Procs : pc[p] = "request" /\ cmd[p] = [kind |-> "space", server |-> Nothing] =>
    Issued(target[p], memory[p].account, memory[p].device)

\* "explicit local Comms state path controlling server context":
\* relay-space-member-state-dev without --server changes a member at a server
\* that the state has named.
StateControlsServer ==
  \A p \in Procs : pc[p] = "request" /\ cmd[p] = [kind |-> "member", server |-> Nothing] =>
    target[p] \in named

-----------------------------------------------------------------------------
(* The inductive invariant *)

\* A record whose parts belong together.
Sound(s) ==
  /\ Issued(s.server, s.account, s.device)
  /\ s.device # Nothing => s.account # Nothing

\* What a command has read, or made of it, and the server it is about to ask.
Position(p) ==
  /\ pc[p] = "idle" <=> cmd[p] = NoCommand
  /\ Sound(memory[p])
  /\ pc[p] = "resolve" => cmd[p].kind \in {"claim", "invite", "space", "member"}
  /\ pc[p] = "request" /\ cmd[p].kind \in {"register", "list", "use"} =>
       target[p] = memory[p].server /\ HasAccount(memory[p], cmd[p].kind)

IInv ==
  /\ TypeOK
  /\ Readable => Sound(state) /\ state.server \in named
  /\ \A p \in Procs : Position(p)

\* One command at a time.
Alone == \A p, q \in Procs : pc[p] # "idle" /\ pc[q] # "idle" => p = q

\* The state is what a Relay Space command has read of it, until it has looked for
\* its server.
SpacePosition(p) ==
  cmd[p].kind \in {"space", "member"} =>
    /\ pc[p] = "resolve" => Readable /\ memory[p] = state
    /\ pc[p] = "request" /\ cmd[p].server = Nothing =>
         target[p] = memory[p].server /\ target[p] \in named

SpaceIInv == Alone /\ \A p \in Procs : SpacePosition(p)
=============================================================================
