--------------------------- MODULE DeviceIdentity ---------------------------
(***************************************************************************)
(* The identity directory of a sidecar device: identity-create, which      *)
(* writes four files one after the other, identity-status, which reads     *)
(* them one after the other, and the beginning of public-bundle-export,    *)
(* which is an identity-status and a second read of signer.json.  There is *)
(* no lock; a write empties its file first.                                *)
(*                                                                         *)
(*   file      the four files: absent, torn, or the key they were written  *)
(*             for                                                         *)
(*   pc, cmd   position and command of each process                        *)
(*   at        the place in Files of the file that a create is writing     *)
(*   key       the key a process has made or read                          *)
(*   answer    the last identity, and the key that signs for it, that a    *)
(*             process has been given                                      *)
(*   created   the keys of the identities that identity-create answered    *)
(***************************************************************************)
EXTENDS Naturals, Sequences

\* Creators are the processes that run identity-create.
CONSTANTS Procs, Creators, Keys, Nothing, Absent, Torn

VARIABLES file, pc, cmd, at, key, answer, created

vars == <<file, pc, cmd, at, key, answer, created>>

\* In the order in which identity-create writes them.
Files == <<"manifest", "signer", "summary", "state">>

Names == {"manifest", "signer", "summary", "state"}

Kinds(p) == {"status", "export"} \cup (IF p \in Creators THEN {"create"} ELSE {})

Answer == [ref : Keys, signer : Keys]

\* What the constants are assumed to be.
KeyAssumption == {Nothing, Absent, Torn} \cap Keys = {} /\ Absent # Torn

-----------------------------------------------------------------------------
Goto(p, label) == pc' = [pc EXCEPT ![p] = label]

Return(p) ==
  /\ Goto(p, "idle")
  /\ cmd' = [cmd EXCEPT ![p] = "none"]
  /\ at' = [at EXCEPT ![p] = 0]
  /\ key' = [key EXCEPT ![p] = Nothing]

Readable(f) == file[f] \notin {Absent, Torn}

Init ==
  /\ file = [f \in Names |-> Absent]
  /\ pc = [p \in Procs |-> "idle"]
  /\ cmd = [p \in Procs |-> "none"]
  /\ at = [p \in Procs |-> 0]
  /\ key = [p \in Procs |-> Nothing]
  /\ answer = [p \in Procs |-> Nothing]
  /\ created = {}

Start(p, kind) ==
  /\ pc[p] = "idle"
  /\ Goto(p, "check")
  /\ cmd' = [cmd EXCEPT ![p] = kind]
  /\ UNCHANGED <<file, at, key, answer, created>>

-----------------------------------------------------------------------------
(* identity-create *)

\* A key that no file was written for.
Draws(p) ==
  \E k \in Keys \ ({file[f] : f \in Names} \cup {key[q] : q \in Procs} \cup created) :
    key' = [key EXCEPT ![p] = k]

\* Mutant: an identity is made over one that exists.
CheckNothing(p) ==
  /\ pc[p] = "check"
  /\ cmd[p] = "create"
  /\ Draws(p)
  /\ at' = [at EXCEPT ![p] = 1]
  /\ Goto(p, "open")
  /\ UNCHANGED <<file, cmd, answer, created>>

\* The directory must have none of the four files.
CheckAbsent(p) ==
  /\ pc[p] = "check"
  /\ cmd[p] = "create"
  /\ \A f \in Names : file[f] = Absent
  /\ Draws(p)
  /\ at' = [at EXCEPT ![p] = 1]
  /\ Goto(p, "open")
  /\ UNCHANGED <<file, cmd, answer, created>>

OpenFile(p) ==
  /\ pc[p] = "open"
  /\ file' = [file EXCEPT ![Files[at[p]]] = Torn]
  /\ Goto(p, "fill")
  /\ UNCHANGED <<cmd, at, key, answer, created>>

\* Over a text that another process has written since, a tail of it may stay.
FillFile(p) ==
  /\ pc[p] = "fill"
  /\ LET f == Files[at[p]] IN
       \E text \in {key[p]} \cup (IF Readable(f) THEN {Torn} ELSE {}) :
         file' = [file EXCEPT ![f] = text]
  /\ IF at[p] = Len(Files)
     THEN Goto(p, "created") /\ UNCHANGED at
     ELSE Goto(p, "open") /\ at' = [at EXCEPT ![p] = @ + 1]
  /\ UNCHANGED <<cmd, key, answer, created>>

AnswerCreated(p) ==
  /\ pc[p] = "created"
  /\ created' = created \cup {key[p]}
  /\ Return(p)
  /\ UNCHANGED <<file, answer>>

-----------------------------------------------------------------------------
(* identity-status, and public-bundle-export up to its KeyPackage *)

CheckPresent(p) ==
  /\ pc[p] = "check"
  /\ cmd[p] \in {"status", "export"}
  /\ \A f \in Names \ {"manifest"} : file[f] # Absent
  /\ Goto(p, "signer")
  /\ UNCHANGED <<file, cmd, at, key, answer, created>>

ReadSigner(p) ==
  /\ pc[p] = "signer"
  /\ Readable("signer")
  /\ key' = [key EXCEPT ![p] = file["signer"]]
  /\ Goto(p, "summary")
  /\ UNCHANGED <<file, cmd, at, answer, created>>

\* The summary is compared with the signer once all files are read.
ReadSummary(p) ==
  /\ pc[p] = "summary"
  /\ file["summary"] = key[p]
  /\ Goto(p, "state")
  /\ UNCHANGED <<file, cmd, at, key, answer, created>>

\* Mutant: identity-state.json is not read.
ReadNoState(p) ==
  /\ pc[p] = "state"
  /\ IF cmd[p] = "status"
     THEN /\ answer' = [answer EXCEPT ![p] = [ref |-> key[p], signer |-> key[p]]]
          /\ Return(p)
     ELSE Goto(p, "again") /\ UNCHANGED <<cmd, at, key, answer>>
  /\ UNCHANGED <<file, created>>

ReadState(p) ==
  /\ pc[p] = "state"
  /\ Readable("state")
  /\ IF cmd[p] = "status"
     THEN /\ answer' = [answer EXCEPT ![p] = [ref |-> key[p], signer |-> key[p]]]
          /\ Return(p)
     ELSE Goto(p, "again") /\ UNCHANGED <<cmd, at, key, answer>>
  /\ UNCHANGED <<file, created>>

\* The export loads the signer once more, for the KeyPackage.
ReadSignerAgain(p) ==
  /\ pc[p] = "again"
  /\ Readable("signer")
  /\ answer' = [answer EXCEPT ![p] = [ref |-> key[p], signer |-> file["signer"]]]
  /\ Return(p)
  /\ UNCHANGED <<file, created>>

\* A command is refused, a file cannot be used, or the process stops.
Fail(p) ==
  /\ pc[p] # "idle"
  /\ Return(p)
  /\ file' \in {file} \cup (IF pc[p] = "fill" THEN {[file EXCEPT ![Files[at[p]]] = Torn]} ELSE {})
  /\ UNCHANGED <<answer, created>>

-----------------------------------------------------------------------------
Step(p) ==
  \/ CheckAbsent(p) \/ OpenFile(p) \/ FillFile(p) \/ AnswerCreated(p)
  \/ CheckPresent(p) \/ ReadSigner(p) \/ ReadSummary(p) \/ ReadState(p) \/ ReadSignerAgain(p)
  \/ Fail(p)

Next == \E p \in Procs : Step(p) \/ \E kind \in Kinds(p) : Start(p, kind)

Spec == Init /\ [][Next]_vars

-----------------------------------------------------------------------------
(* Properties *)

\* "existing identity state was not overwritten": no create touches a file of an
\* identity that another one has answered as created.
IdentityStays ==
  [][\A k \in created : \A f \in Names : file'[f] = file[f]]_file

\* No status or export is answered about an identity that is not written in full
\* and for the same key in all files, wherever a create has stopped.
AnsweredIsWhole ==
  \A p \in Procs : answer[p] # Nothing => \A f \in Names : file[f] = answer[p].ref

\* The public bundle says of its KeyPackage the identity that signed it.
BundleSignedByIdentity ==
  \A p \in Procs : answer[p] # Nothing => answer[p].signer = answer[p].ref

-----------------------------------------------------------------------------
(* The inductive invariant, with one creator *)

OneCreator == \A p, q \in Creators : p = q

TypeOK ==
  /\ file \in [Names -> Keys \cup {Absent, Torn}]
  /\ pc \in [Procs -> {"idle", "check", "open", "fill", "created",
                       "signer", "summary", "state", "again"}]
  /\ cmd \in [Procs -> {"none", "create", "status", "export"}]
  /\ at \in [Procs -> 0..Len(Files)]
  /\ key \in [Procs -> Keys \cup {Nothing}]
  /\ answer \in [Procs -> Answer \cup {Nothing}]
  /\ created \subseteq Keys

Complete(k) == \A f \in Names : file[f] = k

\* The files are written in their order, for one key.
Ordered ==
  \A i \in 1..Len(Files) - 1 :
    file[Files[i + 1]] # Absent =>
      file[Files[i]] \in Keys /\ file[Files[i + 1]] \in {file[Files[i]], Torn}

\* A create has written the files before the one it is at, and nobody has written
\* those after it.
CreatePosition(p) ==
  /\ pc[p] \in {"open", "fill", "created"} => p \in Creators /\ key[p] \in Keys
  /\ pc[p] \in {"open", "fill"} =>
       /\ at[p] \in 1..Len(Files)
       /\ \A i \in 1..Len(Files) :
            file[Files[i]] = IF i < at[p] THEN key[p]
                             ELSE IF i = at[p] /\ pc[p] = "fill" THEN Torn ELSE Absent
  /\ pc[p] = "created" => Complete(key[p])

\* What has been read does not change: the create is at its last file, or done.
ReadPosition(p) ==
  /\ pc[p] \in {"signer", "summary", "state", "again"} => file["state"] # Absent
  /\ pc[p] \in {"summary", "state", "again"} => key[p] = file["signer"]
  /\ pc[p] = "again" => Complete(key[p])

IInv ==
  /\ TypeOK
  /\ Ordered
  /\ \A p \in Procs : cmd[p] = "create" => p \in Creators
  /\ \A p \in Procs : CreatePosition(p) /\ ReadPosition(p)
  /\ AnsweredIsWhole
  /\ BundleSignedByIdentity
  /\ \A k \in created : Complete(k)
=============================================================================
