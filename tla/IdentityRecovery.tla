-------------------------- MODULE IdentityRecovery --------------------------
(***************************************************************************)
(* Recovery classification: what is left of trust.json, trust-events.jsonl *)
(* and identity-candidates.json, and what a known device, a mismatch       *)
(* decision and a candidate call for; the answer is recorded in the trust  *)
(* history.  The three files are read one after the other while other      *)
(* commands, crashes and the user change them.                             *)
(*                                                                         *)
(*   file    for each file: absent, sound or torn                          *)
(*   pc      position of each process                                      *)
(*   input   what the caller of a classification gives                     *)
(*   answer  the classification a process has come to                      *)
(*   held    (ghost) what each file has been until a process had read it    *)
(***************************************************************************)
EXTENDS IdentityMismatch

CONSTANTS
  Procs,
  Inputs  \* the arguments that callers give

VARIABLES file, pc, input, answer, held

vars == <<file, pc, input, answer, held>>

File == {"trust", "history", "candidates"}
Condition == {"absent", "sound", "torn"}

\* A known device, a mismatch decision and whether it blocks sending, a candidate.
Input == [known : TrustState \cup {"none"}, mismatch : Classification \cup {"none"},
          blocks : BOOLEAN, candidate : CandidateState \cup {"none"}]

\* What the constants are assumed to be.
InputsAssumption == Inputs \subseteq Input

NoInput == [known |-> "none", mismatch |-> "none", blocks |-> FALSE, candidate |-> "none"]

\* A classification, and the file that it is about.
Answer == [class : {"missing", "corrupt", "clean", "reverify", "candidate_conflict",
                    "identity_mismatch", "reenrollment", "revoked", "compromised"},
           about : File \cup {"none"}, blocksSend : BOOLEAN, blocksPromotion : BOOLEAN]
NoAnswer == [class |-> "none"]

\* Only a damaged trust store blocks sending.
Damage(f, condition) ==
  [class |-> IF condition = "absent" THEN "missing" ELSE "corrupt", about |-> f,
   blocksSend |-> f = "trust", blocksPromotion |-> FALSE]

Goto(p, label) == pc' = [pc EXCEPT ![p] = label]

Init ==
  /\ file \in [File -> {"absent", "sound"}]
  /\ pc = [p \in Procs |-> "idle"]
  /\ input = [p \in Procs |-> NoInput]
  /\ answer = [p \in Procs |-> NoAnswer]
  /\ held = [p \in Procs |-> [f \in File |-> {}]]

OrchestrateIdentityRecovery(p, i) ==
  /\ pc[p] = "idle"
  /\ Goto(p, "trust")
  /\ input' = [input EXCEPT ![p] = i]
  /\ held' = [held EXCEPT ![p] = [f \in File |-> {file[f]}]]
  /\ UNCHANGED <<file, answer>>

\* The file that is read next, or the decision on the input.
After(f) == [trust |-> "history", history |-> "candidates", candidates |-> "input"][f]

\* Mutant: an empty text is taken for an empty store.
ReadTornAsEmpty(p, f) ==
  /\ pc[p] = f
  /\ IF file[f] \in {"sound", "torn"}
     THEN Goto(p, After(f)) /\ UNCHANGED answer
     ELSE /\ answer' = [answer EXCEPT ![p] = Damage(f, file[f])]
          /\ Goto(p, "record")
  /\ UNCHANGED <<file, input, held>>

\* classifyTrustStoreFile, classifyTrustHistoryFile, classifyCandidateStoreFile.
ReadFile(p, f) ==
  /\ pc[p] = f
  /\ IF file[f] = "sound"
     THEN Goto(p, After(f)) /\ UNCHANGED answer
     ELSE /\ answer' = [answer EXCEPT ![p] = Damage(f, file[f])]
          /\ Goto(p, "record")
  /\ UNCHANGED <<file, input, held>>

\* Mutant: a candidate is not looked at when there is a mismatch decision.
ClassOfDecision(i) ==
  CASE i.known = "revoked" \/ i.mismatch = "blocked_revoked" -> "revoked"
    [] i.known = "compromised" \/ i.mismatch = "blocked_compromised" -> "compromised"
    [] i.known = "changed" \/ i.mismatch = "reverify_required" -> "reverify"
    [] i.mismatch = "review_required_conflict" -> "candidate_conflict"
    [] i.mismatch = "changed_candidate" -> "identity_mismatch"
    [] i.mismatch = "none" /\ i.candidate = "conflicts_known_device" -> "candidate_conflict"
    [] i.mismatch = "none" /\ i.candidate = "rejected" -> "reenrollment"
    [] i.mismatch = "none" /\ i.candidate = "unverified" -> "reverify"
    [] OTHER -> "clean"

\* The known device decides first, then the mismatch decision, then the candidate.
ClassOfKnown == [revoked |-> "revoked", compromised |-> "compromised", changed |-> "reverify"]
ClassOfMismatch ==
  [reverify_required |-> "reverify", review_required_conflict |-> "candidate_conflict",
   changed_candidate |-> "identity_mismatch", blocked_revoked |-> "revoked",
   blocked_compromised |-> "compromised"]
ClassOfCandidate ==
  [conflicts_known_device |-> "candidate_conflict", rejected |-> "reenrollment",
   unverified |-> "reverify"]

ClassOfInput(i) ==
  IF i.known \in DOMAIN ClassOfKnown THEN ClassOfKnown[i.known]
  ELSE IF i.mismatch \in DOMAIN ClassOfMismatch THEN ClassOfMismatch[i.mismatch]
  ELSE IF i.candidate \in DOMAIN ClassOfCandidate THEN ClassOfCandidate[i.candidate]
  ELSE "clean"

\* A conflict blocks sending if the decision that found it does.
BlocksOnInput(i) ==
  IF ClassOfInput(i) = "candidate_conflict" /\ i.mismatch = "review_required_conflict"
  THEN i.blocks ELSE ClassOfInput(i) # "clean"

ClassifyInput(p) ==
  /\ pc[p] = "input"
  /\ LET class == ClassOfInput(input[p]) IN
       answer' = [answer EXCEPT ![p] =
         [class |-> class, about |-> "none", blocksSend |-> BlocksOnInput(input[p]),
          blocksPromotion |-> class \in {"revoked", "compromised"}]]
  /\ Goto(p, "record")
  /\ UNCHANGED <<file, input, held>>

\* The files that a process has yet to read.
Unread == [trust |-> File, history |-> {"history", "candidates"},
              candidates |-> {"candidates"}]

\* File f changes, under the eyes of the processes that will read it.
Becomes(f, condition) ==
  /\ file' = [file EXCEPT ![f] = condition]
  /\ held' = [p \in Procs |->
       IF pc[p] \in File /\ f \in Unread[pc[p]]
       THEN [held[p] EXCEPT ![f] = @ \cup {condition}] ELSE held[p]]

\* ShouldAppendIdentityRecoveryHistoryByDefault, and the caller's choice.
Recorded(choice, a) ==
  choice = "always" \/ (choice = "default" /\ a.class # "clean")

\* The append creates a missing history, and leaves a torn one torn; it may fail.
AppendIdentityRecoveryHistoryEvent(p) ==
  /\ pc[p] = "record"
  /\ \/ /\ \E choice \in {"default", "always"} : Recorded(choice, answer[p])
        /\ file["history"] = "absent"
        /\ Becomes("history", "sound")
     \/ UNCHANGED <<file, held>>
  /\ Goto(p, "done")
  /\ UNCHANGED <<input, answer>>

Return(p) ==
  /\ pc[p] = "done"
  /\ Goto(p, "idle")
  /\ input' = [input EXCEPT ![p] = NoInput]
  /\ answer' = [answer EXCEPT ![p] = NoAnswer]
  /\ held' = [held EXCEPT ![p] = [f \in File |-> {}]]
  /\ UNCHANGED file

\* Other commands and the user: a file is lost; a save empties a store and then
\* writes it, or stops in between; an event is appended, in full or in part.
Change(f, condition) ==
  /\ f = "history" /\ condition = "sound" => file[f] # "torn"
  /\ Becomes(f, condition)
  /\ UNCHANGED <<pc, input, answer>>

Step(p) ==
  \/ \E f \in File : ReadFile(p, f)
  \/ ClassifyInput(p) \/ AppendIdentityRecoveryHistoryEvent(p) \/ Return(p)

Next ==
  \/ \E p \in Procs : Step(p) \/ \E i \in Inputs : OrchestrateIdentityRecovery(p, i)
  \/ \E f \in File, c \in Condition : Change(f, c)

Spec == Init /\ [][Next]_vars

-----------------------------------------------------------------------------
(* Properties *)

TypeOK ==
  /\ file \in [File -> Condition]
  /\ pc \in [Procs -> File \cup {"idle", "input", "record", "done"}]
  /\ input \in [Procs -> Input \cup {NoInput}]
  /\ answer \in [Procs -> Answer \cup {NoAnswer}]
  /\ held \in [Procs -> [File -> SUBSET Condition]]

Answered(p) == pc[p] \in {"record", "done"}

\* An answer names damage that a file had while the call ran, and a file that was
\* never sound while it ran is not overlooked for a later file, nor for the input.
ReportsAgree ==
  \A p \in Procs : Answered(p) =>
    /\ \A f \in File, c \in {"absent", "torn"} : answer[p] = Damage(f, c) => c \in held[p][f]
    /\ "sound" \notin held[p]["trust"] =>
         \E c \in {"absent", "torn"} : answer[p] = Damage("trust", c)
    /\ "sound" \notin held[p]["history"] =>
         \E f \in {"trust", "history"}, c \in {"absent", "torn"} : answer[p] = Damage(f, c)

\* When a recovery is answered with all files sound while it ran, nothing that
\* calls for a block is let through: not the device, not the mismatch decision,
\* not the candidate, unless a decision on a conflict says that it does not block.
CleanIsHarmless ==
  \A p \in Procs :
    Answered(p) /\ (\A f \in File : held[p][f] = {"sound"}) /\ ~answer[p].blocksSend =>
      /\ input[p].known \notin {"changed", "revoked", "compromised"}
      /\ \/ /\ input[p].mismatch \in {"none", "candidate_only", "continuity_observation"}
            /\ input[p].candidate \notin {"conflicts_known_device", "rejected", "unverified"}
         \/ input[p].mismatch = "review_required_conflict" /\ ~input[p].blocks

\* The recovery of a device known to be revoked blocks promotion.  Refuted when a
\* file is missing (README).
RevokedBlocksRecovery ==
  \A p \in Procs :
    Answered(p) /\ input[p].known = "revoked" => answer[p].blocksPromotion

-----------------------------------------------------------------------------
(* The inductive invariant *)

\* Every file that was read and passed was sound then, and what has yet to be read
\* is what it was at some time while the call ran.
Passed(p, f) == "sound" \in held[p][f]

Position(p) ==
  /\ pc[p] \in File => \A f \in Unread[pc[p]] : file[f] \in held[p][f]
  /\ pc[p] \in File \cup {"input"} =>
       \A f \in File : pc[p] = "input" \/ f \notin Unread[pc[p]] => Passed(p, f)

\* An answer is about the first file that was not sound when it was read, or about
\* the input when all were.
AnswerPosition(p) ==
  Answered(p) =>
    \/ \E f \in File, c \in {"absent", "torn"} :
         /\ answer[p] = Damage(f, c) /\ c \in held[p][f]
         /\ \A g \in File \ Unread[f] : Passed(p, g)
    \/ /\ answer[p].about = "none"
       /\ answer[p].class = ClassOfInput(input[p])
       /\ answer[p].blocksSend = BlocksOnInput(input[p])
       /\ \A f \in File : Passed(p, f)

IInv == TypeOK /\ \A p \in Procs : Position(p) /\ AnswerPosition(p)
=============================================================================
