-------------------------- MODULE RelayOnboarding --------------------------
(***************************************************************************)
(* openmls-cypher-mls-mismatch-inspect-dev and                             *)
(* workflow-relay-onboarding-dev: is a device that Cypher routes to also a *)
(* member of the MLS group?  Both commands read three pieces of local      *)
(* evidence one after another, without a lock, while the consume commands  *)
(* and the sidecar go on writing them; the workflow command also publishes *)
(* its report and answers later calls from it.                             *)
(*                                                                         *)
(*   group       the conversation exists in the sidecar's state            *)
(*   kp, welcome how far each consume receipt has got                      *)
(*   tmp, published, handle   the report of the workflow: ReportFile       *)
(*   pc, cmd     position and arguments of each command                    *)
(*   seen        the evidence that a command has read                      *)
(*   answer      what each process was last answered                       *)
(***************************************************************************)
EXTENDS Naturals, Sequences, ReportFile
CONSTANTS
  KeyPackages, Welcomes,  \* the receipt files of consumed envelopes
  Foreign,    \* what in a receipt file contradicts the names asked for
  Workflows,  \* the workflow ids whose report is in this one file
  Requests,   \* the calls that users make
  NoPath, NoRequest, NoAnswer

VARIABLES group, kp, welcome, pc, cmd, seen, answer

evidence == <<group, kp, welcome>>
vars == <<evidence, reportVars, pc, cmd, seen, answer>>

Names == {"device", "sidecar", "conversation", "space"}

\* The state tokens of the command line, normalised.
Request == [workflow : Workflows \cup {NoPath},  \* NoPath: only inspect
            member : {"active", "inactive", "pending", "unknown", "unsupported"},
            group : {"auto", "present", "absent", "unknown", "unsupported"},
            probe : {"derived", "explicit"},     \* the file that "auto" looks for
            kp : KeyPackages \cup {NoPath},
            welcome : Welcomes \cup {NoPath}]

KpStages == {"missing", "persisted", "acked"}
WelcomeStages == {"missing", "persisted", "joined", "acked"}

\* What was read: "none" is no path or not yet read, "missing" an unreadable file.
Seen == [group : {"none", "present", "absent", "unknown", "unsupported"},
         kp : KpStages \cup {"none"},
         welcome : WelcomeStages \cup {"none"}]
NothingSeen == [group |-> "none", kp |-> "none", welcome |-> "none"]

Report == [request : Request, seen : Seen]

\* What the constants are assumed to be.
OnboardingAssumption ==
  /\ Foreign \in [KeyPackages \cup Welcomes -> SUBSET Names]
  /\ Requests \subseteq Request
  /\ NoPath \notin KeyPackages \cup Welcomes \cup Workflows
  /\ NoRequest \notin Request
  /\ NoAnswer \notin Report
  /\ \A x \in Unreadable : x \notin Report

-----------------------------------------------------------------------------
(* evaluateCypherMLSMismatch and evaluateWorkflowRelayOnboarding *)

Differs(r, s, names) ==
  \/ s.kp # "none" /\ Foreign[r.kp] \cap names # {}
  \/ s.welcome # "none" /\ Foreign[r.welcome] \cap names # {}

\* The classifications in the order in which the code tries them.
Mismatches(r, s) ==
  << <<"unsupported_or_unknown_state_version",
         "unsupported" \in {r.member, s.group} \/ "missing" \in {s.kp, s.welcome}>>,
     <<"local_device_id_mismatch", Differs(r, s, {"device"})>>,
     <<"sidecar_device_label_mismatch", Differs(r, s, {"sidecar"})>>,
     <<"conversation_label_mismatch", Differs(r, s, {"conversation"})>>,
     <<"mls_conversation_present_wrong_relay_space", Differs(r, s, {"space"})>>,
     <<"incomplete_local_consume_or_join", s.welcome = "persisted">>,
     <<"relay_member_active_but_mls_group_absent",
         r.member = "active" /\ s.group = "absent">>,
     <<"welcome_receipt_joined_but_cypher_member_inactive",
         r.member = "inactive" /\ s.welcome \in {"joined", "acked"}>>,
     <<"keypackage_receipt_exists_but_cypher_member_inactive",
         r.member = "inactive" /\ s.kp # "none">>,
     <<"relay_member_inactive_but_mls_group_present",
         r.member = "inactive" /\ s.group = "present">>,
     <<"aligned", r.member = "active" /\ s.group = "present">>,
     <<"stale_or_ambiguous",
         r.member \in {"pending", "unknown"} \/ s.group = "unknown">>,
     <<"unsupported_or_unknown_state_version", TRUE>> >>

\* Mutant: the first classification that holds is not the one that is given.
LastMismatch(r, s) ==
  LET m == Mismatches(r, s)
      i == CHOOSE i \in DOMAIN m : m[i][2] /\ \A j \in 1..Len(m) - 1 : m[j][2] => j <= i
  IN  m[i][1]

Mismatch(r, s) ==
  LET m == Mismatches(r, s)
      i == CHOOSE i \in DOMAIN m : m[i][2] /\ \A j \in 1..i - 1 : ~m[j][2]
  IN  m[i][1]

\* Mutant: a joined Welcome is complete before it is acknowledged.
StagesWithoutAck(s) == s.kp = "acked" /\ s.welcome \in {"joined", "acked"}

\* The stages keypackage_receipt and welcome_receipt are both complete.
StagesComplete(s) == s.kp = "acked" /\ s.welcome = "acked"

\* The classification of a report; the action is "allow" for "aligned" and
\* "workflow_ready", and "refuse" for all others.
Classification(r, s) ==
  IF r.workflow = NoPath \/ Mismatch(r, s) # "aligned" THEN Mismatch(r, s)
  ELSE IF StagesComplete(s) THEN "workflow_ready" ELSE "partial_onboarding_state"

Allowed(report) ==
  Classification(report.request, report.seen) \in {"aligned", "workflow_ready"}

-----------------------------------------------------------------------------
Goto(p, label) == pc' = [pc EXCEPT ![p] = label]

Forget(p) ==
  /\ Goto(p, "idle")
  /\ cmd' = [cmd EXCEPT ![p] = NoRequest]
  /\ seen' = [seen EXCEPT ![p] = NothingSeen]

Init ==
  /\ group = FALSE
  /\ kp = [k \in KeyPackages |-> "missing"]
  /\ welcome = [w \in Welcomes |-> "missing"]
  /\ ReportInit
  /\ pc = [p \in Procs |-> "idle"]
  /\ cmd = [p \in Procs |-> NoRequest]
  /\ seen = [p \in Procs |-> NothingSeen]
  /\ answer = [p \in Procs |-> NoAnswer]

\* conversation-create or conversation-join of the sidecar.
CreateGroup ==
  /\ ~group
  /\ group' = TRUE
  /\ UNCHANGED <<kp, welcome, reportVars, pc, cmd, seen, answer>>

\* openmls-relay-keypackage-consume-dev writes its receipt.
AdvanceKeyPackage(k) ==
  /\ \/ kp[k] = "missing" /\ kp' = [kp EXCEPT ![k] = "persisted"]
     \/ kp[k] = "persisted" /\ kp' = [kp EXCEPT ![k] = "acked"]
  /\ UNCHANGED <<group, welcome, reportVars, pc, cmd, seen, answer>>

\* A receipt about the conversation asked for.
SameConversation(w) == Foreign[w] \cap {"sidecar", "conversation"} = {}

\* openmls-relay-welcome-consume-dev does; "joined" comes after the join.
AdvanceWelcome(w) ==
  /\ \/ welcome[w] = "missing" /\ welcome' = [welcome EXCEPT ![w] = "persisted"]
     \/ /\ welcome[w] = "persisted"
        /\ SameConversation(w) => group
        /\ welcome' = [welcome EXCEPT ![w] = "joined"]
     \/ welcome[w] = "joined" /\ welcome' = [welcome EXCEPT ![w] = "acked"]
  /\ UNCHANGED <<group, kp, reportVars, pc, cmd, seen, answer>>

-----------------------------------------------------------------------------
Start(p, r) ==
  /\ pc[p] = "idle"
  /\ cmd' = [cmd EXCEPT ![p] = r]
  /\ answer' = [answer EXCEPT ![p] = NoAnswer]
  /\ Goto(p, IF r.workflow = NoPath THEN "stat" ELSE "load")
  /\ UNCHANGED <<evidence, reportVars, seen>>

NoReport(p) ==
  /\ pc[p] = "load"
  /\ published = Absent
  /\ Goto(p, "stat")
  /\ UNCHANGED <<evidence, reportVars, cmd, seen, answer>>

\* Mutant: the report of another workflow is replayed.
ReplayAny(p) ==
  /\ pc[p] = "load"
  /\ published \notin Unreadable
  /\ answer' = [answer EXCEPT ![p] = published]
  /\ Forget(p)
  /\ UNCHANGED <<evidence, reportVars>>

\* "already_reported": of the request only the workflow, the relay space and the
\* device are compared.
Replay(p) ==
  /\ pc[p] = "load"
  /\ published \notin Unreadable
  /\ published.request.workflow = cmd[p].workflow
  /\ answer' = [answer EXCEPT ![p] = published]
  /\ Forget(p)
  /\ UNCHANGED <<evidence, reportVars>>

\* workflow_report_conflict, or a report that does not decode.
LoadFails(p) ==
  /\ pc[p] = "load"
  /\ \/ published \in {Empty, Torn}
     \/ published \notin Unreadable /\ published.request.workflow # cmd[p].workflow
  /\ Forget(p)
  /\ UNCHANGED <<evidence, reportVars, answer>>

\* No command writes the file at the derived path, devices/<label>/conversations/
\* <label>/conversation-state.json in the sidecar directory itself.
Probe(r) == IF r.probe = "explicit" /\ group THEN "present" ELSE "absent"

StatConversation(p) ==
  /\ pc[p] = "stat"
  /\ \E found \in IF cmd[p].group = "auto" THEN {Probe(cmd[p]), "unknown"} ELSE {cmd[p].group} :
       seen' = [seen EXCEPT ![p].group = found]
  /\ Goto(p, "keypackage")
  /\ UNCHANGED <<evidence, reportVars, cmd, answer>>

\* readB7KeyPackageReceipt
ReadKeyPackage(p) ==
  /\ pc[p] = "keypackage"
  /\ IF cmd[p].kp = NoPath
     THEN UNCHANGED seen
     ELSE \E found \in {kp[cmd[p].kp], "missing"} : seen' = [seen EXCEPT ![p].kp = found]
  /\ Goto(p, "welcome")
  /\ UNCHANGED <<evidence, reportVars, cmd, answer>>

\* readB7WelcomeReceipt; not done when the KeyPackage receipt was unreadable.
ReadWelcome(p) ==
  /\ pc[p] = "welcome"
  /\ IF cmd[p].welcome = NoPath \/ seen[p].kp = "missing"
     THEN UNCHANGED seen
     ELSE \E found \in {welcome[cmd[p].welcome], "missing"} :
            seen' = [seen EXCEPT ![p].welcome = found]
  /\ Goto(p, IF cmd[p].workflow = NoPath THEN "print" ELSE "open")
  /\ UNCHANGED <<evidence, reportVars, cmd, answer>>

Draft(p) == [request |-> cmd[p], seen |-> seen[p]]

OpenReport(p) ==
  /\ pc[p] = "open"
  /\ OpenTmp(p)
  /\ Goto(p, "fill")
  /\ UNCHANGED <<evidence, cmd, seen, answer>>

FillReport(p) ==
  /\ pc[p] = "fill"
  /\ Fill(p, Draft(p))
  /\ Goto(p, "rename")
  /\ UNCHANGED <<evidence, cmd, seen, answer>>

PublishReport(p) ==
  /\ pc[p] = "rename"
  /\ Rename(p)
  /\ Goto(p, "print")
  /\ UNCHANGED <<evidence, cmd, seen, answer>>

PublishFails(p) ==
  /\ pc[p] = "rename"
  /\ RenameFails(p)
  /\ Forget(p)
  /\ UNCHANGED <<evidence, answer>>

\* The report is printed; "refuse" is an error unless refusals are to exit zero.
Answer(p) ==
  /\ pc[p] = "print"
  /\ answer' = [answer EXCEPT ![p] = Draft(p)]
  /\ Forget(p)
  /\ UNCHANGED <<evidence, reportVars>>

Crash(p) ==
  /\ pc[p] # "idle"
  /\ Close(p)
  /\ Forget(p)
  /\ UNCHANGED <<evidence, answer>>

Step(p) ==
  \/ NoReport(p) \/ Replay(p) \/ LoadFails(p)
  \/ StatConversation(p) \/ ReadKeyPackage(p) \/ ReadWelcome(p)
  \/ OpenReport(p) \/ FillReport(p) \/ PublishReport(p) \/ PublishFails(p)
  \/ Answer(p)

Next ==
  \/ CreateGroup
  \/ \E k \in KeyPackages : AdvanceKeyPackage(k)
  \/ \E w \in Welcomes : AdvanceWelcome(w)
  \/ \E p \in Procs : Step(p) \/ Crash(p) \/ \E r \in Requests : Start(p, r)

Spec == Init /\ [][Next]_vars

-----------------------------------------------------------------------------
(* Properties *)

TypeOK ==
  /\ group \in BOOLEAN
  /\ kp \in [KeyPackages -> KpStages]
  /\ welcome \in [Welcomes -> WelcomeStages]
  /\ tmp \in Report \cup Unreadable
  /\ published \in Report \cup Unreadable
  /\ handle \in [Procs -> {"none", "tmp", "published", "unlinked"}]
  /\ pc \in [Procs -> {"idle", "load", "stat", "keypackage", "welcome",
                       "open", "fill", "rename", "print"}]
  /\ cmd \in [Procs -> Request \cup {NoRequest}]
  /\ seen \in [Procs -> Seen]
  /\ answer \in [Procs -> Report \cup {NoAnswer}]

\* The onboarding that a report calls ready is complete.
ReadyIsTrue(report) ==
  Classification(report.request, report.seen) = "workflow_ready" =>
    LET r == report.request IN
      /\ group
      /\ r.kp # NoPath /\ kp[r.kp] = "acked" /\ Foreign[r.kp] = {}
      /\ r.welcome # NoPath /\ welcome[r.welcome] = "acked" /\ Foreign[r.welcome] = {}

\* "workflow_ready" is never wrong about this device, although the evidence is
\* read piece by piece, the group may be taken from the command line, reports are
\* overwritten by slower commands, and a report is replayed at any later time.
ReadyStaysTrue ==
  /\ published \notin Unreadable => ReadyIsTrue(published)
  /\ \A p \in Procs : answer[p] # NoAnswer => ReadyIsTrue(answer[p])

\* "aligned", or ready, is said of an active member with a readable, matching and
\* not half-joined set of receipts and a present group, and of no other.
AllowedWhenAligned ==
  \A p \in Procs : answer[p] # NoAnswer /\ answer[p].request.workflow = NoPath =>
    LET r == answer[p].request
        s == answer[p].seen
    IN  Allowed(answer[p]) <=>
          /\ r.member = "active" /\ s.group = "present"
          /\ s.kp # "missing" /\ s.welcome \notin {"missing", "persisted"}
          /\ ~Differs(r, s, Names)

\* A command is answered about the workflow that it asked for.
AnswersOwnWorkflow ==
  [][\A p \in Procs : pc[p] # "idle" /\ answer'[p] # answer[p] =>
       answer'[p].request.workflow = cmd[p].workflow]_vars

\* "exact_replay_from_local_report_already_reported": a replayed report is the
\* report of the same request.  Refuted by a call with another member state (README).
ReplayIsExact ==
  [][\A p \in Procs : pc[p] = "load" /\ answer'[p] # answer[p] =>
       answer'[p].request = cmd[p]]_vars

\* "atomic_temp_write_then_rename": the published report is absent or whole.
\* Refuted by two commands that share the temporary file (README).
ReportIsWhole == published \notin {Empty, Torn}

\* "local MLS group state: present, absent, unknown, or auto": auto does not say
\* "absent" of a group that exists.  Refuted by the derived path (README).
AutoSeesGroup ==
  [][\A p \in Procs :
       pc[p] = "stat" /\ cmd[p].group = "auto" /\ seen'[p].group = "absent" => ~group]_vars
-----------------------------------------------------------------------------
(* The inductive invariant *)

JoinedHaveGroup ==
  \A w \in Welcomes : welcome[w] \in {"joined", "acked"} /\ SameConversation(w) => group

\* What was read to be complete has a path, and is still complete.
Dated(r, s) ==
  /\ s.kp # "none" => r.kp # NoPath
  /\ s.kp = "acked" => kp[r.kp] = "acked"
  /\ s.welcome # "none" => r.welcome # NoPath
  /\ s.welcome = "acked" => welcome[r.welcome] = "acked"

DatedReport(report) == Dated(report.request, report.seen)

Position(p) ==
  /\ pc[p] = "idle" <=> cmd[p] = NoRequest
  /\ pc[p] \in {"idle", "load", "stat"} => seen[p] = NothingSeen
  /\ cmd[p] # NoRequest => Dated(cmd[p], seen[p])

IInv ==
  /\ TypeOK
  /\ JoinedHaveGroup
  /\ tmp \notin Unreadable => DatedReport(tmp)
  /\ published \notin Unreadable => DatedReport(published)
  /\ \A p \in Procs : answer[p] # NoAnswer => DatedReport(answer[p])
  /\ \A p \in Procs : Position(p)
=============================================================================
