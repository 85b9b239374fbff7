---------------------------- MODULE ReportFile ----------------------------
(***************************************************************************)
(* The report writers of Comms: os.WriteFile of path+".tmp", then a rename *)
(* to path.  Every writer of one report uses the same temporary name and   *)
(* takes no lock.  A process that has opened the temporary file writes to  *)
(* that file wherever it has been renamed to since.                        *)
(*                                                                         *)
(*   tmp, published  the contents of the two files                         *)
(*   handle          the file that each process has open for writing       *)
(***************************************************************************)
CONSTANTS Procs, Absent, Empty, Torn

VARIABLES tmp, published, handle

reportVars == <<tmp, published, handle>>

\* File contents that are not a report.
Unreadable == {Absent, Empty, Torn}

ReportInit ==
  /\ tmp = Absent
  /\ published = Absent
  /\ handle = [p \in Procs |-> "none"]

\* The open of os.WriteFile, with O_CREATE and O_TRUNC.
OpenTmp(p) ==
  /\ tmp' = Empty
  /\ handle' = [handle EXCEPT ![p] = "tmp"]
  /\ UNCHANGED published

\* What a file holds after a write from its beginning: over another report
\* the rest of a longer one stays.
Overwritten(file, content) == IF file = Empty THEN {content} ELSE {content, Torn}

\* The write and the close of os.WriteFile.
Fill(p, content) ==
  /\ IF handle[p] = "tmp" THEN tmp' \in Overwritten(tmp, content) ELSE UNCHANGED tmp
  /\ IF handle[p] = "published"
     THEN published' \in Overwritten(published, content)
     ELSE UNCHANGED published
  /\ handle' = [handle EXCEPT ![p] = "none"]

Rename(p) ==
  /\ tmp # Absent
  /\ published' = tmp
  /\ tmp' = Absent
  /\ handle' = [q \in Procs |-> CASE handle[q] = "tmp" -> "published"
                                  [] handle[q] = "published" -> "unlinked"
                                  [] OTHER -> handle[q]]

\* Another writer has renamed the file: the command fails.
RenameFails(p) == tmp = Absent /\ UNCHANGED reportVars

\* A process that dies leaves its file as it is.
Close(p) ==
  /\ handle' = [handle EXCEPT ![p] = "none"]
  /\ UNCHANGED <<tmp, published>>
=============================================================================
