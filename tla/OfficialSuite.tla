---------------------------- MODULE OfficialSuite ----------------------------
(***************************************************************************)
(* python main.py verify-official: from the request to the final audit.    *)
(* main.py resolves the requests and verifies one after the other; for     *)
(* each, hccl_vm_env.py diagnoses the environment, a session is run        *)
(* (InteractiveRunner) and hccl_vm_evidence.py archives the outcome; the   *)
(* suite g2-e is then summed up, and agent/final_audit.py reads the summary *)
(* later, in a process of its own.                                         *)
(*                                                                         *)
(* The environment belongs to others and is what each diagnosis finds of   *)
(* it.  The agent may be killed at any moment; a directory it was writing  *)
(* stays as it is, and is never written again.                             *)
(***************************************************************************)
EXTENDS InteractiveRunner

CONSTANT Environments   \* what a diagnosis may find

(* bash can be started; how the probe script answers: with all it has to    *)
(* say, not before the timeout, or with only a part before the timeout; and *)
(* what is there: everything that every primitive needs, the test programs  *)
(* with their libraries, the state of the two source repositories, and the  *)
(* version of CANN.                                                         *)
Versions == {"9.1.0", "9.2.0"}
Reports ==
  [commit : {"frozen", "moved", "unknown"}, cann : Versions \cup {"none"}]

Environment ==
  [shell : BOOLEAN, answer : {"complete", "none", "part"}, common : BOOLEAN,
   tests : SUBSET Primitives, report : Reports]

ASSUME EnvironmentsAssumption == Environments \subseteq Environment

VARIABLES
  requests,   \* the requests of the command
  suite,      \* whether it is --suite g2-e
  phase,
  diagnosed,  \* what the diagnosis of the session under way recorded
  entries,    \* the outcomes so far, archived or about to be
  files,      \* of the suite directory, in the order they are written
  writing,    \* the last of them is not finished
  summary,    \* the status in summary.json
  audited     \* what the final audit said

command == <<requests, suite>>
directory == <<files, writing, summary, audited>>
session == <<primitive, shell, reader, driver, expired>>
suiteVars == <<command, phase, diagnosed, entries, directory>>
allVars == <<session, suiteVars>>

G2E == <<Request("AllReduce", "sum", 16), Request("AllGather", "none", 8),
         Request("ReduceScatter", "sum", 8)>>

Blank == [commit |-> "unknown", cann |-> "none"]

SuiteInit ==
  /\ Fresh /\ primitive = "AllReduce"
  /\ \/ requests = G2E /\ suite = TRUE
     \/ \E request \in Requests : requests = <<request>> /\ suite = FALSE
  /\ phase = "resolve" /\ diagnosed = Blank /\ entries = <<>>
  /\ files = <<>> /\ writing = FALSE /\ summary = "none" /\ audited = "none"

Current == requests[Len(entries) + 1]

-----------------------------------------------------------------------------
(* The report of HcclVmEnvironment.diagnose: _base_report where nothing was *)
(* learnt, _apply_probe_values where the script answered.                   *)
Recorded(found) ==
  IF found.shell /\ found.answer = "complete"
  THEN found.report ELSE Blank

(* _classify_report *)
Missing(found, report) ==
  (IF found.answer = "complete" /\ found.common THEN {} ELSE {"common"})
  \cup (IF found.answer = "complete" THEN {} ELSE {"exit code"})
  \cup (IF report.cann = "none" THEN {"CANN version"} ELSE {})
  \cup (IF report.commit = "frozen" THEN {} ELSE {"commit"})

(* diagnose_for.  When bash cannot be started diagnose returns early, with *)
(* no common_missing_items, and nothing counts as missing.                 *)
SelectedMissing(found, test) ==
  IF ~found.shell THEN {}
  ELSE Missing(found, Recorded(found))
       \cup (IF found.answer = "complete" /\ test \in found.tests
             THEN {} ELSE {test})

-----------------------------------------------------------------------------
(* A request that does not resolve is refused before anything is started. *)
Refuse ==
  /\ phase = "resolve" /\ ~Resolves(Current)
  /\ phase' = "refused"
  /\ UNCHANGED <<session, command, diagnosed, entries, directory>>

Resolve ==
  /\ phase = "resolve" /\ Resolves(Current)
  /\ phase' = "diagnose"
  /\ UNCHANGED <<session, command, diagnosed, entries, directory>>

(* A timeout after some output raises TypeError in parse_probe_output (what *)
(* POSIX leaves in TimeoutExpired is bytes); with no bash, Popen raises     *)
(* FileNotFoundError after a diagnosis that found nothing missing.  Neither *)
(* is caught.                                                               *)
Raises(found) == ~found.shell \/ found.answer = "part"

Launch(found) ==
  /\ phase = "diagnose" /\ ~Raises(found)
  /\ SelectedMissing(found, Current.primitive) = {}
  /\ primitive' = Current.primitive
  /\ diagnosed' = Recorded(found)
  /\ phase' = "session"
  /\ UNCHANGED <<shell, reader, driver, expired, command, entries, directory>>

Entry(report, passed, sound) ==
  [commit |-> report.commit, cann |-> report.cann, passed |-> passed,
   sound |-> sound]

Blocked(found) ==
  /\ phase = "diagnose" /\ ~Raises(found)
  /\ SelectedMissing(found, Current.primitive) # {}
  /\ entries' = Append(entries, Entry(Recorded(found), FALSE, FALSE))
  /\ phase' = "archive"
  /\ UNCHANGED <<session, command, diagnosed, directory>>

Abort(found) ==
  /\ phase = "diagnose" /\ Raises(found)
  /\ phase' = "aborted"
  /\ UNCHANGED <<session, command, diagnosed, entries, directory>>

-----------------------------------------------------------------------------
Session ==
  /\ phase = "session" /\ pc # "done"
  /\ Next
  /\ UNCHANGED suiteVars

(* The outcome of a session; sound keeps, of one that passed, whether all *)
(* its commands ran and succeeded.                                        *)
Collect ==
  /\ phase = "session" /\ pc = "done"
  /\ LET passed == verdict \in {"PASS_CLEAN", "PASS_WITH_WARNING"}
     IN entries' = Append(entries, Entry(diagnosed, passed,
                    passed /\ ran = [k \in 1..NumSteps |-> Marker(k, 0)]))
  /\ diagnosed' = Blank
  /\ phase' = "archive"
  /\ primitive' = "AllReduce" /\ Renew
  /\ UNCHANGED <<command, directory>>

(* archive_official_evidence writes a directory of its own, which nothing *)
(* here reads again.                                                      *)
Archive ==
  /\ phase = "archive"
  /\ phase' = IF Len(entries) < Len(requests) THEN "resolve"
              ELSE IF suite THEN "summarise" ELSE "ended"
  /\ UNCHANGED <<session, command, diagnosed, entries, directory>>

-----------------------------------------------------------------------------
EnvironmentConsistent ==
  \A i, j \in DOMAIN entries :
    entries[i].commit = entries[j].commit /\ entries[i].cann = entries[j].cann

(* Seeded fault: that all three came to an end is enough. *)
AllEnded == Len(entries) = Len(requests)
AllPassed == \A i \in DOMAIN entries : entries[i].passed

SuiteStatus ==
  IF ~EnvironmentConsistent THEN "ENV_BLOCKED_ENVIRONMENT_MISMATCH"
  ELSE IF AllPassed THEN "COMPLETED"
  ELSE "INCOMPLETE"

SuiteFiles == <<"summary.json", "manifest.json", "README.md", "SHA256SUMS">>

(* archive_g2_e_suite_evidence: opening a file makes it appear, empty. *)
OpenFile ==
  /\ phase = "summarise" /\ ~writing /\ Len(files) < Len(SuiteFiles)
  /\ files' = Append(files, SuiteFiles[Len(files) + 1])
  /\ writing' = TRUE
  /\ summary' = SuiteStatus
  /\ UNCHANGED <<session, command, phase, diagnosed, entries, audited>>

FinishFile ==
  /\ phase = "summarise" /\ writing
  /\ writing' = FALSE
  /\ UNCHANGED <<session, command, phase, diagnosed, entries, files, summary,
                 audited>>

EndSuite ==
  /\ phase = "summarise" /\ ~writing /\ Len(files) = Len(SuiteFiles)
  /\ phase' = "ended"
  /\ UNCHANGED <<session, command, diagnosed, entries, directory>>

(* The agent is killed.  What becomes of a shell it had started is left out. *)
Killed ==
  /\ phase \notin {"refused", "aborted", "ended", "killed"}
  /\ phase' = "killed"
  /\ diagnosed' = Blank
  /\ primitive' = "AllReduce" /\ Renew
  /\ UNCHANGED <<command, entries, directory>>

-----------------------------------------------------------------------------
(* build_evidence_inventory, of the suite's directory: summary.json is       *)
(* there, SHA256SUMS is there and every file it lists is as it says (an      *)
(* unfinished one lists none), and the summary can be read and is completed. *)
Present(name) == \E i \in DOMAIN files : files[i] = name

Accepted ==
  /\ Present("summary.json") /\ Present("SHA256SUMS")
  /\ summary = "COMPLETED"

Audit ==
  /\ suite /\ phase \in {"summarise", "aborted", "ended", "killed"}
  /\ audited' = IF Accepted THEN "accepted" ELSE "refused"
  /\ UNCHANGED <<session, command, phase, diagnosed, entries, files, writing,
                 summary>>

-----------------------------------------------------------------------------
Main ==
  \/ Refuse
  \/ Resolve
  \/ \E found \in Environments :
       Launch(found) \/ Blocked(found) \/ Abort(found)
  \/ Collect
  \/ Archive
  \/ OpenFile
  \/ FinishFile
  \/ EndSuite

SuiteNext == Main \/ Session \/ Killed \/ Audit

InSession(A) ==
  /\ phase = "session" /\ pc # "done"
  /\ A
  /\ UNCHANGED <<primitive, suiteVars>>

(* The agent's process runs, with the thread that drives a session; time    *)
(* passes and SIGKILL takes effect.  Nothing is assumed of the shell or of  *)
(* the reader thread.                                                       *)
Fairness ==
  /\ WF_allVars(Main)
  /\ WF_allVars(InSession(Driver))
  /\ WF_allVars(InSession(DeadlinePasses))
  /\ WF_allVars(InSession(\E survivor \in Survivors : Die(survivor)))

Spec == SuiteInit /\ [][SuiteNext]_allVars /\ Fairness

-----------------------------------------------------------------------------
(* Types, of the session and of the suite; an outcome counts as passed only *)
(* when its environment was recorded.                                       *)
SuiteTypeOK ==
  /\ TypeOK
  /\ requests \in Seq(Requests) /\ suite \in BOOLEAN
  /\ phase \in {"resolve", "refused", "diagnose", "session", "archive",
                "summarise", "ended", "aborted", "killed"}
  /\ diagnosed \in Reports
  /\ \A i \in DOMAIN entries :
       \E report \in Reports, passed, sound \in BOOLEAN :
         /\ entries[i] = Entry(report, passed, sound)
         /\ passed => report.cann # "none"
  /\ Len(entries) <= Len(requests)
  /\ files = SubSeq(SuiteFiles, 1, Len(files)) /\ writing \in BOOLEAN
  /\ summary \in {"none", "COMPLETED", "INCOMPLETE",
                  "ENV_BLOCKED_ENVIRONMENT_MISMATCH"}
  /\ audited \in {"none", "accepted", "refused"}

(* The final audit accepts a suite only if all three sessions were run, each *)
(* with every command succeeding, all diagnosed in the same environment with *)
(* the frozen sources - whatever the environment did in between and whenever *)
(* the agent was killed.                                                     *)
AuditedIsGenuine ==
  audited = "accepted" =>
    /\ Len(entries) = Len(G2E)
    /\ \E version \in Versions : \A i \in DOMAIN entries :
         entries[i] =
           Entry([commit |-> "frozen", cann |-> version], TRUE, TRUE)

(* The command always comes to an end, even when shells hang, ignore         *)
(* SIGTERM, or leave descendants that hold their pipes.                      *)
CommandEnds == <>(phase \in {"refused", "ended", "aborted", "killed"})
=============================================================================
