-------------------------- MODULE InteractiveRunner --------------------------
(***************************************************************************)
(* One official HCCL-VM session: _execute_interactive_process,             *)
(* _wait_for_output and the verdict of HcclVmRunner.verify, of             *)
(* plugin/hccl_vm_runner.py.  OfficialSuite runs such sessions.            *)
(*                                                                         *)
(* Three actors share the session: the shell that was started (external),  *)
(* the daemon thread that moves its output into a buffer under a condition *)
(* variable, and the driver, which sends commands and waits for markers.   *)
(* Time is one flag: whether the deadline of the session has passed.  The  *)
(* 10 s granted after SIGTERM and the 5 s granted to the reader may end at *)
(* any moment.                                                             *)
(*                                                                         *)
(* Output is a sequence of tokens (the prompt, exit-code markers, the      *)
(* shutdown notice); an exit code is 0 or 1, 1 standing for any other.     *)
(***************************************************************************)
EXTENDS HcclVmContracts, Sequences

CONSTANTS
  NumSteps,       \* commands with a completion marker; "exit" follows them
  CheckerOutputs  \* what the checker may print in a session

ASSUME StepsAssumption == NumSteps \in Nat \ {0}

VARIABLES
  primitive,  \* what the session validates
  (* the shell *)
  proc,       \* "running"; "leaving": its output is closed; "exited": reapable
  prompted, stdin, pipe,
  holder,     \* a descendant that outlives the shell and holds its output
  exitCode,
  ran,        \* the commands it has run, with their exit codes
  signal,     \* the strongest signal sent to it
  (* the reader thread *)
  chunk,      \* read from the pipe, not yet in the buffer
  output, readerClosed,
  (* the driver *)
  pc, step, start, expired, timedOut, log, verdict

shell == <<proc, prompted, stdin, pipe, holder, exitCode, ran>>
reader == <<chunk, output, readerClosed>>
driver == <<signal, pc, step, start, timedOut, log, verdict>>
vars == <<primitive, shell, reader, driver, expired>>

Exit == NumSteps + 1
Prompt == [says |-> "prompt", step |-> 0, code |-> 0]
Shutdown == [says |-> "shutdown", step |-> 0, code |-> 0]
Marker(k, code) == [says |-> "marker", step |-> k, code |-> code]
Tokens ==
  {Prompt, Shutdown} \cup {Marker(k, c) : k \in 1..NumSteps, c \in {0, 1}}

(* The end of the shell may leave the test program behind. *)
Survivors == {"none", Contracts[primitive].executable}

Contains(seq, from, token) == \E i \in (from + 1)..Len(seq) : seq[i] = token

-----------------------------------------------------------------------------
Fresh ==
  /\ proc = "running" /\ prompted = FALSE /\ stdin = <<>> /\ pipe = <<>>
  /\ holder = "none" /\ exitCode = 0 /\ ran = <<>> /\ signal = "none"
  /\ chunk = <<>> /\ output = <<>> /\ readerClosed = FALSE
  /\ pc = "prompt" /\ step = 0 /\ start = 0 /\ expired = FALSE
  /\ timedOut = FALSE
  /\ log = <<>> /\ verdict = "none"

(* The same, for the next session. *)
Renew ==
  /\ proc' = "running" /\ prompted' = FALSE /\ stdin' = <<>> /\ pipe' = <<>>
  /\ holder' = "none" /\ exitCode' = 0 /\ ran' = <<>> /\ signal' = "none"
  /\ chunk' = <<>> /\ output' = <<>> /\ readerClosed' = FALSE
  /\ pc' = "prompt" /\ step' = 0 /\ start' = 0 /\ expired' = FALSE
  /\ timedOut' = FALSE
  /\ log' = <<>> /\ verdict' = "none"

(* The shell shows its prompt, then runs the commands it is sent and prints *)
(* each one's marker.  Nothing obliges it to.                               *)
ShowPrompt ==
  /\ proc = "running" /\ ~prompted
  /\ prompted' = TRUE
  /\ pipe' = Append(pipe, Prompt)
  /\ UNCHANGED <<proc, stdin, holder, exitCode, ran, reader, driver, expired>>

RunCommand(code) ==
  /\ proc = "running" /\ stdin # <<>> /\ Head(stdin) # Exit
  /\ ran' = Append(ran, Marker(Head(stdin), code))
  /\ pipe' = Append(pipe, Marker(Head(stdin), code))
  /\ stdin' = Tail(stdin)
  /\ UNCHANGED <<proc, prompted, holder, exitCode, reader, driver, expired>>

(* The shell ends of its own accord: on "exit", at the end of its input, on *)
(* SIGTERM, by the timeout(1) wrapped round it, or by crashing.  The kernel *)
(* closes its files first and makes it reapable later.                      *)
Leave(code, orderly, survivor) ==
  /\ proc = "running"
  /\ proc' = "leaving"
  /\ exitCode' = code
  /\ holder' = survivor
  /\ pipe' = IF orderly THEN Append(pipe, Shutdown) ELSE pipe
  /\ UNCHANGED <<prompted, stdin, ran, reader, driver, expired>>

BecomeReapable ==
  /\ proc = "leaving"
  /\ proc' = "exited"
  /\ UNCHANGED <<prompted, stdin, pipe, holder, exitCode, ran, reader,
                 driver, expired>>

(* SIGKILL cannot be ignored; it reaches the shell, not its descendants. *)
Die(survivor) ==
  /\ signal = "kill" /\ proc # "exited"
  /\ proc' = "exited"
  /\ exitCode' = 1
  /\ holder' = IF proc = "running" THEN survivor ELSE holder
  /\ UNCHANGED <<prompted, stdin, pipe, ran, reader, driver, expired>>

DescendantEnds ==
  /\ holder # "none"
  /\ holder' = "none"
  /\ UNCHANGED <<proc, prompted, stdin, pipe, exitCode, ran, reader, driver,
                 expired>>

DeadlinePasses ==
  /\ ~expired
  /\ expired' = TRUE
  /\ UNCHANGED <<shell, reader, driver>>

-----------------------------------------------------------------------------
(* read_output: os.read takes some of what is in the pipe, the buffer is *)
(* extended under the condition variable, and end-of-file ends the thread. *)
ReadOutput(n) ==
  /\ ~readerClosed /\ chunk = <<>>
  /\ n \in 1..Len(pipe)
  /\ chunk' = SubSeq(pipe, 1, n)
  /\ pipe' = SubSeq(pipe, n + 1, Len(pipe))
  /\ UNCHANGED <<proc, prompted, stdin, holder, exitCode, ran, output,
                 readerClosed, driver, expired>>

ExtendOutput ==
  /\ chunk # <<>>
  /\ output' = output \o chunk
  /\ chunk' = <<>>
  /\ UNCHANGED <<shell, readerClosed, driver, expired>>

CloseReader ==
  /\ ~readerClosed /\ chunk = <<>>
  /\ pipe = <<>> /\ proc # "running" /\ holder = "none"
  /\ readerClosed' = TRUE
  /\ UNCHANGED <<shell, chunk, output, driver, expired>>

-----------------------------------------------------------------------------
(* The driver.  One turn of _wait_for_output's loop is atomic but for the   *)
(* shell's own end: the buffer is examined under the lock, and the loop     *)
(* comes back within 0.2 s, so no wake-up is needed for the shell's end.    *)

Matched ==
  \/ pc = "prompt" /\ Contains(output, 0, Prompt)
  \/ /\ pc = "marker"
     /\ \E c \in {0, 1} : Contains(output, start, Marker(step, c))

(* Seeded fault: the deadline is not looked at. *)
GivesUpAtEndOnly == readerClosed \/ proc = "exited"
GivesUp == readerClosed \/ proc = "exited" \/ expired

(* Seeded faults: any exit code lets the next command go; one more marker is *)
(* awaited.                                                                  *)
AnyCodeContinues(code) == TRUE
Continues(code) == code = 0
AwaitsMarkerOfExit(k) == k <= Exit
AwaitsMarker(k) == k < Exit

PromptSeen ==
  /\ pc = "prompt" /\ Matched
  /\ step' = 1
  /\ pc' = "begin"
  /\ UNCHANGED <<signal, start, timedOut, log, verdict>>
  /\ UNCHANGED <<shell, reader, expired>>

(* The part of the buffer to search is fixed before the command is written, *)
(* outside the lock.                                                        *)
BeginStep ==
  /\ pc = "begin"
  /\ start' = Len(output)
  /\ pc' = "send"
  /\ UNCHANGED <<signal, step, timedOut, log, verdict>>
  /\ UNCHANGED <<shell, reader, expired>>

(* What writing to the shell's input does; after its end it may be lost. *)
Write(command) ==
  stdin' = IF proc = "running" THEN Append(stdin, command) ELSE stdin

SendCommand ==
  /\ pc = "send"
  /\ Write(step)
  /\ pc' = IF AwaitsMarker(step) THEN "marker" ELSE "close"
  /\ UNCHANGED <<signal, step, start, timedOut, log, verdict>>
  /\ UNCHANGED <<proc, prompted, pipe, holder, exitCode, ran, reader, expired>>

(* BrokenPipeError *)
SendFails ==
  /\ pc = "send" /\ proc # "running"
  /\ pc' = "close"
  /\ UNCHANGED <<signal, step, start, timedOut, log, verdict>>
  /\ UNCHANGED <<shell, reader, expired>>

MarkerSeen(code) ==
  /\ pc = "marker" /\ Contains(output, start, Marker(step, code))
  /\ Continues(code)
  /\ step' = step + 1
  /\ pc' = "begin"
  /\ UNCHANGED <<signal, start, timedOut, log, verdict>>
  /\ UNCHANGED <<shell, reader, expired>>

(* A failed command is followed by "exit", if it can still be written. *)
StepFailed(code) ==
  /\ pc = "marker" /\ Contains(output, start, Marker(step, code))
  /\ ~Continues(code)
  /\ Write(Exit)
  /\ pc' = "close"
  /\ UNCHANGED <<signal, step, start, timedOut, log, verdict>>
  /\ UNCHANGED <<proc, prompted, pipe, holder, exitCode, ran, reader, expired>>

StopWaiting ==
  /\ pc \in {"prompt", "marker"}
  /\ ~Matched /\ GivesUp
  /\ pc' = "judge"
  /\ UNCHANGED <<signal, step, start, timedOut, log, verdict>>
  /\ UNCHANGED <<shell, reader, expired>>

(* timed_out = process.poll() is None *)
JudgeTimeout ==
  /\ pc = "judge"
  /\ timedOut' = (proc # "exited")
  /\ pc' = "close"
  /\ UNCHANGED <<signal, step, start, log, verdict>>
  /\ UNCHANGED <<shell, reader, expired>>

CloseStdin ==
  /\ pc = "close"
  /\ pc' = "wait"
  /\ UNCHANGED <<signal, step, start, timedOut, log, verdict>>
  /\ UNCHANGED <<shell, reader, expired>>

Reap ==
  /\ pc \in {"wait", "terminated", "killed"} /\ proc = "exited"
  /\ pc' = "join"
  /\ UNCHANGED <<signal, step, start, timedOut, log, verdict>>
  /\ UNCHANGED <<shell, reader, expired>>

Terminate ==
  /\ pc = "wait" /\ proc # "exited" /\ expired
  /\ timedOut' = TRUE
  /\ signal' = "term"
  /\ pc' = "terminated"
  /\ UNCHANGED <<step, start, log, verdict>>
  /\ UNCHANGED <<shell, reader, expired>>

Kill ==
  /\ pc = "terminated" /\ proc # "exited"
  /\ signal' = "kill"
  /\ pc' = "killed"
  /\ UNCHANGED <<step, start, timedOut, log, verdict>>
  /\ UNCHANGED <<shell, reader, expired>>

(* reader.join returns when the thread has ended or its time is up, which *)
(* may be at once; then the log is copied.                                *)
TakeLog ==
  /\ pc = "join"
  /\ log' = output
  /\ pc' = "verify"
  /\ UNCHANGED <<signal, step, start, timedOut, verdict>>
  /\ UNCHANGED <<shell, reader, expired>>

(* The rest of parse_official_result: exit codes and the shutdown notice. *)
Passed(checked) ==
  /\ CheckerAccepts(checked, primitive)
  /\ \A k \in 1..NumSteps : Contains(log, 0, Marker(k, 0))
  /\ Contains(log, 0, Shutdown)
  /\ ~timedOut /\ exitCode = 0

(* _audit_related_processes finds this session's descendants by name, and  *)
(* those of anybody else's (foreign, or ps failed, which counts likewise). *)
(* Seeded fault: what it finds is ignored.                                 *)
CleanUnaudited(foreign) == TRUE
Clean(foreign) == ~SeenByAudit(holder, primitive) /\ ~foreign

Verify(checked, foreign) ==
  /\ pc = "verify"
  /\ verdict' = IF timedOut THEN "ENV_BLOCKED_TIMEOUT"
                ELSE IF ~Clean(foreign) THEN "FAIL_CLEANUP"
                ELSE IF Passed(checked) THEN Status(checked, primitive)
                ELSE "FAIL"
  /\ pc' = "done"
  /\ UNCHANGED <<signal, step, start, timedOut, log>>
  /\ UNCHANGED <<shell, reader, expired>>

-----------------------------------------------------------------------------
Shell ==
  \/ ShowPrompt
  \/ \E code \in {0, 1} : RunCommand(code)
  \/ \E code \in {0, 1}, orderly \in BOOLEAN, survivor \in Survivors :
       Leave(code, orderly, survivor)
  \/ BecomeReapable
  \/ \E survivor \in Survivors : Die(survivor)
  \/ DescendantEnds

Reader ==
  \/ \E n \in 1..Len(pipe) : ReadOutput(n)
  \/ ExtendOutput
  \/ CloseReader

Driver ==
  \/ PromptSeen
  \/ BeginStep
  \/ SendCommand
  \/ SendFails
  \/ \E code \in {0, 1} : MarkerSeen(code) \/ StepFailed(code)
  \/ StopWaiting
  \/ JudgeTimeout
  \/ CloseStdin
  \/ Reap
  \/ Terminate
  \/ Kill
  \/ TakeLog
  \/ \E checked \in CheckerOutputs, foreign \in BOOLEAN :
       Verify(checked, foreign)

Next ==
  /\ Shell \/ Reader \/ Driver \/ DeadlinePasses
  /\ UNCHANGED primitive

-----------------------------------------------------------------------------
(* Types; a marker is only ever awaited of a command that prints one. *)
TypeOK ==
  /\ proc \in {"running", "leaving", "exited"}
  /\ primitive \in Primitives
  /\ prompted \in BOOLEAN /\ holder \in Survivors /\ exitCode \in {0, 1}
  /\ stdin \in Seq(1..Exit)
  /\ pipe \in Seq(Tokens) /\ ran \in Seq(Tokens)
  /\ signal \in {"none", "term", "kill"}
  /\ chunk \in Seq(Tokens) /\ output \in Seq(Tokens) /\ log \in Seq(Tokens)
  /\ readerClosed \in BOOLEAN
  /\ pc \in {"prompt", "begin", "send", "marker", "judge", "close", "wait",
             "terminated", "killed", "join", "verify", "done"}
  /\ step \in 0..Exit /\ start \in 0..Len(output)
  /\ pc = "marker" => step < Exit
  /\ expired \in BOOLEAN /\ timedOut \in BOOLEAN
  /\ verdict \in {"none", "PASS_CLEAN", "PASS_WITH_WARNING", "FAIL",
                 "FAIL_CLEANUP", "ENV_BLOCKED_TIMEOUT"}

(* PASS is never reported of a session in which a command failed or was not *)
(* run, which had to be signalled, or which left a process behind under a   *)
(* name the audit sees, however late its output, its end and the audit come. *)
PassIsGenuine ==
  verdict \in {"PASS_CLEAN", "PASS_WITH_WARNING"} =>
    /\ ran = [k \in 1..NumSteps |-> Marker(k, 0)]
    /\ proc = "exited" /\ exitCode = 0 /\ signal = "none"
    /\ ~SeenByAudit(holder, primitive)

(* A command reaches the shell only after every earlier one ran with exit   *)
(* code 0, even when the output of earlier commands is still on its way.    *)
NoCommandAfterFailure ==
  [][Len(stdin') > Len(stdin) /\ stdin'[Len(stdin')] # Exit =>
       ran = [k \in 1..(stdin'[Len(stdin')] - 1) |-> Marker(k, 0)]]_vars

=============================================================================
