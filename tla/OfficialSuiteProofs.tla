------------------------- MODULE OfficialSuiteProofs -------------------------
(***************************************************************************)
(* Theorems about OfficialSuite, for any number of commands in a session,  *)
(* any checker and any environments: what a passed session and an accepted *)
(* suite stand for.                                                        *)
(***************************************************************************)
EXTENDS OfficialSuite, SequenceTheorems, TLAPS

-----------------------------------------------------------------------------
(***************************************************************************)
(* The session's inductive invariant.                                      *)
(***************************************************************************)

(* All the reader and the driver can ever be told. *)
Told == {Prompt, Shutdown} \cup {ran[j] : j \in 1..Len(ran)}
HeardFrom ==
  /\ pipe \in Seq(Told) /\ chunk \in Seq(Told)
  /\ output \in Seq(Told) /\ log \in Seq(Told)

(* The shell runs the commands in order and none twice; at most one command *)
(* is on its way to it.                                                     *)
Ordered ==
  /\ ran \in Seq(Tokens) /\ Len(ran) <= NumSteps
  /\ \A j \in 1..Len(ran) : ran[j] \in {Marker(j, 0), Marker(j, 1)}
Waiting ==
  \/ stdin = <<>>
  \/ stdin = <<Len(ran) + 1>> /\ Len(ran) < NumSteps
  \/ stdin = <<Exit>>

(* How far the driver is says how far the shell must have come. *)
AllSucceeded(n) == Len(ran) >= n /\ \A k \in 1..n : ran[k] = Marker(k, 0)
Progress ==
  /\ pc = "prompt" => ran = <<>> /\ stdin = <<>>
  /\ pc \in {"begin", "send"} =>
       step >= 1 /\ AllSucceeded(step - 1) /\ Len(ran) = step - 1 /\ stdin = <<>>
  /\ pc = "marker" =>
       /\ step >= 1 /\ AllSucceeded(step - 1)
       /\ \/ Len(ran) = step - 1 /\ (stdin = <<step>> \/ stdin = <<>>)
          \/ Len(ran) = step /\ stdin = <<>>

Ended ==
  /\ pc \in {"join", "verify", "done"} => proc = "exited"
  /\ signal # "none" =>
       timedOut /\ pc \in {"terminated", "killed", "join", "verify", "done"}
  /\ pc \in {"terminated", "killed"} => signal # "none"
  /\ verdict # "none" => pc = "done"

SessionInv ==
  TypeOK /\ Ordered /\ Waiting /\ Progress /\ HeardFrom /\ Ended /\ PassIsGenuine

-----------------------------------------------------------------------------
LEMMA HeardTypes ==
  ASSUME Ordered', HeardFrom'
  PROVE  /\ pipe' \in Seq(Tokens) /\ chunk' \in Seq(Tokens)
         /\ output' \in Seq(Tokens) /\ log' \in Seq(Tokens)
<1>1. Told' \subseteq Tokens
  BY ElementOfSeq DEF Told, Tokens, Ordered
<1> QED
  BY <1>1, SeqMonotonic DEF HeardFrom

LEMMA MarkerFields ==
  ASSUME NEW k, NEW c
  PROVE  /\ Marker(k, c).says = "marker" /\ Marker(k, c).step = k
         /\ Marker(k, c).code = c
         /\ Marker(k, c) # Prompt /\ Marker(k, c) # Shutdown
  BY DEF Marker, Prompt, Shutdown

LEMMA SingletonFacts ==
  ASSUME NEW x
  PROVE  /\ Head(<<x>>) = x /\ Tail(<<x>>) = <<>> /\ Len(<<x>>) = 1
         /\ <<x>> # <<>> /\ Append(<<>>, x) = <<x>>
  OBVIOUS

(* A marker that was heard is one that was printed. *)
LEMMA HeardMarker ==
  ASSUME Ordered, NEW s \in Seq(Told), NEW from \in Nat, NEW k, NEW c,
         Contains(s, from, Marker(k, c))
  PROVE  k \in 1..Len(ran) /\ ran[k] = Marker(k, c)
<1>1. PICK i \in (from + 1)..Len(s) : s[i] = Marker(k, c)
  BY DEF Contains
<1>2. i \in 1..Len(s) /\ Len(s) \in Nat
  BY LenProperties
<1>3. Marker(k, c) \in Told
  BY <1>1, <1>2, ElementOfSeq
<1>4. PICK j \in 1..Len(ran) : Marker(k, c) = ran[j]
  BY <1>3, MarkerFields DEF Told
<1>5. Marker(k, c).step = j
  BY <1>4, MarkerFields DEF Ordered
<1> QED
  BY <1>4, <1>5, MarkerFields

LEMMA StdinType == ASSUME TypeOK, Ordered, Waiting PROVE stdin \in Seq(1..Exit)
<1>1. NumSteps \in Nat \ {0} /\ Len(ran) \in Nat
  BY StepsAssumption, LenProperties DEF Ordered
<1>2. \A x \in 1..Exit : <<x>> \in Seq(1..Exit)
  OBVIOUS
<1>3. Exit \in 1..Exit /\ (Len(ran) < NumSteps => Len(ran) + 1 \in 1..Exit)
  BY <1>1 DEF Exit
<1> QED
  BY <1>2, <1>3, EmptySeq DEF Waiting

LEMMA ToldGrows ==
  ASSUME Ordered, NEW m \in Tokens, ran' = Append(ran, m)
  PROVE  /\ Told \subseteq Told' /\ m \in Told'
         /\ Len(ran') = Len(ran) + 1 /\ ran' \in Seq(Tokens)
         /\ \A j \in 1..Len(ran) : ran'[j] = ran[j]
         /\ ran'[Len(ran) + 1] = m
<1>1. /\ Len(ran) \in Nat /\ Len(ran') = Len(ran) + 1 /\ ran' \in Seq(Tokens)
      /\ \A j \in 1..Len(ran) : ran'[j] = ran[j]
      /\ ran'[Len(ran) + 1] = m
  BY AppendProperties, LenProperties DEF Ordered
<1>2. Len(ran) + 1 \in 1..Len(ran') /\ 1..Len(ran) \subseteq 1..Len(ran')
  BY <1>1
<1> QED
  BY <1>1, <1>2 DEF Told

(* A session whose outcome is still open claims nothing. *)
LEMMA OpenVerdict == ASSUME verdict' = "none" PROVE PassIsGenuine'
  BY DEF PassIsGenuine

LEMMA NotDone ==
  ASSUME SessionInv, proc # "exited" \/ pc # "done" PROVE verdict = "none"
  BY DEF SessionInv, Ended, TypeOK

-----------------------------------------------------------------------------
(***************************************************************************)
(* The shell.                                                              *)
(***************************************************************************)
LEMMA ShowPromptInv == SessionInv /\ ShowPrompt /\ UNCHANGED primitive => SessionInv'
<1> SUFFICES ASSUME SessionInv, ShowPrompt, UNCHANGED primitive PROVE SessionInv'
  OBVIOUS
<1> USE DEF SessionInv
<1>1. ran' = ran /\ stdin' = stdin /\ proc' = proc /\ verdict' = verdict /\ pc' = pc
  BY DEF ShowPrompt, driver
<1>2. Told' = Told /\ Ordered' /\ Waiting'
  BY <1>1 DEF Told, Ordered, Waiting
<1>3. HeardFrom'
  <2>1. Prompt \in Told
    BY DEF Told
  <2> QED
    BY <1>2, <2>1, AppendProperties DEF HeardFrom, ShowPrompt, reader, driver
<1>4. TypeOK'
  BY <1>2, <1>3, HeardTypes DEF TypeOK, ShowPrompt, reader, driver, Ordered, Survivors
<1>5. Progress' /\ Ended'
  BY DEF Progress, Ended, AllSucceeded, ShowPrompt, driver
<1>6. PassIsGenuine'
  BY <1>1, NotDone, OpenVerdict DEF ShowPrompt
<1> QED
  BY <1>2, <1>3, <1>4, <1>5, <1>6

LEMMA RunCommandInv ==
  ASSUME SessionInv, NEW code \in {0, 1}, RunCommand(code), UNCHANGED primitive
  PROVE  SessionInv'
<1> USE DEF SessionInv
<1>1. /\ stdin = <<Len(ran) + 1>> /\ Len(ran) < NumSteps
      /\ Head(stdin) = Len(ran) + 1 /\ stdin' = <<>>
  BY SingletonFacts DEF RunCommand, Waiting
<1>2. Len(ran) \in Nat /\ NumSteps \in Nat
  BY LenProperties, StepsAssumption DEF Ordered
<1> DEFINE m == Marker(Len(ran) + 1, code)
<1>3. /\ m \in Tokens /\ ran' = Append(ran, m) /\ pipe' = Append(pipe, m)
      /\ proc' = proc /\ verdict' = verdict /\ pc' = pc /\ step' = step
  BY <1>1, <1>2 DEF RunCommand, Tokens, driver
<1> HIDE DEF m
<1>4. /\ Told \subseteq Told' /\ m \in Told'
      /\ Len(ran') = Len(ran) + 1 /\ ran' \in Seq(Tokens)
      /\ \A j \in 1..Len(ran) : ran'[j] = ran[j]
      /\ ran'[Len(ran) + 1] = m
  BY <1>3, ToldGrows
<1>5. Ordered' /\ Waiting'
  BY <1>1, <1>2, <1>4 DEF Ordered, Waiting, m
<1>6. HeardFrom'
  <2>1. /\ pipe \in Seq(Told') /\ chunk \in Seq(Told')
        /\ output \in Seq(Told') /\ log \in Seq(Told')
    BY <1>4, SeqMonotonic DEF HeardFrom
  <2> QED
    BY <1>3, <1>4, <2>1, AppendProperties DEF HeardFrom, RunCommand, reader, driver
<1>7. TypeOK'
  <2>1. stdin' \in Seq(1..Exit)
    BY <1>1, EmptySeq
  <2> QED
    BY <1>5, <1>6, <2>1, HeardTypes DEF TypeOK, RunCommand, reader, driver, Survivors, Ordered
<1>8. Progress'
  BY <1>1, <1>2, <1>3, <1>4 DEF Progress, AllSucceeded, TypeOK
<1>9. Ended' /\ PassIsGenuine'
  BY <1>3, NotDone, OpenVerdict DEF Ended, RunCommand, driver
<1> QED
  BY <1>5, <1>6, <1>7, <1>8, <1>9

LEMMA LeaveInv ==
  ASSUME SessionInv, UNCHANGED primitive,
         NEW code \in {0, 1}, NEW orderly \in BOOLEAN, NEW survivor \in Survivors,
         Leave(code, orderly, survivor)
  PROVE  SessionInv'
<1> USE DEF SessionInv
<1>1. /\ ran' = ran /\ stdin' = stdin /\ verdict' = verdict /\ pc' = pc
      /\ step' = step /\ pipe' \in {pipe, Append(pipe, Shutdown)}
  BY DEF Leave, driver
<1>2. Told' = Told /\ Ordered' /\ Waiting'
  BY <1>1 DEF Told, Ordered, Waiting
<1>3. HeardFrom'
  <2>1. Shutdown \in Told
    BY DEF Told
  <2> QED
    BY <1>1, <1>2, <2>1, AppendProperties DEF HeardFrom, Leave, reader, driver
<1>4. TypeOK'
  BY <1>2, <1>3, HeardTypes DEF TypeOK, Leave, reader, driver, Ordered, Survivors
<1>5. Progress'
  BY <1>1 DEF Progress, AllSucceeded
<1>6. Ended' /\ PassIsGenuine'
  BY <1>1, NotDone, OpenVerdict DEF Leave, Ended, driver
<1> QED
  BY <1>2, <1>3, <1>4, <1>5, <1>6

(* Steps of the shell and of time that print nothing and run nothing. *)
LEMMA QuietShell ==
  ASSUME SessionInv,
         UNCHANGED <<primitive, prompted, stdin, pipe, ran, reader, driver>>,
         proc' \in {proc, "exited"}, holder' \in Survivors, exitCode' \in {0, 1},
         expired' \in BOOLEAN, verdict = "none" \/ UNCHANGED <<exitCode, proc>>,
         holder' \in {holder, "none"} \/ verdict = "none"
  PROVE  SessionInv'
<1> USE DEF SessionInv, reader, driver
<1>2. Told' = Told /\ Ordered' /\ Waiting'
  BY DEF Told, Ordered, Waiting
<1>3. HeardFrom'
  BY <1>2 DEF HeardFrom
<1>4. TypeOK' /\ Ended'
  BY DEF TypeOK, Survivors, Ended
<1>5. Progress'
  BY DEF Progress, AllSucceeded
<1>6. PassIsGenuine'
  <2>1. ~SeenByAudit("none", primitive)
    BY DEF SeenByAudit, Comm, ExpectedNames, Contracts, Contract, TypeOK, Primitives
  <2>2. CASE verdict = "none"
    BY <2>2, OpenVerdict
  <2>3. CASE verdict # "none"
    BY <2>1, <2>3 DEF PassIsGenuine
  <2> QED
    BY <2>2, <2>3
<1> QED
  BY <1>2, <1>3, <1>4, <1>5, <1>6

LEMMA OtherShellInv ==
  ASSUME SessionInv, UNCHANGED primitive,
         \/ BecomeReapable \/ \E survivor \in Survivors : Die(survivor)
         \/ DescendantEnds \/ DeadlinePasses
  PROVE  SessionInv'
<1> USE DEF SessionInv
<1>1. "none" \in Survivors /\ holder \in Survivors /\ exitCode \in {0, 1}
      /\ expired \in BOOLEAN
  BY DEF Survivors, TypeOK
<1>2. Survivors' = Survivors
  BY DEF Survivors
<1>3. CASE BecomeReapable
  BY <1>1, <1>3, QuietShell, NotDone DEF BecomeReapable, reader, driver
<1>4. CASE \E survivor \in Survivors : Die(survivor)
  BY <1>1, <1>4, QuietShell, NotDone DEF Die, reader, driver
<1>5. CASE DescendantEnds
  BY <1>1, <1>5, QuietShell, NotDone DEF DescendantEnds, reader, driver
<1>6. CASE DeadlinePasses
  BY <1>1, <1>6, QuietShell, NotDone DEF DeadlinePasses, shell, reader, driver
<1> QED
  BY <1>3, <1>4, <1>5, <1>6

-----------------------------------------------------------------------------
(***************************************************************************)
(* The reader thread.                                                      *)
(***************************************************************************)
LEMMA ReaderInv ==
  ASSUME SessionInv, UNCHANGED primitive, Reader
  PROVE  SessionInv'
<1> USE DEF SessionInv
<1>1. /\ ran' = ran /\ stdin' = stdin /\ verdict' = verdict /\ pc' = pc /\ log' = log
      /\ step' = step /\ proc' = proc /\ exitCode' = exitCode /\ holder' = holder
      /\ prompted' = prompted /\ signal' = signal /\ start' = start
      /\ timedOut' = timedOut /\ expired' = expired
  BY DEF Reader, ReadOutput, ExtendOutput, CloseReader, shell, driver
<1>2. Told' = Told /\ Ordered' /\ Waiting'
  BY <1>1 DEF Told, Ordered, Waiting
<1>3. /\ HeardFrom' /\ readerClosed' \in BOOLEAN
      /\ Len(output) <= Len(output')
  <2>1. ASSUME NEW n \in 1..Len(pipe), ReadOutput(n)
        PROVE  /\ HeardFrom' /\ readerClosed' = readerClosed
               /\ output' = output
    <3>1. Len(pipe) \in Nat /\ \A i \in 1..Len(pipe) : pipe[i] \in Told
      BY LenProperties, ElementOfSeq DEF HeardFrom
    <3>2. /\ n \in Int /\ n + 1 \in Int /\ 1 \in Int
          /\ \A i \in 1..n : pipe[i] \in Told
          /\ \A i \in (n + 1)..Len(pipe) : pipe[i] \in Told
      BY <3>1
    <3>3. SubSeq(pipe, 1, n) \in Seq(Told) /\ SubSeq(pipe, n + 1, Len(pipe)) \in Seq(Told)
      BY <3>1, <3>2, SubSeqProperties
    <3> QED
      BY <1>1, <1>2, <2>1, <3>3 DEF HeardFrom, ReadOutput
  <2>2. CASE ExtendOutput
    <3>1. /\ output \o chunk \in Seq(Told)
          /\ Len(output \o chunk) = Len(output) + Len(chunk)
          /\ Len(output) \in Nat /\ Len(chunk) \in Nat /\ <<>> \in Seq(Told)
      BY ConcatProperties, LenProperties, EmptySeq DEF HeardFrom
    <3> QED
      BY <1>1, <1>2, <2>2, <3>1 DEF HeardFrom, ExtendOutput, shell, TypeOK
  <2>3. CASE CloseReader
    BY <1>1, <1>2, <2>3 DEF HeardFrom, CloseReader, shell
  <2>4. Len(output) \in Nat /\ readerClosed \in BOOLEAN
    BY LenProperties DEF HeardFrom, TypeOK
  <2> QED
    BY <2>1, <2>2, <2>3, <2>4 DEF Reader
<1>4. TypeOK'
  <2>1. start' \in 0..Len(output')
    BY <1>1, <1>3, LenProperties DEF TypeOK, HeardFrom
  <2> QED
    BY <1>1, <1>2, <1>3, <2>1, HeardTypes DEF TypeOK, Ordered, Survivors
<1>5. Progress' /\ Ended'
  BY <1>1 DEF Progress, AllSucceeded, Ended
<1>6. PassIsGenuine'
  BY <1>1 DEF PassIsGenuine
<1> QED
  BY <1>2, <1>3, <1>4, <1>5, <1>6

-----------------------------------------------------------------------------
(***************************************************************************)
(* The driver.  Most of its steps leave shell and reader as they are; what *)
(* has to be shown of each is that the driver has come no further than the *)
(* shell (Progress), and what the end of the session rests on (Ended).     *)
(***************************************************************************)
LEMMA DriverFrame ==
  ASSUME SessionInv, UNCHANGED <<primitive, shell, reader, expired>>,
         log' \in {log, output}
  PROVE  /\ Told' = Told /\ Ordered' /\ Waiting' /\ HeardFrom'
         /\ Len(output) \in Nat
         /\ pipe' \in Seq(Tokens) /\ chunk' \in Seq(Tokens)
         /\ output' \in Seq(Tokens) /\ log' \in Seq(Tokens)
<1> USE DEF SessionInv, shell, reader
<1>1. Told' = Told /\ Ordered' /\ Waiting'
  BY DEF Told, Ordered, Waiting
<1>2. HeardFrom'
  BY <1>1 DEF HeardFrom
<1> QED
  BY <1>1, <1>2, HeardTypes, LenProperties DEF HeardFrom

(* A step before the verdict. *)
LEMMA DriverStep ==
  ASSUME SessionInv, UNCHANGED <<primitive, shell, reader, expired, verdict>>,
         log' \in {log, output},
         pc # "done",
         pc' \in {"begin", "send", "marker", "judge", "close", "wait", "terminated",
                  "killed", "join", "verify"},
         step' \in 0..Exit, start' \in 0..Len(output), pc' = "marker" => step' < Exit,
         signal' \in {"none", "term", "kill"}, timedOut' \in BOOLEAN,
         Progress',
         pc' \in {"join", "verify"} => proc = "exited",
         pc' \in {"terminated", "killed"} => signal' # "none",
         signal' # "none" => timedOut' /\ pc' \in {"terminated", "killed", "join", "verify"}
  PROVE  SessionInv'
<1> USE DEF SessionInv
<1>1. verdict' = "none" /\ verdict = "none"
  BY NotDone
<1>2. /\ Ordered' /\ Waiting' /\ HeardFrom'
      /\ pipe' \in Seq(Tokens) /\ chunk' \in Seq(Tokens)
      /\ output' \in Seq(Tokens) /\ log' \in Seq(Tokens)
  BY DriverFrame
<1>3. TypeOK'
  BY <1>1, <1>2 DEF TypeOK, shell, reader, Survivors, Ordered
<1>4. Ended'
  BY <1>1 DEF Ended, shell
<1>5. PassIsGenuine'
  BY <1>1, OpenVerdict
<1> QED
  BY <1>2, <1>3, <1>4, <1>5

LEMMA StepTypes ==
  ASSUME TypeOK
  PROVE  /\ NumSteps \in Nat \ {0} /\ Exit = NumSteps + 1 /\ Exit \in Nat
         /\ step \in Nat /\ step <= Exit /\ start \in 0..Len(output)
         /\ output \in Seq(Tokens) /\ Len(output) \in Nat
  BY StepsAssumption, LenProperties DEF TypeOK, Exit

(* A marker of the step awaited, seen in the output: the shell has run it,  *)
(* with that exit code, and waits for the next command.                     *)
LEMMA MarkerMeansRun ==
  ASSUME SessionInv, pc = "marker", NEW code, Contains(output, start, Marker(step, code))
  PROVE  /\ Len(ran) = step /\ ran[step] = Marker(step, code) /\ stdin = <<>>
         /\ AllSucceeded(step - 1) /\ step \in 1..NumSteps
<1>1. step \in 1..Len(ran) /\ ran[step] = Marker(step, code)
  BY HeardMarker, StepTypes DEF SessionInv, HeardFrom
<1>2. Len(ran) \in Nat /\ Len(ran) <= NumSteps /\ NumSteps \in Nat
  BY LenProperties, StepTypes DEF SessionInv, Ordered
<1> QED
  BY <1>1, <1>2 DEF SessionInv, Progress

LEMMA PromptSeenInv == SessionInv /\ PromptSeen /\ UNCHANGED primitive => SessionInv'
<1> SUFFICES ASSUME SessionInv, PromptSeen, UNCHANGED primitive PROVE SessionInv'
  OBVIOUS
<1> USE DEF SessionInv
<1>1. ran' = <<>> /\ stdin' = <<>> /\ pc' = "begin" /\ step' = 1
  BY DEF PromptSeen, Progress, shell
<1>2. Progress'
  BY <1>1, EmptySeq DEF Progress, AllSucceeded
<1> QED
  BY <1>2, StepTypes, DriverStep DEF PromptSeen, TypeOK, Ended, shell, reader

LEMMA BeginStepInv == SessionInv /\ BeginStep /\ UNCHANGED primitive => SessionInv'
<1> SUFFICES ASSUME SessionInv, BeginStep, UNCHANGED primitive PROVE SessionInv'
  OBVIOUS
<1> USE DEF SessionInv
<1>1. Progress'
  BY DEF Progress, AllSucceeded, BeginStep, shell
<1> QED
  BY <1>1, StepTypes, DriverStep DEF BeginStep, TypeOK, Ended, shell, reader

LEMMA MarkerSeenInv ==
  ASSUME SessionInv, UNCHANGED primitive, NEW code \in {0, 1}, MarkerSeen(code)
  PROVE  SessionInv'
<1> USE DEF SessionInv
<1>1. /\ Len(ran) = step /\ ran[step] = Marker(step, 0) /\ stdin = <<>>
      /\ AllSucceeded(step - 1) /\ step \in 1..NumSteps
  BY MarkerMeansRun DEF MarkerSeen, Continues
<1>2. AllSucceeded(step)
  BY <1>1 DEF AllSucceeded
<1>3. ran' = ran /\ stdin' = stdin /\ step' = step + 1 /\ pc' = "begin"
  BY DEF MarkerSeen, shell
<1>4. Progress'
  BY <1>1, <1>2, <1>3 DEF Progress, AllSucceeded
<1> QED
  BY <1>1, <1>4, StepTypes, DriverStep DEF MarkerSeen, TypeOK, Ended, shell, reader

(* Steps that need nothing of the shell. *)
LEMMA ClosingInv ==
  ASSUME SessionInv, UNCHANGED primitive,
         \/ SendFails \/ StopWaiting \/ JudgeTimeout \/ CloseStdin \/ Reap
         \/ Terminate \/ Kill \/ TakeLog
  PROVE  SessionInv'
<1> USE DEF SessionInv
<1>1. /\ UNCHANGED <<shell, reader, expired, verdict, step, start>>
      /\ log' \in {log, output} /\ pc # "done"
      /\ pc' \in {"judge", "close", "wait", "terminated", "killed", "join", "verify"}
  BY DEF SendFails, StopWaiting, JudgeTimeout, CloseStdin, Reap, Terminate, Kill, TakeLog
<1>2. /\ signal' \in {"none", "term", "kill"} /\ timedOut' \in BOOLEAN
      /\ signal' # "none" => timedOut' /\ pc' \in {"terminated", "killed", "join", "verify"}
      /\ pc' \in {"join", "verify"} => proc = "exited"
      /\ pc' \in {"terminated", "killed"} => signal' # "none"
  <2>1. CASE JudgeTimeout
    <3>1. (proc # "exited") \in BOOLEAN
      OBVIOUS
    <3>2. timedOut' \in BOOLEAN
      BY <2>1, <3>1 DEF JudgeTimeout
    <3> QED
      BY <2>1, <3>2 DEF JudgeTimeout, TypeOK, Ended
  <2>2. CASE SendFails \/ StopWaiting \/ CloseStdin \/ Reap \/ Kill \/ TakeLog
    BY <2>2 DEF SendFails, StopWaiting, CloseStdin, Reap, Kill, TakeLog, TypeOK, Ended
  <2>3. CASE Terminate
    BY <2>3 DEF Terminate, TypeOK
  <2> QED
    BY <2>1, <2>2, <2>3
<1>3. Progress'
  BY <1>1 DEF Progress
<1> QED
  BY <1>1, <1>2, <1>3, StepTypes, DriverStep

(* What is written to the shell. *)
LEMMA WriteInv ==
  ASSUME SessionInv, pc \in {"send", "marker"}, stdin = <<>>, NEW told \in 1..Exit,
         UNCHANGED <<primitive, proc, prompted, pipe, holder, exitCode, ran, reader, expired,
                     signal, step, start, timedOut, log, verdict>>,
         Write(told),
         \/ told = Exit /\ pc' = "close"
         \/ told = step /\ pc = "send" /\ pc' = "marker" /\ step < Exit
  PROVE  SessionInv'
<1> USE DEF SessionInv, reader
<1>1. /\ stdin' \in {<<>>, <<told>>} /\ Len(ran) \in Nat
      /\ <<>> \in Seq(1..Exit) /\ <<told>> \in Seq(1..Exit)
  BY SingletonFacts, LenProperties, EmptySeq DEF Write, Ordered
<1>2. Told' = Told /\ Ordered'
  BY DEF Told, Ordered
<1>3. HeardFrom'
  BY <1>2 DEF HeardFrom
<1>4. TypeOK'
  <2>1. stdin' \in Seq(1..Exit) /\ pc' \in {"close", "marker"} /\ (pc' = "marker" => step' < Exit)
    BY <1>1
  <2> QED
    BY <1>2, <1>3, <2>1, HeardTypes DEF TypeOK, Ordered, Survivors
<1>5. Waiting' /\ Progress'
  <2>1. CASE told = Exit /\ pc' = "close"
    BY <1>1, <2>1 DEF Waiting, Progress
  <2>2. CASE told = step /\ pc = "send" /\ pc' = "marker" /\ step < Exit
    <3>1. step = Len(ran) + 1 /\ Len(ran) < NumSteps
      BY <1>1, <2>2, StepTypes DEF Progress
    <3>2. Waiting'
      BY <1>1, <2>2, <3>1 DEF Waiting
    <3>3. Progress'
      BY <1>1, <2>2, <3>1 DEF Progress, AllSucceeded
    <3> QED
      BY <3>2, <3>3
  <2> QED
    BY <2>1, <2>2
<1>6. Ended' /\ PassIsGenuine'
  BY NotDone, OpenVerdict DEF Ended
<1> QED
  BY <1>2, <1>3, <1>4, <1>5, <1>6

LEMMA SendCommandInv == SessionInv /\ SendCommand /\ UNCHANGED primitive => SessionInv'
<1> SUFFICES ASSUME SessionInv, SendCommand, UNCHANGED primitive PROVE SessionInv'
  OBVIOUS
<1>1. stdin = <<>> /\ step >= 1
  BY DEF SendCommand, SessionInv, Progress
<1>2. step \in 1..Exit /\ (step < Exit \/ step = Exit)
  BY <1>1, StepTypes DEF SessionInv
<1> QED
  BY <1>1, <1>2, WriteInv DEF SendCommand, AwaitsMarker, reader

LEMMA StepFailedInv ==
  ASSUME SessionInv, UNCHANGED primitive, NEW code \in {0, 1}, StepFailed(code)
  PROVE  SessionInv'
<1>1. stdin = <<>>
  BY MarkerMeansRun DEF StepFailed
<1>2. Exit \in 1..Exit
  BY StepTypes DEF SessionInv
<1> QED
  BY <1>1, <1>2, WriteInv DEF StepFailed, reader

(* The verdict: a PASS rests on a log with the marker of every command and  *)
(* exit code 0, and those can only come from a shell that ran them all.     *)
LEMMA VerifyInv ==
  ASSUME SessionInv, UNCHANGED primitive,
         NEW checked, NEW foreign \in BOOLEAN, Verify(checked, foreign)
  PROVE  SessionInv'
<1> USE DEF SessionInv
<1>1. /\ UNCHANGED <<shell, reader, expired, signal, step, start, timedOut, log>>
      /\ pc = "verify" /\ pc' = "done"
  BY DEF Verify
<1>2. Ordered' /\ Waiting' /\ HeardFrom'
  BY <1>1, DriverFrame
<1>3. verdict' \in {"PASS_CLEAN", "PASS_WITH_WARNING", "FAIL", "FAIL_CLEANUP",
                   "ENV_BLOCKED_TIMEOUT"}
  BY DEF Verify, Status
<1>4. TypeOK'
  BY <1>1, <1>3 DEF TypeOK, Survivors, shell, reader
<1>5. Progress' /\ Ended'
  BY <1>1 DEF Progress, Ended, shell
<1>6. PassIsGenuine'
  <2> SUFFICES ASSUME verdict' \in {"PASS_CLEAN", "PASS_WITH_WARNING"}
               PROVE  /\ ran' = [k \in 1..NumSteps |-> Marker(k, 0)]
                      /\ proc' = "exited" /\ exitCode' = 0 /\ signal' = "none"
                      /\ ~SeenByAudit(holder', primitive')
    BY DEF PassIsGenuine
  <2>1. ~timedOut /\ Clean(foreign) /\ Passed(checked)
    BY DEF Verify
  <2>2. exitCode = 0 /\ \A k \in 1..NumSteps : Contains(log, 0, Marker(k, 0))
    BY <2>1 DEF Passed
  <2>3. \A k \in 1..NumSteps : k \in 1..Len(ran) /\ ran[k] = Marker(k, 0)
    BY <2>2, HeardMarker DEF HeardFrom
  <2>4. Len(ran) = NumSteps /\ DOMAIN ran = 1..Len(ran)
        /\ ran = [k \in DOMAIN ran |-> ran[k]]
    BY <2>3, StepsAssumption, LenProperties DEF Ordered
  <2>5. ran = [k \in 1..NumSteps |-> Marker(k, 0)]
    BY <2>3, <2>4
  <2>6. signal = "none" /\ proc = "exited"
    BY <1>1, <2>1 DEF Ended
  <2>7. ~SeenByAudit(holder, primitive)
    BY <2>1 DEF Clean
  <2> QED
    BY <1>1, <2>2, <2>5, <2>6, <2>7 DEF shell
<1> QED
  BY <1>2, <1>4, <1>5, <1>6

(* Every step of a session keeps the invariant. *)
LEMMA SessionStepInv == SessionInv /\ Next => SessionInv'
<1> SUFFICES ASSUME SessionInv, Next PROVE SessionInv'
  OBVIOUS
<1>1. CASE Shell
  BY <1>1, ShowPromptInv, RunCommandInv, LeaveInv, OtherShellInv DEF Next, Shell
<1>2. CASE Reader
  BY <1>2, ReaderInv DEF Next
<1>3. CASE Driver
  BY <1>3, PromptSeenInv, BeginStepInv, MarkerSeenInv, ClosingInv, SendCommandInv,
     StepFailedInv, VerifyInv DEF Next, Driver
<1>4. CASE DeadlinePasses
  BY <1>4, OtherShellInv DEF Next
<1> QED
  BY <1>1, <1>2, <1>3, <1>4 DEF Next

LEMMA FreshInv == Fresh /\ primitive \in Primitives => SessionInv
<1> SUFFICES ASSUME Fresh, primitive \in Primitives PROVE SessionInv
  OBVIOUS
<1>1. <<>> \in Seq(Tokens) /\ <<>> \in Seq(Told) /\ <<>> \in Seq(1..Exit) /\ Len(<<>>) = 0
  BY EmptySeq
<1>2. 0 \in 0..Exit /\ 0 \in 0..Len(<<>>) /\ 0 <= NumSteps
  BY <1>1, StepsAssumption DEF Exit
<1>3. TypeOK
  BY <1>1, <1>2 DEF Fresh, TypeOK, Survivors
<1>4. Ordered
  BY <1>1, <1>2 DEF Fresh, Ordered
<1>5. Waiting /\ Progress /\ Ended /\ PassIsGenuine
  BY DEF Fresh, Waiting, Progress, Ended, PassIsGenuine
<1>6. HeardFrom
  BY <1>1 DEF Fresh, HeardFrom
<1> QED
  BY <1>3, <1>4, <1>5, <1>6 DEF SessionInv

(* A command is written only when all before it have succeeded. *)
CommandsFollowSuccess ==
  Len(stdin') > Len(stdin) /\ stdin'[Len(stdin')] # Exit =>
    ran = [k \in 1..(stdin'[Len(stdin')] - 1) |-> Marker(k, 0)]

LEMMA SessionStepFollows == SessionInv /\ Next => CommandsFollowSuccess
<1> SUFFICES ASSUME SessionInv, Next,
                    Len(stdin') > Len(stdin), stdin'[Len(stdin')] # Exit
             PROVE  ran = [k \in 1..(stdin'[Len(stdin')] - 1) |-> Marker(k, 0)]
  BY DEF CommandsFollowSuccess
<1> USE DEF SessionInv
<1>1. stdin \in Seq(1..Exit) /\ Len(stdin) \in Nat
  BY LenProperties DEF TypeOK
<1>2. stdin' # stdin
  BY <1>1
<1>3. SendCommand \/ \E code \in {0, 1} : RunCommand(code) \/ StepFailed(code)
  BY <1>2 DEF Next, Shell, Reader, Driver, ShowPrompt, Leave, BecomeReapable, Die,
     DescendantEnds, DeadlinePasses, ReadOutput, ExtendOutput, CloseReader, PromptSeen,
     BeginStep, SendFails, MarkerSeen, StopWaiting, JudgeTimeout, CloseStdin, Reap,
     Terminate, Kill, TakeLog, Verify, shell, reader, driver
<1>4. ASSUME NEW code \in {0, 1}, RunCommand(code) PROVE FALSE
  <2>1. stdin # <<>> /\ stdin' = Tail(stdin)
    BY <1>4 DEF RunCommand
  <2> QED
    BY <1>1, <2>1, HeadTailProperties
<1>5. ASSUME NEW code \in {0, 1}, StepFailed(code) PROVE FALSE
  <2>1. stdin = <<>>
    BY <1>5, MarkerMeansRun DEF StepFailed
  <2>2. stdin' = <<Exit>>
    BY <1>2, <1>5, <2>1, SingletonFacts DEF StepFailed, Write
  <2> QED
    BY <2>2, SingletonFacts
<1>6. CASE SendCommand
  <2>1. /\ stdin = <<>> /\ Len(ran) = step - 1 /\ AllSucceeded(step - 1)
        /\ DOMAIN ran = 1..Len(ran) /\ ran = [k \in DOMAIN ran |-> ran[k]]
    BY <1>6, LenProperties DEF SendCommand, Progress, Ordered
  <2>2. stdin' = <<step>>
    BY <1>2, <1>6, <2>1, SingletonFacts DEF SendCommand, Write
  <2>3. stdin'[Len(stdin')] = step
    BY <2>2
  <2> QED
    BY <2>1, <2>3 DEF AllSucceeded
<1> QED
  BY <1>3, <1>4, <1>5, <1>6

-----------------------------------------------------------------------------
(***************************************************************************)
(* The suite round it.                                                     *)
(***************************************************************************)
Outcomes ==
  [commit : {"frozen", "moved", "unknown"}, cann : Versions \cup {"none"},
   passed : BOOLEAN, sound : BOOLEAN]

(* An outcome that passed is of a session that ran all its commands, in an *)
(* environment that was found complete with the frozen sources.            *)
Trusted(e) == e.passed => e.sound /\ e.commit = "frozen" /\ e.cann \in Versions

RequestsInv == requests \in Seq(Requests) /\ (suite => requests = G2E) /\ suite \in BOOLEAN

EntriesInv ==
  /\ entries \in Seq(Outcomes) /\ Len(entries) <= Len(requests)
  /\ \A i \in 1..Len(entries) : Trusted(entries[i])

(* What holds at each phase: before and after a session its state is fresh, *)
(* and a session is only under way in an environment without a fault.       *)
PhaseInv ==
  /\ phase \in {"resolve", "refused", "diagnose", "session", "archive", "summarise",
                "ended", "aborted", "killed"}
  /\ diagnosed \in Reports
  /\ phase # "session" => Fresh
  /\ phase \in {"resolve", "diagnose", "session"} => Len(entries) < Len(requests)
  /\ phase = "diagnose" => Resolves(Current)
  /\ phase = "session" => diagnosed.commit = "frozen" /\ diagnosed.cann \in Versions
  /\ phase = "summarise" => suite /\ Len(entries) = Len(requests)

DirectoryInv ==
  /\ Len(files) \in 0..4 /\ files = SubSeq(SuiteFiles, 1, Len(files))
  /\ writing \in BOOLEAN
  /\ summary \in {"none", "COMPLETED", "INCOMPLETE", "ENV_BLOCKED_ENVIRONMENT_MISMATCH"}
  /\ audited \in {"none", "accepted", "refused"}
  /\ summary # "none" =>
       /\ phase \in {"summarise", "ended", "killed"}
       /\ suite /\ Len(entries) = Len(requests)
  /\ summary = "COMPLETED" => EnvironmentConsistent /\ AllPassed
  /\ audited = "accepted" => summary = "COMPLETED"

SuiteInv == SessionInv /\ RequestsInv /\ EntriesInv /\ PhaseInv /\ DirectoryInv

-----------------------------------------------------------------------------
LEMMA FreshInvNext == (Fresh /\ primitive \in Primitives)' => SessionInv'
  BY FreshInv, PTL

LEMMA EntryFacts ==
  ASSUME NEW report \in Reports, NEW passed \in BOOLEAN, NEW sound \in BOOLEAN
  PROVE  /\ Entry(report, passed, sound) \in Outcomes
         /\ Entry(report, passed, sound).passed = passed
         /\ Entry(report, passed, sound).sound = sound
         /\ Entry(report, passed, sound).commit = report.commit
         /\ Entry(report, passed, sound).cann = report.cann
  BY DEF Entry, Outcomes, Reports

LEMMA EntryAdded ==
  ASSUME EntriesInv, NEW e \in Outcomes, Trusted(e),
         Len(entries) < Len(requests), requests \in Seq(Requests),
         UNCHANGED requests, entries' = Append(entries, e)
  PROVE  EntriesInv' /\ Len(entries') = Len(entries) + 1
<1>1. /\ entries' \in Seq(Outcomes) /\ Len(entries') = Len(entries) + 1
      /\ \A i \in 1..Len(entries) : entries'[i] = entries[i]
      /\ entries'[Len(entries) + 1] = e
      /\ Len(entries) \in Nat /\ Len(requests) \in Nat
  BY AppendProperties, LenProperties DEF EntriesInv
<1>2. ASSUME NEW i \in 1..Len(entries') PROVE Trusted(entries'[i])
  <2>1. CASE i = Len(entries) + 1
    BY <1>1, <2>1
  <2>2. CASE i \in 1..Len(entries)
    <3>1. entries'[i] = entries[i] /\ Trusted(entries[i])
      BY <1>1, <2>2 DEF EntriesInv
    <3> QED
      BY <3>1
  <2> QED
    BY <1>1, <2>1, <2>2
<1>3. Len(entries') <= Len(requests')
  BY <1>1
<1> QED
  BY <1>1, <1>2, <1>3 DEF EntriesInv

LEMMA SameSession == ASSUME SessionInv, UNCHANGED session PROVE SessionInv'
  BY DEF session, shell, reader, driver, SessionInv, TypeOK, Ordered, Waiting, Progress,
     AllSucceeded, HeardFrom, Told, Ended, PassIsGenuine, Survivors

LEMMA SameFresh == ASSUME Fresh, UNCHANGED <<shell, reader, driver, expired>> PROVE Fresh'
  BY DEF shell, reader, driver, Fresh

LEMMA RenewIsFresh == Renew => Fresh'
  BY DEF Renew, Fresh

LEMMA DirectoryFrame ==
  ASSUME DirectoryInv, UNCHANGED directory, UNCHANGED <<requests, suite>>,
         \/ summary = "none"
         \/ UNCHANGED entries /\ phase' \in {"summarise", "ended", "killed"}
  PROVE  DirectoryInv'
  BY DEF DirectoryInv, directory, EnvironmentConsistent, AllPassed

(* What an environment was found to be. *)
LEMMA DiagnosisFacts ==
  ASSUME NEW found \in Environments
  PROVE  /\ Recorded(found) \in Reports
         /\ ~Raises(found) /\ SelectedMissing(found, Current.primitive) = {} =>
              Recorded(found).commit = "frozen" /\ Recorded(found).cann \in Versions
<1>1. found \in Environment
  BY EnvironmentsAssumption
<1>2. found.report \in Reports /\ Blank \in Reports
  BY <1>1 DEF Environment, Blank, Reports
<1>3. Recorded(found) \in Reports
  BY <1>2 DEF Recorded
<1>4. ASSUME ~Raises(found), SelectedMissing(found, Current.primitive) = {}
      PROVE  Recorded(found).commit = "frozen" /\ Recorded(found).cann \in Versions
  <2>1. Missing(found, Recorded(found)) = {}
    BY <1>4 DEF SelectedMissing, Raises
  <2>2. Recorded(found).commit = "frozen" /\ Recorded(found).cann # "none"
    BY <2>1 DEF Missing
  <2> QED
    BY <1>3, <2>2 DEF Reports
<1> QED
  BY <1>3, <1>4

-----------------------------------------------------------------------------
LEMMA SuiteInitInv == SuiteInit => SuiteInv
<1> SUFFICES ASSUME SuiteInit PROVE SuiteInv
  OBVIOUS
<1>1. SessionInv
  BY FreshInv DEF SuiteInit, Primitives
<1>2. RequestsInv /\ Len(requests) \in Nat \ {0}
  <2>1. CASE requests = G2E /\ suite = TRUE
    <3>1. /\ Request("AllReduce", "sum", 16) \in Requests
          /\ Request("AllGather", "none", 8) \in Requests
          /\ Request("ReduceScatter", "sum", 8) \in Requests
      BY DEF Request, Requests, Primitives
    <3>2. G2E \in Seq(Requests) /\ Len(G2E) = 3
      <4> DEFINE R1 == Request("AllReduce", "sum", 16)
                 R2 == Request("AllGather", "none", 8)
                 R3 == Request("ReduceScatter", "sum", 8)
      <4>1. R1 \in Requests /\ R2 \in Requests /\ R3 \in Requests
        BY <3>1
      <4>2. G2E = <<R1, R2, R3>>
        BY DEF G2E
      <4> HIDE DEF R1, R2, R3
      <4> QED
        BY <4>1, <4>2
    <3> QED
      BY <2>1, <3>2 DEF RequestsInv
  <2>2. CASE \E request \in Requests : requests = <<request>> /\ suite = FALSE
    <3>1. PICK request \in Requests : requests = <<request>> /\ suite = FALSE
      BY <2>2
    <3>2. <<request>> \in Seq(Requests) /\ Len(<<request>>) = 1
      OBVIOUS
    <3>3. requests \in Seq(Requests) /\ Len(requests) = 1 /\ suite = FALSE
      BY <3>1, <3>2, Zenon
    <3>4. 1 \in Nat \ {0}
      OBVIOUS
    <3>5. suite \in BOOLEAN /\ ~suite
      BY <3>3, Zenon
    <3> QED
      BY <3>3, <3>4, <3>5, Zenon DEF RequestsInv
  <2> QED
    BY <2>1, <2>2 DEF SuiteInit
<1>3. <<>> \in Seq(Outcomes) /\ Len(<<>>) = 0
  BY EmptySeq
<1>4. EntriesInv
  BY <1>2, <1>3 DEF SuiteInit, EntriesInv
<1>5. PhaseInv
  BY <1>2, <1>3 DEF SuiteInit, PhaseInv, Blank, Reports
<1>6. DirectoryInv
  <2>1. SubSeq(SuiteFiles, 1, 0) = <<>>
    BY SubSeqEmpty
  <2>2. files = <<>> /\ Len(files) = 0 /\ files = SubSeq(SuiteFiles, 1, Len(files))
    BY <1>3, <2>1 DEF SuiteInit
  <2>3. 0 \in 0..4 /\ summary = "none" /\ audited = "none" /\ writing = FALSE
    BY DEF SuiteInit
  <2>4. writing \in BOOLEAN /\ summary # "COMPLETED" /\ audited # "accepted"
    BY <2>3
  <2> QED
    BY <2>2, <2>3, <2>4 DEF DirectoryInv
<1> QED
  BY <1>1, <1>2, <1>4, <1>5, <1>6 DEF SuiteInv

-----------------------------------------------------------------------------
(***************************************************************************)
(* The steps of the command.                                               *)
(***************************************************************************)
LEMMA CountFacts ==
  ASSUME RequestsInv, EntriesInv
  PROVE  Len(entries) \in Nat /\ Len(requests) \in Nat
  BY LenProperties DEF RequestsInv, EntriesInv

LEMMA CurrentType ==
  ASSUME RequestsInv, EntriesInv, Len(entries) < Len(requests)
  PROVE  Current \in Requests
<1>1. Len(entries) + 1 \in 1..Len(requests)
  BY CountFacts
<1> QED
  BY <1>1, ElementOfSeq DEF RequestsInv, Current

(* A step that changes neither the session, nor the requests, nor the *)
(* outcomes, nor the directory.                                       *)
LEMMA QuietStep ==
  ASSUME SuiteInv, UNCHANGED <<session, command, entries, directory>>,
         summary = "none" \/ phase' \in {"summarise", "ended", "killed"},
         PhaseInv'
  PROVE  SuiteInv'
<1>1. SessionInv'
  BY SameSession DEF SuiteInv
<1>2. RequestsInv' /\ EntriesInv'
  BY DEF SuiteInv, RequestsInv, EntriesInv, command
<1>3. DirectoryInv'
  BY DirectoryFrame DEF SuiteInv, command
<1> QED
  BY <1>1, <1>2, <1>3 DEF SuiteInv

LEMMA EarlySummary ==
  ASSUME SuiteInv, phase \notin {"summarise", "ended", "killed"} PROVE summary = "none"
  BY DEF SuiteInv, DirectoryInv

LEMMA StillFresh == ASSUME SuiteInv, phase # "session", UNCHANGED session PROVE Fresh'
  BY SameFresh DEF SuiteInv, PhaseInv, session

LEMMA RefuseInv == SuiteInv /\ Refuse => SuiteInv'
<1> SUFFICES ASSUME SuiteInv, Refuse PROVE SuiteInv'
  OBVIOUS
<1>1. PhaseInv'
  BY StillFresh DEF Refuse, SuiteInv, PhaseInv
<1> QED
  BY <1>1, QuietStep, EarlySummary DEF Refuse

LEMMA ResolveInv == SuiteInv /\ Resolve => SuiteInv'
<1> SUFFICES ASSUME SuiteInv, Resolve PROVE SuiteInv'
  OBVIOUS
<1>1. Current' = Current
  BY DEF Resolve, Current, command
<1>2. Resolves(Current)'
  BY <1>1 DEF Resolve, Resolves
<1>3. PhaseInv'
  BY <1>2, StillFresh DEF Resolve, SuiteInv, PhaseInv, command
<1> QED
  BY <1>3, QuietStep, EarlySummary DEF Resolve

LEMMA AbortInv == ASSUME NEW found, SuiteInv, Abort(found) PROVE SuiteInv'
<1>1. PhaseInv'
  BY StillFresh DEF Abort, SuiteInv, PhaseInv
<1> QED
  BY <1>1, QuietStep, EarlySummary DEF Abort

LEMMA ArchiveInv == SuiteInv /\ Archive => SuiteInv'
<1> SUFFICES ASSUME SuiteInv, Archive PROVE SuiteInv'
  OBVIOUS
<1>1. Len(entries) \in Nat /\ Len(requests) \in Nat /\ Len(entries) <= Len(requests)
  BY CountFacts DEF SuiteInv, EntriesInv
<1>2. PhaseInv'
  BY <1>1, StillFresh DEF Archive, SuiteInv, PhaseInv, RequestsInv, command
<1> QED
  BY <1>2, QuietStep, EarlySummary DEF Archive

LEMMA EndSuiteInv == SuiteInv /\ EndSuite => SuiteInv'
<1> SUFFICES ASSUME SuiteInv, EndSuite PROVE SuiteInv'
  OBVIOUS
<1>1. PhaseInv'
  BY StillFresh DEF EndSuite, SuiteInv, PhaseInv
<1> QED
  BY <1>1, QuietStep DEF EndSuite

LEMMA LaunchInv ==
  ASSUME NEW found \in Environments, SuiteInv, Launch(found) PROVE SuiteInv'
<1> USE DEF SuiteInv
<1>1. Fresh' /\ primitive' \in Primitives
  BY SameFresh DEF Launch, PhaseInv, Resolves
<1>2. SessionInv'
  BY <1>1, FreshInvNext
<1>3. RequestsInv' /\ EntriesInv'
  BY DEF Launch, RequestsInv, EntriesInv, command
<1>4. PhaseInv'
  BY DiagnosisFacts DEF Launch, PhaseInv, command
<1>5. DirectoryInv'
  BY DirectoryFrame, EarlySummary DEF Launch, command
<1> QED
  BY <1>2, <1>3, <1>4, <1>5

LEMMA BlockedInv ==
  ASSUME NEW found \in Environments, SuiteInv, Blocked(found) PROVE SuiteInv'
<1> USE DEF SuiteInv
<1> DEFINE e == Entry(Recorded(found), FALSE, FALSE)
<1>1. e \in Outcomes /\ Trusted(e)
  BY DiagnosisFacts, EntryFacts DEF Trusted
<1>2. Len(entries) < Len(requests)
  BY DEF Blocked, PhaseInv
<1>3. SessionInv'
  BY SameSession DEF Blocked
<1>4. EntriesInv'
  <2>1. UNCHANGED requests /\ entries' = Append(entries, e) /\ requests \in Seq(Requests)
    BY DEF Blocked, command, RequestsInv
  <2> QED
    BY <1>1, <1>2, <2>1, EntryAdded
<1>5. RequestsInv'
  BY DEF Blocked, RequestsInv, command
<1>6. PhaseInv'
  BY StillFresh DEF Blocked, PhaseInv
<1>7. DirectoryInv'
  BY DirectoryFrame, EarlySummary DEF Blocked, command
<1> QED
  BY <1>3, <1>4, <1>5, <1>6, <1>7

(* The outcome of a session is as good as its verdict says. *)
LEMMA CollectInv == SuiteInv /\ Collect => SuiteInv'
<1> SUFFICES ASSUME SuiteInv, Collect PROVE SuiteInv'
  OBVIOUS
<1> USE DEF SuiteInv
<1> DEFINE passed == verdict \in {"PASS_CLEAN", "PASS_WITH_WARNING"}
           sound == passed /\ ran = [k \in 1..NumSteps |-> Marker(k, 0)]
           e == Entry(diagnosed, passed, sound)
<1>1. e \in Outcomes /\ Trusted(e)
  <2>1. passed \in BOOLEAN /\ sound \in BOOLEAN
    OBVIOUS
  <2>2. passed => sound
    BY DEF SessionInv, PassIsGenuine
  <2>3. diagnosed \in Reports /\ diagnosed.commit = "frozen" /\ diagnosed.cann \in Versions
    BY DEF Collect, PhaseInv
  <2> HIDE DEF passed, sound
  <2> QED
    BY <2>1, <2>2, <2>3, EntryFacts, Zenon DEF Trusted
<1>2. Len(entries) < Len(requests)
  BY DEF Collect, PhaseInv
<1>3. Fresh' /\ primitive' \in Primitives
  BY RenewIsFresh DEF Collect, Primitives
<1>4. SessionInv'
  BY <1>3, FreshInvNext
<1>5. EntriesInv'
  <2>1. UNCHANGED requests /\ entries' = Append(entries, e) /\ requests \in Seq(Requests)
    BY DEF Collect, command, RequestsInv
  <2> QED
    BY <1>1, <1>2, <2>1, EntryAdded
<1>6. RequestsInv'
  BY DEF Collect, RequestsInv, command
<1>7. PhaseInv'
  BY <1>3 DEF Collect, PhaseInv, Blank, Reports
<1>8. DirectoryInv'
  BY DirectoryFrame, EarlySummary DEF Collect, command
<1> QED
  BY <1>4, <1>5, <1>6, <1>7, <1>8

LEMMA KilledInv == SuiteInv /\ Killed => SuiteInv'
<1> SUFFICES ASSUME SuiteInv, Killed PROVE SuiteInv'
  OBVIOUS
<1> USE DEF SuiteInv
<1>1. Fresh' /\ primitive' \in Primitives
  BY RenewIsFresh DEF Killed, Primitives
<1>2. SessionInv'
  BY <1>1, FreshInvNext
<1>3. RequestsInv' /\ EntriesInv'
  BY DEF Killed, RequestsInv, EntriesInv, command
<1>4. PhaseInv'
  BY <1>1 DEF Killed, PhaseInv, Blank, Reports
<1>5. DirectoryInv'
  BY DirectoryFrame DEF Killed, command
<1> QED
  BY <1>2, <1>3, <1>4, <1>5

LEMMA SessionInSuiteInv == SuiteInv /\ Session => SuiteInv'
<1> SUFFICES ASSUME SuiteInv, Session PROVE SuiteInv'
  OBVIOUS
<1> USE DEF SuiteInv
<1>1. SessionInv'
  BY SessionStepInv DEF Session
<1>2. RequestsInv' /\ EntriesInv'
  BY DEF Session, suiteVars, RequestsInv, EntriesInv, command
<1>3. PhaseInv'
  BY DEF Session, suiteVars, PhaseInv, command
<1>4. DirectoryInv'
  BY DirectoryFrame, EarlySummary DEF Session, suiteVars, command
<1> QED
  BY <1>1, <1>2, <1>3, <1>4

-----------------------------------------------------------------------------
(***************************************************************************)
(* The suite directory and its audit.                                      *)
(***************************************************************************)
LEMMA FourInSeq ==
  ASSUME NEW S, NEW a \in S, NEW b \in S, NEW c \in S, NEW d \in S
  PROVE  <<a, b, c, d>> \in Seq(S) /\ Len(<<a, b, c, d>>) = 4
  OBVIOUS

LEMMA FilesGrow ==
  ASSUME DirectoryInv, Len(files) < Len(SuiteFiles),
         files' = Append(files, SuiteFiles[Len(files) + 1])
  PROVE  Len(files') \in 0..4 /\ files' = SubSeq(SuiteFiles, 1, Len(files'))
<1> DEFINE n == Len(files)
           Names == {"summary.json", "manifest.json", "README.md", "SHA256SUMS"}
<1>1. SuiteFiles \in Seq(Names) /\ Len(SuiteFiles) = 4
  <2>1. /\ "summary.json" \in Names /\ "manifest.json" \in Names
        /\ "README.md" \in Names /\ "SHA256SUMS" \in Names
    OBVIOUS
  <2> QED
    BY <2>1, FourInSeq DEF SuiteFiles
<1>2. n \in 0..3 /\ n \in Nat
  BY <1>1 DEF DirectoryInv
<1>3. files \in Seq(Names)
  <2>1. \A i \in 1..n : SuiteFiles[i] \in Names
    BY <1>1, <1>2, ElementOfSeq
  <2>2. SubSeq(SuiteFiles, 1, n) \in Seq(Names)
    BY <1>2, <2>1, SubSeqProperties
  <2> QED
    BY <2>2 DEF DirectoryInv
<1>4. SuiteFiles[n + 1] \in Names
  BY <1>1, <1>2, ElementOfSeq
<1>5. Len(files') = n + 1
  BY <1>3, <1>4, AppendProperties
<1>6. files' = files \o <<SuiteFiles[n + 1]>>
  BY <1>3, <1>4, AppendIsConcat
<1>7. SubSeq(SuiteFiles, 1, n + 1) = SubSeq(SuiteFiles, 1, n) \o <<SuiteFiles[n + 1]>>
  <2>1. 1 \in 1..Len(SuiteFiles) /\ n + 1 \in 1..Len(SuiteFiles) /\ (n + 1) - 1 = n
    BY <1>1, <1>2
  <2> QED
    BY <1>1, <2>1, SubSeqRecursiveSecond
<1>8. files' = SubSeq(SuiteFiles, 1, n + 1)
  BY <1>6, <1>7 DEF DirectoryInv
<1>9. n + 1 \in 0..4
  <2> HIDE DEF n
  <2> QED
    BY <1>2
<1>10. Len(files') \in 0..4
  BY <1>5, <1>9
<1>11. files' = SubSeq(SuiteFiles, 1, Len(files'))
  BY <1>5, <1>8, Zenon
<1> QED
  BY <1>10, <1>11

LEMMA StatusValues ==
  /\ SuiteStatus \in {"COMPLETED", "INCOMPLETE", "ENV_BLOCKED_ENVIRONMENT_MISMATCH"}
  /\ SuiteStatus = "COMPLETED" => EnvironmentConsistent /\ AllPassed
  BY DEF SuiteStatus

LEMMA OpenFileInv == SuiteInv /\ OpenFile => SuiteInv'
<1> SUFFICES ASSUME SuiteInv, OpenFile PROVE SuiteInv'
  OBVIOUS
<1> USE DEF SuiteInv
<1>1. SessionInv'
  BY SameSession DEF OpenFile
<1>2. RequestsInv' /\ EntriesInv'
  BY DEF OpenFile, RequestsInv, EntriesInv, command
<1>3. PhaseInv'
  BY StillFresh DEF OpenFile, PhaseInv, command
<1>4. Len(files') \in 0..4 /\ files' = SubSeq(SuiteFiles, 1, Len(files'))
  BY FilesGrow DEF OpenFile
<1>5. (EnvironmentConsistent <=> EnvironmentConsistent') /\ (AllPassed <=> AllPassed')
  BY DEF OpenFile, EnvironmentConsistent, AllPassed
<1>6. /\ summary' = SuiteStatus /\ writing' \in BOOLEAN /\ audited' = audited
      /\ phase' = "summarise" /\ suite' /\ Len(entries') = Len(requests')
  BY DEF OpenFile, PhaseInv, command
<1>7. audited # "accepted" \/ summary' = "COMPLETED"
  BY <1>5, <1>6, StatusValues DEF DirectoryInv, SuiteStatus
<1> QED
  BY <1>1, <1>2, <1>3, <1>4, <1>5, <1>6, <1>7, StatusValues DEF DirectoryInv

LEMMA FinishFileInv == SuiteInv /\ FinishFile => SuiteInv'
<1> SUFFICES ASSUME SuiteInv, FinishFile PROVE SuiteInv'
  OBVIOUS
<1> USE DEF SuiteInv
<1>1. SessionInv'
  BY SameSession DEF FinishFile
<1>2. RequestsInv' /\ EntriesInv'
  BY DEF FinishFile, RequestsInv, EntriesInv, command
<1>3. PhaseInv'
  BY StillFresh DEF FinishFile, PhaseInv, command
<1>4. DirectoryInv'
  BY DEF FinishFile, DirectoryInv, EnvironmentConsistent, AllPassed, command
<1> QED
  BY <1>1, <1>2, <1>3, <1>4

LEMMA AuditInv == SuiteInv /\ Audit => SuiteInv'
<1> SUFFICES ASSUME SuiteInv, Audit PROVE SuiteInv'
  OBVIOUS
<1> USE DEF SuiteInv
<1>1. SessionInv'
  BY SameSession DEF Audit
<1>2. RequestsInv' /\ EntriesInv'
  BY DEF Audit, RequestsInv, EntriesInv, command
<1>3. PhaseInv'
  BY SameFresh DEF Audit, PhaseInv, Current, Resolves, command, session
<1>4. DirectoryInv'
  BY DEF Audit, Accepted, DirectoryInv, EnvironmentConsistent, AllPassed, command
<1> QED
  BY <1>1, <1>2, <1>3, <1>4

-----------------------------------------------------------------------------
LEMMA SuiteStepInv == SuiteInv /\ [SuiteNext]_allVars => SuiteInv'
<1> SUFFICES ASSUME SuiteInv, [SuiteNext]_allVars PROVE SuiteInv'
  OBVIOUS
<1>1. CASE Main
  <2>1. ASSUME NEW found \in Environments, Launch(found) \/ Blocked(found) \/ Abort(found)
        PROVE  SuiteInv'
    BY <2>1, LaunchInv, BlockedInv, AbortInv
  <2> QED
    BY <1>1, <2>1, RefuseInv, ResolveInv, CollectInv, ArchiveInv, OpenFileInv, FinishFileInv,
       EndSuiteInv DEF Main
<1>2. CASE UNCHANGED allVars
  <2> USE DEF SuiteInv, allVars, suiteVars
  <2>1. SessionInv'
    BY <1>2, SameSession
  <2>2. RequestsInv' /\ EntriesInv'
    BY <1>2 DEF RequestsInv, EntriesInv, command
  <2>3. PhaseInv'
    BY <1>2, SameFresh DEF PhaseInv, Current, Resolves, command, session
  <2>4. DirectoryInv'
    BY <1>2 DEF directory, command, DirectoryInv, EnvironmentConsistent, AllPassed
  <2> QED
    BY <2>1, <2>2, <2>3, <2>4
<1> QED
  BY <1>1, <1>2, SessionInSuiteInv, KilledInv, AuditInv DEF SuiteNext

(* The inductive invariant holds in every behaviour, whatever the checker    *)
(* prints and the environments are, and however many commands a session has. *)
THEOREM Invariance == Spec => []SuiteInv
<1> QED
  BY SuiteInitInv, SuiteStepInv, PTL DEF Spec

(* All the variables of the session and of the suite keep their types, and   *)
(* an outcome that passed has its version of CANN recorded.                  *)
THEOREM SuiteTypeCorrectness == Spec => []SuiteTypeOK
<1>1. SuiteInv => SuiteTypeOK
  <2> SUFFICES ASSUME SuiteInv PROVE SuiteTypeOK
    OBVIOUS
  <2> USE DEF SuiteInv
  <2>1. ASSUME NEW i \in DOMAIN entries
        PROVE  \E report \in Reports, passed, sound \in BOOLEAN :
                 /\ entries[i] = Entry(report, passed, sound)
                 /\ passed => report.cann # "none"
    <3> DEFINE e == entries[i]
               report == [commit |-> e.commit, cann |-> e.cann]
    <3>1. e \in Outcomes /\ Trusted(e)
      BY LenProperties, ElementOfSeq DEF EntriesInv
    <3>2. report \in Reports /\ e.passed \in BOOLEAN /\ e.sound \in BOOLEAN
      BY <3>1 DEF Outcomes, Reports
    <3>3. e = Entry(report, e.passed, e.sound)
      BY <3>1 DEF Outcomes, Entry
    <3>4. e.passed => report.cann # "none"
      BY <3>1 DEF Trusted, Versions
    <3> QED
      BY <3>2, <3>3, <3>4
  <2> QED
    BY <2>1 DEF SuiteTypeOK, SessionInv, RequestsInv, EntriesInv, PhaseInv, DirectoryInv
<1> QED
  BY <1>1, Invariance, PTL

(* A session is reported as passed only when every one of its commands ran   *)
(* and succeeded, in order, it was never signalled, and nothing it started   *)
(* was left behind under a name that the audit sees.                         *)
THEOREM PassesAreGenuine == Spec => []PassIsGenuine
<1>1. SuiteInv => PassIsGenuine
  BY DEF SuiteInv, SessionInv
<1> QED
  BY <1>1, Invariance, PTL

(* A suite that the audit accepts is three sessions, all run to the end with *)
(* every command succeeding, in one and the same environment.                *)
THEOREM AuditsAreGenuine == Spec => []AuditedIsGenuine
<1>1. SuiteInv => AuditedIsGenuine
  <2> SUFFICES ASSUME SuiteInv, audited = "accepted"
               PROVE  /\ Len(entries) = Len(G2E)
                      /\ \E version \in Versions : \A i \in DOMAIN entries :
                           entries[i] = Entry([commit |-> "frozen", cann |-> version],
                                              TRUE, TRUE)
    BY DEF AuditedIsGenuine
  <2> USE DEF SuiteInv
  <2>1. EnvironmentConsistent /\ AllPassed /\ suite /\ Len(entries) = Len(requests)
    BY DEF DirectoryInv
  <2>2. Len(G2E) = 3 /\ requests = G2E
    BY <2>1 DEF RequestsInv, G2E
  <2>3. DOMAIN entries = 1..3
    BY <2>1, <2>2, LenProperties DEF EntriesInv
  <2>4. ASSUME NEW i \in DOMAIN entries
        PROVE  /\ entries[i] = Entry([commit |-> "frozen", cann |-> entries[1].cann],
                                     TRUE, TRUE)
               /\ entries[i].cann \in Versions
    <3>1. entries[i] \in Outcomes /\ Trusted(entries[i]) /\ entries[i].passed
      BY <2>1, LenProperties, ElementOfSeq DEF EntriesInv, AllPassed
    <3>2. entries[i].cann = entries[1].cann
      BY <2>1, <2>3 DEF EnvironmentConsistent
    <3>3. /\ entries[i].passed = TRUE /\ entries[i].sound = TRUE
          /\ entries[i].commit = "frozen" /\ entries[i].cann \in Versions
      BY <3>1 DEF Trusted, Outcomes
    <3> QED
      BY <3>1, <3>2, <3>3 DEF Outcomes, Entry
  <2>5. entries[1].cann \in Versions
    BY <2>3, <2>4
  <2> QED
    BY <2>1, <2>2, <2>4, <2>5
<1> QED
  BY <1>1, Invariance, PTL

LEMMA SuiteStepFollows == SuiteInv /\ [SuiteNext]_allVars => [CommandsFollowSuccess]_vars
<1> SUFFICES ASSUME SuiteInv, SuiteNext, vars' # vars PROVE CommandsFollowSuccess
  BY DEF allVars, session, vars
<1>1. CASE Session
  BY <1>1, SessionStepFollows DEF SuiteInv, Session
<1>2. CASE Renew
  <2>1. Len(<<>>) = 0 /\ Len(stdin) \in Nat
    BY EmptySeq, LenProperties DEF SuiteInv, SessionInv, TypeOK
  <2> QED
    BY <1>2, <2>1 DEF Renew, CommandsFollowSuccess
<1>3. CASE \E found \in Environments : Launch(found)
  <2>1. stdin' = stdin /\ Len(stdin) \in Nat
    BY <1>3, LenProperties DEF Launch, shell, SuiteInv, SessionInv, TypeOK
  <2> QED
    BY <2>1 DEF CommandsFollowSuccess
<1> QED
  BY <1>1, <1>2, <1>3 DEF SuiteNext, Main, Refuse, Resolve, Blocked, Abort, Collect, Archive,
     OpenFile, FinishFile, EndSuite, Killed, Audit, session, vars

(* A command is only written to the shell when all before it have run and    *)
(* succeeded, in every session of every suite.                               *)
THEOREM CommandsStopAtFailure == Spec => NoCommandAfterFailure
<1> QED
  BY SuiteStepFollows, Invariance, PTL
     DEF Spec, NoCommandAfterFailure, CommandsFollowSuccess
=============================================================================
