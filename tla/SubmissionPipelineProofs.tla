----------------------- MODULE SubmissionPipelineProofs -----------------------
(***************************************************************************)
(* Theorems about SubmissionPipeline, for any number of revisions, any     *)
(* histories of them, and any number of commands and of breaks: a full run *)
(* that passed is one revision, sealed evidence is backed by such a run,   *)
(* and the tool locks itself out in one way only.                          *)
(***************************************************************************)
EXTENDS SubmissionPipeline, SequenceTheorems, TLAPS

(***************************************************************************)
(* Where a command is: the steps ahead are those of its plan from Place.   *)
(***************************************************************************)
Ahead(cmd, k) == SubSeq(Plans[cmd], k, Len(Plans[cmd]))
Place == Len(Plans[job.cmd]) - Len(job.todo) + 1
Placed ==
  /\ job = [cmd |-> job.cmd, todo |-> job.todo, from |-> job.from,
            a |-> job.a, b |-> job.b, q |-> job.q]
  /\ {job.from, job.a, job.b, job.q} \subseteq Revs \cup {0}
  /\ job.cmd = "none" => job = Idle
  /\ job.cmd # "none" =>
       /\ job.cmd \in DOMAIN Plans
       /\ Place \in 1..Len(Plans[job.cmd]) /\ job.todo = Ahead(job.cmd, Place)

(* The places within the quick run and the staging, which full contains. *)
QuickAt == IF job.cmd = "full" THEN Place - 10 ELSE IF job.cmd = "quick" THEN Place ELSE 0
StageAt == IF job.cmd = "full" THEN Place - 17 ELSE IF job.cmd = "stage" THEN Place ELSE 0

(***************************************************************************)
(* What a full run has read is a revision between the one it began at and  *)
(* the one now in the working tree ...                                     *)
(***************************************************************************)
Installed(d) == dirs[d].tree.files["plugin"]
Read(r) == r \in job.from..head
ReadInv ==
  job.cmd = "full" =>
    /\ job.from \in 1..head
    /\ Place >= 5 => Read(Installed("build-a"))
    /\ Place >= 6 => Read(job.a)
    /\ Place >= 8 => Read(Installed("build-b"))
    /\ Place >= 9 => Read(job.b)
    /\ Place >= 10 => source[job.a].abi = source[job.b].abi
    /\ Place >= 14 => Read(Installed("quick"))
    /\ Place >= 15 => Read(job.q)
    /\ Place >= 20 => Read(Stage.files["source"])
    /\ Place >= 21 => Read(Stage.files["plugin"])

(* ... and if those two are the same, it passed all the checks so far. *)
HealthInv ==
  job.cmd = "full" /\ job.from = head =>
    /\ Place >= 2 => Healthy(head, {"environment"})
    /\ Place >= 5 => Healthy(head, {"ctest"})
    /\ Place >= 6 => Healthy(head, {"abi"})
    /\ Place >= 11 => Healthy(head, FullChecks)
    /\ Place >= 16 => Healthy(head, QuickChecks)
    /\ Place >= 18 => Healthy(head, FinalChecks \ Skippable)
    /\ Place >= 22 => Healthy(head, {"scan"})

(* A directory a command has cleaned is marked, and the stage it fills     *)
(* holds nothing of the user's.                                            *)
MarkInv ==
  /\ job.cmd = "full" /\ Place >= 4 => dirs["build-a"].mark
  /\ job.cmd = "full" /\ Place >= 7 => dirs["build-b"].mark
  /\ QuickAt >= 3 => dirs["quick"].mark
  /\ StageAt >= 2 => dirs["stage"].mark /\ \A p \in Paths : Stage.files[p] # Foreign

SealInv ==
  job.cmd = "evidence" /\ Place >= 2 => results.full # NoFull /\ StageVerifies(Stage)

JobInv == Placed /\ ReadInv /\ HealthInv /\ MarkInv /\ SealInv

(* What the user puts in the way is no plugin, and no checksum is of it. *)
TreeInv ==
  /\ \A d \in BuildDirs : Installed(d) # Foreign
  /\ \A p \in Paths : Stage.sums.files[p] # Foreign

Data ==
  /\ head \in Revs /\ source \in Sources
  /\ dirs \in [Dirs -> [mark : BOOLEAN, tree : Tree!Trees]]
  /\ results = [quick |-> results.quick, full |-> results.full,
                progress |-> results.progress, error |-> results.error]
  /\ results.quick \in Revs \cup {0} /\ results.progress \in {"none", "running", "pass"}
  /\ {results.full.a, results.full.b, results.full.source, results.full.plugin}
       \subseteq Revs \cup {0}
  /\ evidence.state \in {"none", "part", "sealed"}
  /\ commands \in 0..MaxCommands /\ breaks \in 0..MaxBreaks

Claims == FullIsOneRevision /\ EvidenceBacked /\ LockedOutOnlyByBrokenRemoval

IInv == Data /\ JobInv /\ TreeInv /\ Claims

-----------------------------------------------------------------------------
(***************************************************************************)
(* The plans.                                                              *)
(***************************************************************************)
LEMMA FullSteps ==
  /\ Len(FullPlan) = 25
  /\ FullPlan[1] = Check({"environment"}) /\ FullPlan[2] = On("save", "progress")
  /\ FullPlan[3] = On("clean", "build-a") /\ FullPlan[4] = On("compile", "build-a")
  /\ FullPlan[5] = On("audit", "build-a") /\ FullPlan[6] = On("clean", "build-b")
  /\ FullPlan[7] = On("compile", "build-b") /\ FullPlan[8] = On("audit", "build-b")
  /\ FullPlan[9] = On("compare", "builds") /\ FullPlan[10] = Check(FullChecks)
  /\ FullPlan[11] = Check({"environment"}) /\ FullPlan[12] = On("clean", "quick")
  /\ FullPlan[13] = On("compile", "quick") /\ FullPlan[14] = On("audit", "quick")
  /\ FullPlan[15] = Check(QuickChecks) /\ FullPlan[16] = On("save", "quick")
  /\ FullPlan[17] = Check(FinalChecks)
  /\ FullPlan[18] = On("clean", "stage") /\ FullPlan[19] = On("copy", "stage")
  /\ FullPlan[20] = On("plugin", "stage") /\ FullPlan[21] = On("policy", "stage")
  /\ FullPlan[22] = On("manifest", "stage") /\ FullPlan[23] = On("sums", "stage")
  /\ FullPlan[24] = On("verify", "stage") /\ FullPlan[25] = On("save", "full")
  BY DEF FullPlan, BuildsPlan, BuildPlan, QuickPlan, StageAndSave, StagePlan

LEMMA QuickSteps ==
  /\ Len(QuickPlan) = 6
  /\ QuickPlan[1] = Check({"environment"}) /\ QuickPlan[2] = On("clean", "quick")
  /\ QuickPlan[3] = On("compile", "quick") /\ QuickPlan[4] = On("audit", "quick")
  /\ QuickPlan[5] = Check(QuickChecks) /\ QuickPlan[6] = On("save", "quick")
  BY DEF QuickPlan, BuildPlan

LEMMA StageSteps ==
  /\ Len(StagePlan) = 6
  /\ StagePlan[1] = On("clean", "stage") /\ StagePlan[2] = On("copy", "stage")
  /\ StagePlan[3] = On("plugin", "stage") /\ StagePlan[4] = On("policy", "stage")
  /\ StagePlan[5] = On("manifest", "stage") /\ StagePlan[6] = On("sums", "stage")
  BY DEF StagePlan

LEMMA EvidenceSteps ==
  /\ Len(EvidencePlan) = 3
  /\ EvidencePlan[1] = On("accept", "evidence") /\ EvidencePlan[2] = On("clean", "temp")
  /\ EvidencePlan[3] = On("seal", "evidence")
  BY DEF EvidencePlan

LEMMA CleanSteps ==
  /\ Len(Plans["clean"]) = 4
  /\ Plans["clean"][1] = On("remove", "build-a") /\ Plans["clean"][2] = On("remove", "build-b")
  /\ Plans["clean"][3] = On("remove", "quick") /\ Plans["clean"][4] = On("remove", "stage")
  BY DEF Plans

Elements(s) == {s[i] : i \in 1..Len(s)}

LEMMA PlansAreSequences ==
  /\ FullPlan \in Seq(Elements(FullPlan)) /\ QuickPlan \in Seq(Elements(QuickPlan))
  /\ StagePlan \in Seq(Elements(StagePlan)) /\ EvidencePlan \in Seq(Elements(EvidencePlan))
  /\ Plans["clean"] \in Seq(Elements(Plans["clean"]))
<1>1. ASSUME NEW s, s = FullPlan PROVE s \in Seq(Elements(s))
  BY <1>1 DEF FullPlan, BuildsPlan, BuildPlan, QuickPlan, StageAndSave, StagePlan, Elements
<1>2. ASSUME NEW s, s = QuickPlan PROVE s \in Seq(Elements(s))
  BY <1>2 DEF BuildPlan, QuickPlan, Elements
<1>3. ASSUME NEW s, s \in {StagePlan, EvidencePlan, Plans["clean"]} PROVE s \in Seq(Elements(s))
  BY <1>3 DEF StagePlan, EvidencePlan, Plans, Elements
<1> QED
  BY <1>1, <1>2, <1>3

LEMMA PlanFacts ==
  /\ DOMAIN Plans = {"quick", "full", "stage", "evidence", "clean"}
  /\ Plans["quick"] = QuickPlan /\ Plans["full"] = FullPlan /\ Plans["stage"] = StagePlan
  /\ Plans["evidence"] = EvidencePlan
  /\ \A cmd \in DOMAIN Plans : Len(Plans[cmd]) \in Nat \ {0} /\ Plans[cmd] \in Seq(Elements(Plans[cmd]))
<1>1. /\ DOMAIN Plans = {"quick", "full", "stage", "evidence", "clean"}
      /\ Plans["quick"] = QuickPlan /\ Plans["full"] = FullPlan /\ Plans["stage"] = StagePlan
      /\ Plans["evidence"] = EvidencePlan
  BY DEF Plans
<1>2. {3, 4, 6, 25} \subseteq Nat \ {0}
  OBVIOUS
<1>3. ASSUME NEW cmd \in DOMAIN Plans
      PROVE  Len(Plans[cmd]) \in {3, 4, 6, 25} /\ Plans[cmd] \in Seq(Elements(Plans[cmd]))
  BY <1>1, FullSteps, QuickSteps, StageSteps, EvidenceSteps, CleanSteps, PlansAreSequences
<1> QED
  BY <1>1, <1>2, <1>3

LEMMA SuffixFacts ==
  ASSUME NEW cmd \in DOMAIN Plans, NEW k \in 1..Len(Plans[cmd])
  PROVE  /\ Ahead(cmd, k) # <<>> /\ Head(Ahead(cmd, k)) = Plans[cmd][k]
         /\ Len(Ahead(cmd, k)) = Len(Plans[cmd]) - k + 1
         /\ Tail(Ahead(cmd, k)) = Ahead(cmd, k + 1)
         /\ Ahead(cmd, 1) = Plans[cmd]
<1> DEFINE s == Plans[cmd]
<1>1. s \in Seq(Elements(s)) /\ Len(s) \in Nat
  BY PlanFacts
<1> HIDE DEF s
<1>2. ASSUME NEW j \in 1..Len(s)
      PROVE  /\ Head(SubSeq(s, j, Len(s))) = s[j]
             /\ Tail(SubSeq(s, j, Len(s))) = SubSeq(s, j + 1, Len(s))
             /\ Len(SubSeq(s, j, Len(s))) = Len(s) - j + 1
  <2>1. j \in Int /\ Len(s) \in Int /\ j <= Len(s) /\ Len(s) \in j..Len(s)
    BY <1>1
  <2>2. \A i \in j..Len(s) : s[i] \in Elements(s)
    BY <1>1, <2>1
  <2>3. Len(SubSeq(s, j, Len(s))) = Len(s) - j + 1
    BY <2>1, <2>2, SubSeqProperties
  <2> QED
    BY <1>1, <2>1, <2>3, HeadTailOfSubSeq
<1>3. SubSeq(s, 1, Len(s)) = s
  BY <1>1, SubSeqFull
<1>4. SubSeq(s, k, Len(s)) # <<>>
  <2>1. Len(SubSeq(s, k, Len(s))) # 0
    BY <1>1, <1>2 DEF s
  <2> QED
    BY <2>1, EmptySeq
<1> QED
  BY <1>2, <1>3, <1>4 DEF Ahead, s
-----------------------------------------------------------------------------
(***************************************************************************)
(* The place of a command, and which step it is.                           *)
(***************************************************************************)
LEMMA AtPlace ==
  ASSUME Placed, job.cmd # "none"
  PROVE  /\ job.cmd \in {"quick", "full", "stage", "evidence", "clean"}
         /\ Place \in 1..Len(Plans[job.cmd]) /\ Place \in Nat
         /\ job.todo # <<>> /\ Head(job.todo) = Plans[job.cmd][Place]
         /\ Len(job.todo) = 1 <=> Place = Len(Plans[job.cmd])
<1>1. /\ job.cmd \in DOMAIN Plans /\ Place \in 1..Len(Plans[job.cmd])
      /\ job.todo = Ahead(job.cmd, Place)
  BY DEF Placed
<1>2. Len(Plans[job.cmd]) \in Nat
  BY <1>1, PlanFacts
<1>3. Len(job.todo) = Len(Plans[job.cmd]) - Place + 1
  BY <1>1, SuffixFacts
<1>4. job.todo # <<>> /\ Head(job.todo) = Plans[job.cmd][Place]
  BY <1>1, SuffixFacts
<1>5. Place \in Nat /\ (Len(job.todo) = 1 <=> Place = Len(Plans[job.cmd]))
  BY <1>1, <1>2, <1>3
<1> QED
  BY <1>1, <1>4, <1>5, PlanFacts

LEMMA FullPlace ==
  ASSUME Placed, job.cmd = "full"
  PROVE  /\ Place \in 1..25 /\ Head(job.todo) = FullPlan[Place]
         /\ Len(job.todo) = 1 <=> Place = 25
  BY AtPlace, PlanFacts, FullSteps

LEMMA QuickPlace ==
  ASSUME Placed, job.cmd = "quick"
  PROVE  Place \in 1..6 /\ Head(job.todo) = QuickPlan[Place] /\ (Len(job.todo) = 1 <=> Place = 6)
  BY AtPlace, PlanFacts, QuickSteps

LEMMA StagePlace ==
  ASSUME Placed, job.cmd = "stage"
  PROVE  Place \in 1..6 /\ Head(job.todo) = StagePlan[Place] /\ (Len(job.todo) = 1 <=> Place = 6)
  BY AtPlace, PlanFacts, StageSteps

LEMMA EvidencePlace ==
  ASSUME Placed, job.cmd = "evidence"
  PROVE  /\ Place \in 1..3 /\ Head(job.todo) = EvidencePlan[Place]
         /\ Len(job.todo) = 1 <=> Place = 3
  BY AtPlace, PlanFacts, EvidenceSteps

LEMMA CleanPlace ==
  ASSUME Placed, job.cmd = "clean"
  PROVE  /\ Place \in 1..4 /\ Head(job.todo) = Plans["clean"][Place]
         /\ Len(job.todo) = 1 <=> Place = 4
  BY AtPlace, CleanSteps

LEMMA ItemFacts ==
  /\ \A op, d : On(op, d).op = op /\ On(op, d).on = d
  /\ \A names : Check(names).op = "check" /\ Check(names).on = names
  BY DEF On, Check

(* Which steps each operation can be. *)
EnvironmentCheck == {"environment"}

LEMMA FullAt ==
  ASSUME Placed, job.cmd = "full"
  PROVE  /\ Step("clean") =>
              \/ Place = 3 /\ Target = "build-a"
              \/ Place = 6 /\ Target = "build-b"
              \/ Place = 12 /\ Target = "quick"
              \/ Place = 18 /\ Target = "stage"
         /\ Step("compile") =>
              \/ Place = 4 /\ Target = "build-a"
              \/ Place = 7 /\ Target = "build-b"
              \/ Place = 13 /\ Target = "quick"
         /\ Step("audit") =>
              \/ Place = 5 /\ Target = "build-a"
              \/ Place = 8 /\ Target = "build-b"
              \/ Place = 14 /\ Target = "quick"
         /\ Step("compare") => Place = 9
         /\ Step("check") =>
              \/ Place = 1 /\ Target = EnvironmentCheck
              \/ Place = 10 /\ Target = FullChecks
              \/ Place = 11 /\ Target = EnvironmentCheck
              \/ Place = 15 /\ Target = QuickChecks
              \/ Place = 17 /\ Target = FinalChecks
         /\ Step("copy") => Place = 19
         /\ Step("plugin") => Place = 20
         /\ Step("policy") => Place = 21
         /\ Step("manifest") => Place = 22
         /\ Step("sums") => Place = 23
         /\ Step("verify") => Place = 24
         /\ Step("save") =>
              \/ Place = 2 /\ Target = "progress"
              \/ Place = 16 /\ Target = "quick"
              \/ Place = 25 /\ Target = "full"
         /\ ~Step("remove") /\ ~Step("accept") /\ ~Step("seal")
<1> DEFINE h == Head(job.todo)
           k == Place
<1>1. k \in 1..25 /\ h = FullPlan[k]
  BY FullPlace
<1>2. \A op : Step(op) => h.op = op
  BY DEF Step
<1>3. Target = h.on
  BY DEF Target
<1> HIDE DEF h, k
<1>4. CASE k \in 1..9
  <2>1. \/ k = 1 /\ h.op = "check" /\ h.on = EnvironmentCheck
        \/ k = 2 /\ h.op = "save" /\ h.on = "progress"
        \/ k = 3 /\ h.op = "clean" /\ h.on = "build-a"
        \/ k = 4 /\ h.op = "compile" /\ h.on = "build-a"
        \/ k = 5 /\ h.op = "audit" /\ h.on = "build-a"
        \/ k = 6 /\ h.op = "clean" /\ h.on = "build-b"
        \/ k = 7 /\ h.op = "compile" /\ h.on = "build-b"
        \/ k = 8 /\ h.op = "audit" /\ h.on = "build-b"
        \/ k = 9 /\ h.op = "compare" /\ h.on = "builds"
    <3>1. \/ k = 1 \/ k = 2 \/ k = 3 \/ k = 4 \/ k = 5 \/ k = 6 \/ k = 7 \/ k = 8 \/ k = 9
      BY <1>4
    <3> QED
      BY <1>1, <3>1, FullSteps, ItemFacts DEF EnvironmentCheck
  <2> QED
    BY <1>2, <1>3, <2>1 DEF k
<1>5. CASE k \in 10..17
  <2>1. \/ k = 10 /\ h.op = "check" /\ h.on = FullChecks
        \/ k = 11 /\ h.op = "check" /\ h.on = EnvironmentCheck
        \/ k = 12 /\ h.op = "clean" /\ h.on = "quick"
        \/ k = 13 /\ h.op = "compile" /\ h.on = "quick"
        \/ k = 14 /\ h.op = "audit" /\ h.on = "quick"
        \/ k = 15 /\ h.op = "check" /\ h.on = QuickChecks
        \/ k = 16 /\ h.op = "save" /\ h.on = "quick"
        \/ k = 17 /\ h.op = "check" /\ h.on = FinalChecks
    <3>1. \/ k = 10 \/ k = 11 \/ k = 12 \/ k = 13 \/ k = 14 \/ k = 15 \/ k = 16 \/ k = 17
      BY <1>5
    <3> QED
      BY <1>1, <3>1, FullSteps, ItemFacts DEF EnvironmentCheck
  <2> QED
    BY <1>2, <1>3, <2>1 DEF k
<1>6. CASE k \in 18..25
  <2>1. \/ k = 18 /\ h.op = "clean" /\ h.on = "stage"
        \/ k = 19 /\ h.op = "copy" /\ h.on = "stage"
        \/ k = 20 /\ h.op = "plugin" /\ h.on = "stage"
        \/ k = 21 /\ h.op = "policy" /\ h.on = "stage"
        \/ k = 22 /\ h.op = "manifest" /\ h.on = "stage"
        \/ k = 23 /\ h.op = "sums" /\ h.on = "stage"
        \/ k = 24 /\ h.op = "verify" /\ h.on = "stage"
        \/ k = 25 /\ h.op = "save" /\ h.on = "full"
    <3>1. \/ k = 18 \/ k = 19 \/ k = 20 \/ k = 21 \/ k = 22 \/ k = 23 \/ k = 24 \/ k = 25
      BY <1>6
    <3> QED
      BY <1>1, <3>1, FullSteps, ItemFacts DEF EnvironmentCheck
  <2> QED
    BY <1>2, <1>3, <2>1 DEF k
<1> QED
  BY <1>1, <1>4, <1>5, <1>6

LEMMA QuickStepsAt ==
  ASSUME Placed, job.cmd = "quick"
  PROVE  /\ Step("clean") => Place = 2 /\ Target = "quick"
         /\ Step("compile") => Place = 3 /\ Target = "quick"
         /\ Step("audit") => Place = 4 /\ Target = "quick"
         /\ Step("check") => Place = 1 \/ Place = 5
         /\ Step("save") => Place = 6 /\ Target = "quick"
         /\ \A op \in {"remove", "compare", "copy", "plugin", "policy", "manifest", "sums",
                       "verify", "accept", "seal"} : ~Step(op)
  BY QuickPlace, QuickSteps, ItemFacts DEF Step, Target

LEMMA StageStepsAt ==
  ASSUME Placed, job.cmd = "stage"
  PROVE  /\ Step("clean") => Place = 1 /\ Target = "stage"
         /\ Step("copy") => Place = 2
         /\ Step("plugin") => Place = 3
         /\ Step("policy") => Place = 4
         /\ Step("manifest") => Place = 5
         /\ Step("sums") => Place = 6
         /\ \A op \in {"remove", "compile", "audit", "compare", "check", "verify", "save",
                       "accept", "seal"} : ~Step(op)
  BY StagePlace, StageSteps, ItemFacts DEF Step, Target

LEMMA EvidenceAt ==
  ASSUME Placed, job.cmd = "evidence"
  PROVE  /\ Step("accept") => Place = 1
         /\ Step("clean") => Place = 2 /\ Target = "temp"
         /\ Step("seal") => Place = 3
         /\ \A op \in {"remove", "compile", "audit", "compare", "check", "copy", "plugin",
                       "policy", "manifest", "sums", "verify", "save"} : ~Step(op)
  BY EvidencePlace, EvidenceSteps, ItemFacts DEF Step, Target

LEMMA CleanAt ==
  ASSUME Placed, job.cmd = "clean"
  PROVE  /\ \A op \in {"clean", "compile", "audit", "compare", "check", "copy", "plugin",
                       "policy", "manifest", "sums", "verify", "save", "accept", "seal"} :
              ~Step(op)
         /\ Step("remove") => Target \in BuildDirs \cup {"stage"}
  BY CleanPlace, CleanSteps, ItemFacts DEF Step, Target, BuildDirs

LEMMA CommandFacts ==
  ASSUME Placed
  PROVE  job.cmd \in {"none", "quick", "full", "stage", "evidence", "clean"}
  BY AtPlace

-----------------------------------------------------------------------------
(***************************************************************************)
(* A command goes to its next step, or is over after its last.             *)
(***************************************************************************)
LastPlace == Place = Len(Plans[job.cmd])

LEMMA LastPlaces ==
  ASSUME Placed
  PROVE  /\ job.cmd = "full" => (LastPlace <=> Place = 25)
         /\ job.cmd = "quick" => (LastPlace <=> Place = 6)
         /\ job.cmd = "stage" => (LastPlace <=> Place = 6)
         /\ job.cmd = "evidence" => (LastPlace <=> Place = 3)
<1>1. job.cmd # "none" => (Len(job.todo) = 1 <=> LastPlace)
  BY AtPlace DEF LastPlace
<1> QED
  BY <1>1, FullPlace, QuickPlace, StagePlace, EvidencePlace

LEMMA RestFacts ==
  ASSUME Placed, job.cmd # "none"
  PROVE  /\ LastPlace => Rest = Idle
         /\ ~LastPlace => Rest = [cmd |-> job.cmd, todo |-> Ahead(job.cmd, Place + 1),
                                  from |-> job.from, a |-> job.a, b |-> job.b, q |-> job.q]
<1>1. job.cmd \in DOMAIN Plans /\ Place \in 1..Len(Plans[job.cmd]) /\ job.todo = Ahead(job.cmd, Place)
  BY DEF Placed
<1>2. Tail(job.todo) = Ahead(job.cmd, Place + 1)
  BY <1>1, SuffixFacts
<1> QED
  BY <1>2, AtPlace DEF Placed, Rest, LastPlace

(* The command a step further on; an audit remembers what it found. *)
LEMMA Moved ==
  ASSUME Placed, job.cmd # "none", ~LastPlace,
         NEW a \in Revs \cup {0}, NEW b \in Revs \cup {0}, NEW q \in Revs \cup {0},
         job' = [cmd |-> job.cmd, todo |-> Ahead(job.cmd, Place + 1),
                 from |-> job.from, a |-> a, b |-> b, q |-> q]
  PROVE  Placed' /\ Place' = Place + 1
<1>1. job.cmd \in DOMAIN Plans /\ Place \in 1..Len(Plans[job.cmd])
  BY DEF Placed
<1>2. Len(Plans[job.cmd]) \in Nat
  BY <1>1, PlanFacts
<1> DEFINE n == Len(Plans[job.cmd])
           k == Place + 1
<1>3. k \in 1..n
  BY <1>1, <1>2 DEF LastPlace
<1>4. Len(Ahead(job.cmd, k)) = n - k + 1
  <2> HIDE DEF k
  <2> QED
    BY <1>1, <1>3, SuffixFacts
<1>5. Place' = n - (n - k + 1) + 1
  BY <1>4 DEF Place
<1>6. n - (n - k + 1) + 1 = k
  <2> HIDE DEF n, k
  <2> QED
    BY <1>2, <1>3 DEF n
<1>7. Place' = k
  BY <1>5, <1>6
<1>8. job'.cmd = job.cmd /\ job'.todo = Ahead(job.cmd, k)
  OBVIOUS
<1> HIDE DEF k
<1>9. Place' \in 1..Len(Plans[job'.cmd]) /\ job'.todo = Ahead(job'.cmd, Place')
  BY <1>3, <1>7, <1>8
<1> QED
  BY <1>1, <1>7, <1>8, <1>9 DEF Placed, k
-----------------------------------------------------------------------------
(***************************************************************************)
(* What every step has to keep.                                            *)
(***************************************************************************)
LEMMA RevFacts ==
  /\ MaxRev \in Nat \ {0} /\ MaxCommands \in Nat /\ MaxBreaks \in Nat
  /\ Foreign \in Nat /\ Foreign \notin Revs \cup {0} /\ 1 \in Revs
  /\ Revs \cup {0} = (0..Foreign) \ {Foreign} /\ (1..Foreign) \cup {0} = 0..Foreign
  /\ \A n \in Revs : n \in Nat /\ 1..n \subseteq Revs
<1>1. MaxRev \in Nat \ {0} /\ MaxCommands \in Nat /\ MaxBreaks \in Nat
  BY PipelineAssumption
<1> QED
  BY <1>1 DEF Foreign, Revs

LEMMA IdleFacts == Idle.cmd = "none" /\ Idle.todo = <<>> /\ Idle.from = 0
  BY DEF Idle

LEMMA JobEnds == ASSUME job' = Idle PROVE JobInv'
<1>1. Placed'
  BY IdleFacts DEF Placed, Idle
<1>2. QuickAt' = 0 /\ StageAt' = 0
  BY IdleFacts DEF QuickAt, StageAt
<1>3. MarkInv'
  BY <1>2, IdleFacts DEF MarkInv
<1> QED
  BY <1>1, <1>3, IdleFacts DEF JobInv, ReadInv, HealthInv, SealInv

(* A step that is over either ends its command or goes on with it. *)
LEMMA Advances ==
  ASSUME Placed, job.cmd # "none", job' = Rest
  PROVE  \/ job' = Idle
         \/ /\ Placed' /\ Place' = Place + 1 /\ Place \in Nat
            /\ job'.cmd = job.cmd /\ job'.from = job.from
            /\ job'.a = job.a /\ job'.b = job.b /\ job'.q = job.q
            /\ QuickAt' = QuickAt + (IF job.cmd \in {"full", "quick"} THEN 1 ELSE 0)
            /\ StageAt' = StageAt + (IF job.cmd \in {"full", "stage"} THEN 1 ELSE 0)
<1> SUFFICES ASSUME ~LastPlace
             PROVE  /\ Placed' /\ Place' = Place + 1 /\ Place \in Nat
                    /\ job'.cmd = job.cmd /\ job'.from = job.from
                    /\ job'.a = job.a /\ job'.b = job.b /\ job'.q = job.q
                    /\ QuickAt' = QuickAt + (IF job.cmd \in {"full", "quick"} THEN 1 ELSE 0)
                    /\ StageAt' = StageAt + (IF job.cmd \in {"full", "stage"} THEN 1 ELSE 0)
  BY RestFacts
<1>1. job' = [cmd |-> job.cmd, todo |-> Ahead(job.cmd, Place + 1), from |-> job.from,
              a |-> job.a, b |-> job.b, q |-> job.q]
  BY RestFacts
<1>2. /\ job.a \in Revs \cup {0} /\ job.b \in Revs \cup {0} /\ job.q \in Revs \cup {0}
  BY DEF Placed
<1>3. Placed' /\ Place' = Place + 1
  BY <1>1, <1>2, Moved
<1>4. Place \in Nat
  BY AtPlace
<1>5. job'.cmd = job.cmd /\ job'.from = job.from /\ job'.a = job.a /\ job'.b = job.b /\ job'.q = job.q
  BY <1>1
<1>6. /\ QuickAt' = QuickAt + (IF job.cmd \in {"full", "quick"} THEN 1 ELSE 0)
      /\ StageAt' = StageAt + (IF job.cmd \in {"full", "stage"} THEN 1 ELSE 0)
  BY <1>3, <1>4, <1>5 DEF QuickAt, StageAt
<1> QED
  BY <1>3, <1>4, <1>5, <1>6

LEMMA TypeParts == Data /\ Placed => TypeOK
<1> SUFFICES ASSUME Data, Placed PROVE TypeOK
  OBVIOUS
<1>1. job # Idle => job.cmd # "none"
  BY DEF Placed
<1>2. job # Idle => job.todo # <<>>
  BY <1>1, AtPlace
<1> QED
  BY <1>2 DEF Data, Placed, TypeOK

(* The claims and the trees, when a step leaves what they speak of alone.  *)
LEMMA SameClaims ==
  ASSUME Claims, UNCHANGED <<source, dirs, results, evidence>>,
         breaks \in Nat, breaks' \in Nat, breaks <= breaks'
  PROVE  Claims'
<1>1. FullIsOneRevision' /\ EvidenceBacked'
  BY DEF Claims, FullIsOneRevision, EvidenceBacked, Sound, Healthy, ScanHolds, AbiHolds
<1>2. LockedOutOnlyByBrokenRemoval'
  BY DEF Claims, LockedOutOnlyByBrokenRemoval
<1> QED
  BY <1>1, <1>2 DEF Claims

LEMMA SameTrees == TreeInv /\ UNCHANGED dirs => TreeInv'
  BY DEF TreeInv, Installed, Stage

LEMMA CommitInv == IInv /\ Commit => IInv'
<1> SUFFICES ASSUME IInv, Commit PROVE IInv'
  OBVIOUS
<1> USE DEF IInv
<1>1. /\ UNCHANGED <<source, dirs, results, evidence, job, commands, breaks>>
      /\ head' = head + 1 /\ head < MaxRev
  BY DEF Commit
<1>2. head \in Nat /\ head' \in Revs /\ 1..head \subseteq 1..head'
  BY <1>1, RevFacts DEF Data, Revs
<1>3. Place' = Place /\ QuickAt' = QuickAt /\ StageAt' = StageAt
  BY <1>1 DEF Place, QuickAt, StageAt
<1>4. ReadInv'
  <2>1. \A r : job.from \in 1..head /\ Read(r) => Read(r)'
    BY <1>1, <1>2 DEF Read
  <2>2. \A d : Installed(d)' = Installed(d)
    BY <1>1 DEF Installed
  <2> QED
    BY <1>1, <1>2, <1>3, <2>1, <2>2 DEF JobInv, ReadInv, Stage
<1>5. HealthInv'
  <2>1. job.cmd = "full" => job'.from # head'
    BY <1>1, <1>2 DEF JobInv, ReadInv
  <2> QED
    BY <1>1, <2>1 DEF HealthInv
<1>6. Placed' /\ MarkInv' /\ SealInv'
  BY <1>1, <1>3 DEF JobInv, Placed, MarkInv, SealInv, Stage, StageVerifies, PolicyHolds,
     ScanHolds, AbiHolds, Healthy
<1>7. Data'
  BY <1>1, <1>2 DEF Data
<1>8. breaks \in Nat /\ breaks' = breaks
  BY <1>1, RevFacts DEF Data
<1>9. Claims' /\ TreeInv'
  BY <1>1, <1>8, SameClaims, SameTrees
<1> QED
  BY <1>4, <1>5, <1>6, <1>7, <1>9 DEF JobInv

LEMMA FailInv == ASSUME IInv, NEW reported \in BOOLEAN, Fail(reported) PROVE IInv'
<1> USE DEF IInv
<1>1. /\ UNCHANGED <<head, source, dirs, evidence, commands, breaks>> /\ job' = Idle
      /\ results' = [results EXCEPT !.error = results.error \/ (reported /\ job.cmd = "full")]
  BY DEF Fail
<1>2. /\ results'.quick = results.quick /\ results'.full = results.full
      /\ results'.progress = results.progress
      /\ results' = [quick |-> results'.quick, full |-> results'.full,
                     progress |-> results'.progress, error |-> results'.error]
  BY <1>1 DEF Data
<1>3. Data'
  BY <1>1, <1>2 DEF Data
<1>4. Claims'
  BY <1>1, <1>2 DEF Claims, FullIsOneRevision, EvidenceBacked, Sound, Healthy, ScanHolds,
     AbiHolds, LockedOutOnlyByBrokenRemoval
<1> QED
  BY <1>1, <1>3, <1>4, JobEnds, SameTrees

-----------------------------------------------------------------------------
(***************************************************************************)
(* Trees and directories.                                                  *)
(***************************************************************************)
Directories == [mark : BOOLEAN, tree : Tree!Trees]

LEMMA TreeFacts ==
  ASSUME NEW t \in Tree!Trees
  PROVE  /\ \A p \in Paths : t.files[p] \in 0..Foreign
         /\ t.files \in Tree!Files /\ t.listed \in Tree!Files \cup {Tree!NoList}
         /\ t = [files |-> t.files, listed |-> t.listed, sums |-> t.sums]
  BY RevFacts DEF Tree!Trees, Tree!Files

LEMMA EmptyFacts ==
  /\ Tree!EmptyTree \in Tree!Trees
  /\ \A p \in Paths : Tree!EmptyTree.files[p] = 0 /\ Tree!EmptyTree.sums.files[p] # Foreign
  /\ "source" \in Paths /\ "plugin" \in Paths /\ "extra" \in Paths
<1>1. Tree!EmptyTree \in Tree!Trees
  BY RevFacts DEF Tree!EmptyTree, Tree!NoFiles, Tree!NoSums, Tree!Trees, Tree!Files
<1>2. \A p \in Paths : Tree!EmptyTree.files[p] = 0 /\ Tree!EmptyTree.sums.files[p] # Foreign
  BY RevFacts DEF Tree!EmptyTree, Tree!NoFiles, Tree!NoSums, Tree!NoList
<1> QED
  BY <1>1, <1>2 DEF Paths

Put(t, p, c) == [t EXCEPT !.files[p] = c]

LEMMA FileSet ==
  ASSUME NEW t \in Tree!Trees, NEW p \in Paths, NEW c \in 0..Foreign
  PROVE  /\ Put(t, p, c) \in Tree!Trees
         /\ Put(t, p, c).sums = t.sums
         /\ \A r \in Paths : Put(t, p, c).files[r] = IF r = p THEN c ELSE t.files[r]
  BY RevFacts DEF Put, Tree!Trees, Tree!Files

LEMMA DirectoryFacts ==
  ASSUME NEW x \in Directories
  PROVE  x = [mark |-> x.mark, tree |-> x.tree] /\ x.mark \in BOOLEAN /\ x.tree \in Tree!Trees
  BY DEF Directories

(* One directory is replaced, or its tree, or a file of it. *)
LEMMA DirectorySet ==
  ASSUME dirs \in [Dirs -> Directories], NEW d \in Dirs, NEW x \in Directories,
         dirs' = [dirs EXCEPT ![d] = x]
  PROVE  /\ dirs' \in [Dirs -> Directories] /\ dirs'[d] = x
         /\ \A e \in Dirs \ {d} : dirs'[e] = dirs[e]
  OBVIOUS

LEMMA TreeSet ==
  ASSUME dirs \in [Dirs -> Directories], NEW d \in Dirs, NEW t \in Tree!Trees,
         dirs' = [dirs EXCEPT ![d].tree = t]
  PROVE  /\ dirs' \in [Dirs -> Directories]
         /\ dirs'[d].tree = t /\ dirs'[d].mark = dirs[d].mark
         /\ \A e \in Dirs \ {d} : dirs'[e] = dirs[e]
<1>1. PICK x : x = [mark |-> dirs[d].mark, tree |-> t]
  OBVIOUS
<1>2. x \in Directories /\ x.tree = t /\ x.mark = dirs[d].mark
  BY <1>1, DirectoryFacts DEF Directories
<1>3. [dirs[d] EXCEPT !.tree = t] = x
  <2>1. dirs[d] = [mark |-> dirs[d].mark, tree |-> dirs[d].tree]
    BY DirectoryFacts
  <2> QED
    BY <1>1, <2>1
<1>4. dirs' = [dirs EXCEPT ![d] = x]
  BY <1>3
<1> QED
  BY <1>2, <1>4, DirectorySet

(* What is left of a directory whose removal broke off. *)
LEMMA RemainsFacts ==
  ASSUME NEW x \in Directories, NEW y \in Unlinked(x)
  PROVE  /\ y \in Directories
         /\ \A p \in Paths : y.tree.files[p] \in {x.tree.files[p], 0}
         /\ y.tree.sums \in {x.tree.sums, Tree!NoSums}
<1>1. y.mark \in BOOLEAN /\ y.tree \in Tree!Remains(x.tree) /\ y = [mark |-> y.mark, tree |-> y.tree]
  BY DirectoryFacts DEF Unlinked
<1> DEFINE t == y.tree
           u == x.tree
<1>2. u \in Tree!Trees /\ t \in Tree!Remains(u)
  BY <1>1, DirectoryFacts
<1> HIDE DEF t, u
<1>3. PICK K \in SUBSET Paths : t.files = [p \in Paths |-> IF p \in K THEN u.files[p] ELSE 0]
  BY <1>2 DEF Tree!Remains
<1>4. t.files \in Tree!Files /\ \A p \in Paths : t.files[p] \in {u.files[p], 0}
  BY <1>2, <1>3, TreeFacts, RevFacts DEF Tree!Files
<1>5. t.listed \in Tree!Files \cup {Tree!NoList} /\ t.sums \in {u.sums, Tree!NoSums}
  BY <1>2, TreeFacts DEF Tree!Remains
<1>6. t \in Tree!Trees
  <2>1. t = [files |-> t.files, listed |-> t.listed, sums |-> t.sums]
    BY <1>2 DEF Tree!Remains
  <2>2. t.sums \in [files : Tree!Files, listed : Tree!Files \cup {Tree!NoList}] \cup {Tree!NoSums}
    BY <1>2, <1>5 DEF Tree!Trees
  <2> QED
    BY <1>4, <1>5, <2>1, <2>2 DEF Tree!Trees
<1> QED
  BY <1>1, <1>4, <1>5, <1>6 DEF Directories, t, u

(* A step that writes one directory, and no plugin or checksum of the      *)
(* user's into it; what it leaves unmarked it found unmarked.              *)
LEMMA DirectoryStep ==
  ASSUME IInv, NEW d \in Dirs, dirs' \in [Dirs -> Directories],
         \A e \in Dirs \ {d} : dirs'[e] = dirs[e],
         d \in BuildDirs => Installed(d)' # Foreign,
         d = "stage" => \A p \in Paths : Stage'.sums.files[p] # Foreign,
         dirs'[d].mark \/ dirs'[d] = dirs[d] \/ ~Occupied(dirs'[d]) \/ breaks' > 0,
         breaks \in Nat, breaks' \in Nat, breaks <= breaks'
  PROVE  TreeInv' /\ LockedOutOnlyByBrokenRemoval'
<1>1. TreeInv'
  <2>1. "stage" \in Dirs /\ BuildDirs \subseteq Dirs
    BY DEF Dirs
  <2>2. d # "stage" => \A p \in Paths : Stage'.sums.files[p] # Foreign
    BY <2>1 DEF IInv, TreeInv, Stage
  <2>3. \A e \in BuildDirs \ {d} : Installed(e)' # Foreign
    BY <2>1 DEF IInv, TreeInv, Installed
  <2> QED
    BY <2>2, <2>3 DEF TreeInv
<1>2. ASSUME NEW e \in Dirs, ForeignDir(dirs[e])'
      PROVE  dirs'[e].tree = Tree!Holding("extra", Foreign) \/ breaks' > 0
  <2>1. \A x \in Dirs : ForeignDir(dirs[x]) =>
          dirs[x].tree = Tree!Holding("extra", Foreign) \/ breaks > 0
    BY DEF IInv, Claims, LockedOutOnlyByBrokenRemoval
  <2>2. breaks > 0 => breaks' > 0
    OBVIOUS
  <2>3. CASE dirs'[e] = dirs[e]
    BY <1>2, <2>1, <2>2, <2>3 DEF ForeignDir, Occupied
  <2>4. CASE dirs'[e] # dirs[e]
    BY <1>2, <2>4 DEF ForeignDir, Occupied
  <2> QED
    BY <2>3, <2>4
<1> QED
  BY <1>1, <1>2 DEF LockedOutOnlyByBrokenRemoval

LEMMA SameClaimedValues ==
  ASSUME Claims, UNCHANGED <<source, results, evidence>>
  PROVE  FullIsOneRevision' /\ EvidenceBacked'
  BY DEF Claims, FullIsOneRevision, EvidenceBacked, Sound, Healthy, ScanHolds, AbiHolds

-----------------------------------------------------------------------------
(***************************************************************************)
(* A command a step further on: what it gained at its place, and what it   *)
(* kept of what it had.                                                    *)
(***************************************************************************)
Forth ==
  /\ Placed' /\ Place' = Place + 1 /\ Place \in Nat
  /\ job'.cmd = job.cmd /\ job'.from = job.from
  /\ QuickAt' = QuickAt + (IF job.cmd \in {"full", "quick"} THEN 1 ELSE 0)
  /\ StageAt' = StageAt + (IF job.cmd \in {"full", "stage"} THEN 1 ELSE 0)

KeepsReads ==
  /\ Place >= 5 => Installed("build-a")' = Installed("build-a")
  /\ Place >= 6 => job'.a = job.a
  /\ Place >= 8 => Installed("build-b")' = Installed("build-b")
  /\ Place >= 9 => job'.b = job.b
  /\ Place >= 14 => Installed("quick")' = Installed("quick")
  /\ Place >= 15 => job'.q = job.q
  /\ Place >= 20 => Stage'.files["source"] = Stage.files["source"]
  /\ Place >= 21 => Stage'.files["plugin"] = Stage.files["plugin"]

GainsReads ==
  /\ Place = 4 => Read(Installed("build-a")')
  /\ Place = 5 => Read(job'.a)
  /\ Place = 7 => Read(Installed("build-b")')
  /\ Place = 8 => Read(job'.b)
  /\ Place = 9 => source[job'.a].abi = source[job'.b].abi
  /\ Place = 13 => Read(Installed("quick")')
  /\ Place = 14 => Read(job'.q)
  /\ Place = 19 => Read(Stage'.files["source"])
  /\ Place = 20 => Read(Stage'.files["plugin"])

GainsHealth ==
  /\ Place = 1 => Healthy(head, {"environment"})
  /\ Place = 4 => Healthy(head, {"ctest"})
  /\ Place = 5 => Healthy(head, {"abi"})
  /\ Place = 10 => Healthy(head, FullChecks)
  /\ Place = 15 => Healthy(head, QuickChecks)
  /\ Place = 17 => Healthy(head, FinalChecks \ Skippable)
  /\ Place = 21 => Healthy(head, {"scan"})

LEMMA ReadStep ==
  ASSUME ReadInv, Forth, UNCHANGED <<head, source>>, job.cmd = "full" => KeepsReads /\ GainsReads
  PROVE  ReadInv'
<1> SUFFICES ASSUME job.cmd = "full" PROVE ReadInv'
  BY DEF Forth, ReadInv
<1>1. /\ Place' = Place + 1 /\ Place \in Nat /\ job'.from = job.from /\ head' = head
      /\ source' = source /\ KeepsReads /\ GainsReads /\ job'.cmd = "full"
  BY DEF Forth
<1>2. \A r : Read(r)' <=> r' \in job.from..head
  BY <1>1 DEF Read
<1>3. job'.from \in 1..head'
  BY <1>1 DEF ReadInv
<1>4. /\ Place' >= 5 => Read(Installed("build-a"))'
      /\ Place' >= 6 => Read(job.a)'
      /\ Place' >= 8 => Read(Installed("build-b"))'
      /\ Place' >= 9 => Read(job.b)'
  BY <1>1 DEF ReadInv, Read, KeepsReads, GainsReads
<1>5. Place' >= 10 => source'[job'.a].abi = source'[job'.b].abi
  BY <1>1 DEF ReadInv, KeepsReads, GainsReads
<1>6. /\ Place' >= 14 => Read(Installed("quick"))'
      /\ Place' >= 15 => Read(job.q)'
      /\ Place' >= 20 => Read(Stage.files["source"])'
      /\ Place' >= 21 => Read(Stage.files["plugin"])'
  BY <1>1 DEF ReadInv, Read, KeepsReads, GainsReads
<1> QED
  BY <1>3, <1>4, <1>5, <1>6 DEF ReadInv

LEMMA HealthStep ==
  ASSUME HealthInv, Forth, UNCHANGED <<head, source>>,
         job.cmd = "full" /\ job.from = head => GainsHealth
  PROVE  HealthInv'
<1> SUFFICES ASSUME job.cmd = "full", job.from = head PROVE HealthInv'
  BY DEF Forth, HealthInv
<1>1. /\ Place' = Place + 1 /\ Place \in Nat /\ head' = head /\ source' = source /\ GainsHealth
  BY DEF Forth
<1> QED
  BY <1>1 DEF HealthInv, GainsHealth, Healthy

LEMMA MarkStep ==
  ASSUME MarkInv, Forth,
         \A d \in Dirs : dirs[d].mark => dirs'[d].mark,
         job.cmd = "full" /\ Place = 3 => dirs'["build-a"].mark,
         job.cmd = "full" /\ Place = 6 => dirs'["build-b"].mark,
         QuickAt = 2 => dirs'["quick"].mark,
         StageAt = 1 => dirs'["stage"].mark,
         StageAt >= 1 => \A p \in Paths : Stage'.files[p] # Foreign
  PROVE  MarkInv'
<1>1. Place' = Place + 1 /\ Place \in Nat /\ job'.cmd = job.cmd
  BY DEF Forth
<1>2. {"build-a", "build-b", "quick", "stage"} \subseteq Dirs
  BY DEF Dirs, BuildDirs
<1>3. QuickAt \in Int /\ StageAt \in Int
  BY <1>1 DEF QuickAt, StageAt
<1>4. QuickAt' \in {QuickAt, QuickAt + 1} /\ StageAt' \in {StageAt, StageAt + 1}
  BY <1>3 DEF Forth
<1> QED
  BY <1>1, <1>2, <1>3, <1>4 DEF MarkInv

LEMMA GoesForth ==
  ASSUME Placed, job.cmd # "none", job' = Rest
  PROVE  JobInv' \/ (Forth /\ job'.a = job.a /\ job'.b = job.b /\ job'.q = job.q)
  BY Advances, JobEnds DEF Forth

(* A step that writes no directory. *)
LEMMA QuietStep ==
  ASSUME IInv, Forth, UNCHANGED <<head, source, dirs>>,
         job.cmd = "full" => KeepsReads /\ GainsReads,
         job.cmd = "full" /\ job.from = head => GainsHealth,
         job.cmd = "full" => Place # 3 /\ Place # 6,
         QuickAt # 2, StageAt # 1,
         job.cmd = "evidence" =>
            /\ Place >= 2 => results'.full = results.full
            /\ Place = 1 => results'.full # NoFull /\ StageVerifies(Stage)
  PROVE  JobInv'
<1>1. ReadInv' /\ HealthInv'
  BY ReadStep, HealthStep DEF IInv, JobInv
<1>2. MarkInv'
  <2>1. Stage' = Stage /\ \A d \in Dirs : dirs'[d].mark <=> dirs[d].mark
    BY DEF Stage
  <2>2. StageAt >= 1 => StageAt >= 2
    <3>1. StageAt \in Int
      BY DEF Forth, StageAt
    <3> QED
      BY <3>1
  <2>3. StageAt >= 1 => \A p \in Paths : Stage'.files[p] # Foreign
    BY <2>1, <2>2 DEF IInv, JobInv, MarkInv
  <2> QED
    BY <2>1, <2>3, MarkStep DEF IInv, JobInv
<1>3. SealInv'
  <2>1. StageVerifies(Stage)' <=> StageVerifies(Stage)
    BY DEF Stage, StageVerifies, PolicyHolds, ScanHolds, AbiHolds, Healthy
  <2> QED
    BY <2>1 DEF IInv, JobInv, SealInv, Forth
<1> QED
  BY <1>1, <1>2, <1>3 DEF JobInv, Forth
-----------------------------------------------------------------------------
(***************************************************************************)
(* The steps that write no directory.                                      *)
(***************************************************************************)
LEMMA StepFacts ==
  ASSUME NEW op, Step(op), Placed
  PROVE  /\ job.cmd # "none" /\ job # Idle
         /\ job.cmd \in {"quick", "full", "stage", "evidence", "clean"}
  BY CommandFacts, IdleFacts DEF Step

LEMMA CounterFacts == Data => breaks \in Nat /\ commands \in Nat
  BY RevFacts DEF Data

LEMMA Unmoved ==
  ASSUME IInv, UNCHANGED <<head, source, dirs, results, evidence, commands, breaks>>, JobInv'
  PROVE  IInv'
<1>1. Data'
  BY DEF IInv, Data
<1>2. breaks \in Nat /\ breaks' = breaks
  BY CounterFacts DEF IInv
<1>3. Claims' /\ TreeInv'
  BY <1>2, SameClaims, SameTrees DEF IInv
<1> QED
  BY <1>1, <1>3 DEF IInv

LEMMA KeepsAll ==
  ASSUME UNCHANGED dirs, job'.a = job.a, job'.b = job.b, job'.q = job.q
  PROVE  KeepsReads
  BY DEF KeepsReads, Installed, Stage

LEMMA BeginInv == ASSUME IInv, NEW cmd \in DOMAIN Plans, Begin(cmd) PROVE IInv'
<1>1. /\ job' = [cmd |-> cmd, todo |-> Plans[cmd], from |-> head, a |-> 0, b |-> 0, q |-> 0]
      /\ UNCHANGED <<head, source, dirs, results, evidence, breaks>>
      /\ commands' = commands + 1 /\ commands < MaxCommands
  BY DEF Begin, Idle
<1>2. head \in Revs /\ head \in Nat /\ head \in 1..head
  BY RevFacts DEF IInv, Data, Revs
<1> DEFINE n == Len(Plans[cmd])
<1>3. n \in Nat \ {0} /\ 1 \in 1..n
  BY PlanFacts
<1>4. Place' = 1
  <2>1. Place' = n - n + 1
    BY <1>1 DEF Place
  <2> HIDE DEF n
  <2> QED
    BY <2>1, <1>3
<1>5. Plans[cmd] = Ahead(cmd, 1)
  BY <1>3, SuffixFacts
<1>6. "none" \notin DOMAIN Plans
  BY PlanFacts
<1>7. Placed'
  <2>1. job'.cmd = cmd /\ job'.todo = Plans[cmd]
    BY <1>1
  <2>2. Place' \in 1..Len(Plans[job'.cmd]) /\ job'.todo = Ahead(job'.cmd, Place')
    BY <1>3, <1>4, <1>5, <2>1
  <2> QED
    BY <1>1, <1>2, <1>6, <2>1, <2>2 DEF Placed
<1>8. QuickAt' \in {-9, 1, 0} /\ StageAt' \in {-16, 1, 0}
  BY <1>4 DEF QuickAt, StageAt
<1>9. ReadInv' /\ HealthInv' /\ MarkInv' /\ SealInv'
  <2>1. job'.from \in 1..head'
    BY <1>1, <1>2
  <2>2. ReadInv' /\ HealthInv' /\ SealInv'
    BY <1>4, <2>1 DEF ReadInv, HealthInv, SealInv
  <2>3. MarkInv'
    BY <1>4, <1>8 DEF MarkInv
  <2> QED
    BY <2>2, <2>3
<1>10. commands' \in 0..MaxCommands
  BY <1>1, RevFacts DEF IInv, Data
<1>11. Data'
  BY <1>1, <1>10 DEF IInv, Data
<1>12. breaks \in Nat /\ breaks' = breaks
  BY <1>1, CounterFacts DEF IInv
<1>13. Claims' /\ TreeInv'
  BY <1>1, <1>12, SameClaims, SameTrees DEF IInv
<1> QED
  BY <1>7, <1>9, <1>11, <1>13 DEF IInv, JobInv

LEMMA CompareInv == IInv /\ Compare => IInv'
<1> SUFFICES ASSUME IInv, Compare PROVE IInv'
  OBVIOUS
<1>1. /\ Step("compare") /\ source[job.a].abi = source[job.b].abi /\ job' = Rest
      /\ UNCHANGED <<head, source, dirs, results, evidence, commands, breaks>>
  BY DEF Compare, Advance
<1>2. Placed /\ job.cmd # "none"
  BY <1>1, StepFacts DEF IInv, JobInv
<1>3. job.cmd = "full" /\ Place = 9
  BY <1>1, <1>2, StepFacts, FullAt, QuickStepsAt, StageStepsAt, EvidenceAt, CleanAt
<1>4. JobInv'
  <2>1. SUFFICES ASSUME Forth, job'.a = job.a, job'.b = job.b, job'.q = job.q PROVE JobInv'
    BY <1>1, <1>2, GoesForth
  <2>2. KeepsReads
    BY <1>1, <2>1, KeepsAll
  <2>3. QuickAt = -1 /\ StageAt = -8
    BY <1>3 DEF QuickAt, StageAt
  <2>4. GainsReads /\ GainsHealth
    BY <1>1, <1>3, <2>1 DEF GainsReads, GainsHealth
  <2> QED
    BY <1>1, <1>3, <2>1, <2>2, <2>3, <2>4, QuietStep
<1> QED
  BY <1>1, <1>4, Unmoved

LEMMA RunChecksInv == IInv /\ RunChecks => IInv'
<1> SUFFICES ASSUME IInv, RunChecks PROVE IInv'
  OBVIOUS
<1>1. /\ Step("check") /\ Healthy(head, Target \ Skippable) /\ job' = Rest
      /\ UNCHANGED <<head, source, dirs, results, evidence, commands, breaks>>
  BY DEF RunChecks, Advance
<1>2. Placed /\ job.cmd # "none"
  BY <1>1, StepFacts DEF IInv, JobInv
<1>3. job.cmd \in {"full", "quick"}
  BY <1>1, <1>2, StepFacts, StageStepsAt, EvidenceAt, CleanAt
<1>4. JobInv'
  <2>1. SUFFICES ASSUME Forth, job'.a = job.a, job'.b = job.b, job'.q = job.q PROVE JobInv'
    BY <1>1, <1>2, GoesForth
  <2>2. KeepsReads
    BY <1>1, <2>1, KeepsAll
  <2>3. job.cmd = "quick" => Place = 1 \/ Place = 5
    BY <1>1, <1>2, QuickStepsAt
  <2>4. job.cmd = "full" =>
          \/ Place = 1 /\ Target = EnvironmentCheck
          \/ Place = 10 /\ Target = FullChecks
          \/ Place = 11 /\ Target = EnvironmentCheck
          \/ Place = 15 /\ Target = QuickChecks
          \/ Place = 17 /\ Target = FinalChecks
    BY <1>1, <1>2, FullAt
  <2>5. QuickAt # 2 /\ StageAt # 1
    BY <1>3, <2>3, <2>4 DEF QuickAt, StageAt
  <2>6. /\ EnvironmentCheck \ Skippable = {"environment"} /\ FullChecks \ Skippable = FullChecks
        /\ QuickChecks \ Skippable = QuickChecks
    BY DEF EnvironmentCheck, Skippable, FullChecks, QuickChecks
  <2>7. job.cmd = "full" => GainsReads /\ GainsHealth
    BY <1>1, <2>4, <2>6 DEF GainsReads, GainsHealth
  <2>8. job.cmd = "full" => Place # 3 /\ Place # 6
    BY <2>4
  <2> QED
    BY <1>1, <1>3, <2>1, <2>2, <2>5, <2>7, <2>8, QuietStep
<1> QED
  BY <1>1, <1>4, Unmoved

(* What a full run at work on one revision reads is that revision. *)
LEMMA OneRevision ==
  ASSUME ReadInv, job.cmd = "full", job.from = head, NEW r, Read(r)
  PROVE  r = head /\ (head \in Revs => head \in 1..head)
  BY RevFacts DEF ReadInv, Read, Revs

LEMMA StagePut ==
  ASSUME IInv
  PROVE  /\ "stage" \in Dirs /\ Stage \in Tree!Trees
         /\ dirs = [dirs EXCEPT !["stage"].tree = Stage]
<1>1. "stage" \in Dirs /\ dirs \in [Dirs -> Directories]
  BY DEF IInv, Data, Dirs, Directories
<1>2. dirs["stage"] = [mark |-> dirs["stage"].mark, tree |-> Stage] /\ Stage \in Tree!Trees
  BY <1>1, DirectoryFacts DEF Stage
<1>3. [dirs["stage"] EXCEPT !.tree = Stage] = dirs["stage"]
  BY <1>2
<1> QED
  BY <1>1, <1>2, <1>3

LEMMA CheckPolicyInv == IInv /\ CheckPolicy => IInv'
<1> SUFFICES ASSUME IInv, CheckPolicy PROVE IInv'
  OBVIOUS
<1>1. /\ Step("policy") /\ PolicyHolds(Stage) /\ job' = Rest
      /\ UNCHANGED <<head, source, dirs, results, evidence, commands, breaks>>
  BY StagePut DEF CheckPolicy, PutStage, Advance
<1>2. Placed /\ job.cmd # "none"
  BY <1>1, StepFacts DEF IInv, JobInv
<1>3. \/ job.cmd = "full" /\ Place = 21
      \/ job.cmd = "stage" /\ Place = 4
  BY <1>1, <1>2, StepFacts, FullAt, QuickStepsAt, StageStepsAt, EvidenceAt, CleanAt
<1>4. JobInv'
  <2>1. SUFFICES ASSUME Forth, job'.a = job.a, job'.b = job.b, job'.q = job.q PROVE JobInv'
    BY <1>1, <1>2, GoesForth
  <2>2. KeepsReads
    BY <1>1, <2>1, KeepsAll
  <2>3. QuickAt # 2 /\ StageAt # 1
    BY <1>3 DEF QuickAt, StageAt
  <2>4. job.cmd = "full" /\ job.from = head => Healthy(head, {"scan"})
    <3> SUFFICES ASSUME job.cmd = "full", job.from = head PROVE Healthy(head, {"scan"})
      OBVIOUS
    <3>1. Read(Stage.files["source"])
      BY <1>3 DEF IInv, JobInv, ReadInv
    <3>2. Stage.files["source"] = head /\ head \in Revs
      BY <3>1, OneRevision DEF IInv, JobInv, Data
    <3> QED
      BY <1>1, <3>2 DEF PolicyHolds, ScanHolds
  <2>5. job.cmd = "full" => GainsReads /\ (job.from = head => GainsHealth)
    BY <1>3, <2>4 DEF GainsReads, GainsHealth
  <2> QED
    BY <1>1, <1>3, <2>1, <2>2, <2>3, <2>5, QuietStep
<1> QED
  BY <1>1, <1>4, Unmoved

LEMMA VerifyStageInv == IInv /\ VerifyStage => IInv'
<1> SUFFICES ASSUME IInv, VerifyStage PROVE IInv'
  OBVIOUS
<1>1. /\ Step("verify") /\ job' = Rest
      /\ UNCHANGED <<head, source, dirs, results, evidence, commands, breaks>>
  BY DEF VerifyStage, Advance
<1>2. Placed /\ job.cmd # "none"
  BY <1>1, StepFacts DEF IInv, JobInv
<1>3. job.cmd = "full" /\ Place = 24
  BY <1>1, <1>2, StepFacts, FullAt, QuickStepsAt, StageStepsAt, EvidenceAt, CleanAt
<1>4. JobInv'
  <2>1. SUFFICES ASSUME Forth, job'.a = job.a, job'.b = job.b, job'.q = job.q PROVE JobInv'
    BY <1>1, <1>2, GoesForth
  <2>2. KeepsReads
    BY <1>1, <2>1, KeepsAll
  <2>3. QuickAt # 2 /\ StageAt # 1
    BY <1>3 DEF QuickAt, StageAt
  <2>4. GainsReads /\ GainsHealth
    BY <1>3 DEF GainsReads, GainsHealth
  <2> QED
    BY <1>1, <1>3, <2>1, <2>2, <2>3, <2>4, QuietStep
<1> QED
  BY <1>1, <1>4, Unmoved

LEMMA AcceptInv == IInv /\ Accept => IInv'
<1> SUFFICES ASSUME IInv, Accept PROVE IInv'
  OBVIOUS
<1>1. /\ Step("accept") /\ Acceptable /\ job' = Rest
      /\ UNCHANGED <<head, source, dirs, results, evidence, commands, breaks>>
  BY DEF Accept, Advance
<1>2. Placed /\ job.cmd # "none"
  BY <1>1, StepFacts DEF IInv, JobInv
<1>3. job.cmd = "evidence" /\ Place = 1
  BY <1>1, <1>2, StepFacts, FullAt, QuickStepsAt, StageStepsAt, EvidenceAt, CleanAt
<1>4. JobInv'
  <2>1. SUFFICES ASSUME Forth PROVE JobInv'
    BY <1>1, <1>2, GoesForth
  <2>2. QuickAt = 0 /\ StageAt = 0
    BY <1>3 DEF QuickAt, StageAt
  <2>3. results'.full # NoFull /\ StageVerifies(Stage)
    BY <1>1 DEF Acceptable
  <2> QED
    BY <1>1, <1>3, <2>1, <2>2, <2>3, QuietStep
<1> QED
  BY <1>1, <1>4, Unmoved

(* What verifies was staged whole: nothing in it is of the user's. *)
LEMMA VerifiedFiles ==
  ASSUME IInv, StageVerifies(Stage)
  PROVE  /\ \A p \in Paths : Stage.files[p] # Foreign
         /\ {Stage.files["source"], Stage.files["plugin"]} \subseteq Revs
         /\ ScanHolds(Stage) /\ AbiHolds(Stage)
<1>1. /\ \A p \in Paths : Stage.files[p] \in 0..Foreign
      /\ "source" \in Paths /\ "plugin" \in Paths
  BY StagePut, TreeFacts, EmptyFacts
<1>2. /\ \A p \in Paths : Stage.sums.files[p] # 0 => Stage.files[p] = Stage.sums.files[p]
      /\ \A p \in Paths : Stage.files[p] = 0 <=> Stage.sums.files[p] = 0
      /\ \A p \in Paths : Stage.listed[p] # 0 => Stage.files[p] = Stage.listed[p]
      /\ Stage.listed["source"] # 0 /\ Stage.files["plugin"] # 0
      /\ ScanHolds(Stage) /\ AbiHolds(Stage)
  BY DEF StageVerifies, PolicyHolds, Tree!Verifies, Tree!ListingHolds, Tree!SumsHold,
     Tree!SumsCoverExactly
<1>3. \A p \in Paths : Stage.sums.files[p] # Foreign
  BY DEF IInv, TreeInv
<1>4. 0 # Foreign
  BY RevFacts
<1>5. \A p \in Paths : Stage.files[p] # Foreign
  BY <1>2, <1>3, <1>4
<1>6. Stage.files["source"] # 0
  BY <1>1, <1>2
<1>7. \A p \in Paths : Stage.files[p] # 0 => Stage.files[p] \in Revs
  BY <1>1, <1>5, RevFacts
<1> QED
  BY <1>1, <1>2, <1>5, <1>6, <1>7

LEMMA SealStep == IInv /\ Seal => IInv'
<1> SUFFICES ASSUME IInv, Seal PROVE IInv'
  OBVIOUS
<1>1. /\ Step("seal") /\ job' = Rest
      /\ evidence' = [state |-> "sealed", full |-> results.full, stage |-> Stage]
      /\ UNCHANGED <<head, source, dirs, results, commands, breaks>>
  BY DEF Seal, Advance
<1>2. Placed /\ job.cmd # "none"
  BY <1>1, StepFacts DEF IInv, JobInv
<1>3. job.cmd = "evidence" /\ Place = 3
  BY <1>1, <1>2, StepFacts, FullAt, QuickStepsAt, StageStepsAt, EvidenceAt, CleanAt
<1>4. JobInv'
  <2>1. LastPlace
    BY <1>2, <1>3, LastPlaces
  <2> QED
    BY <1>1, <1>2, <2>1, RestFacts, JobEnds
<1>5. results.full # NoFull /\ StageVerifies(Stage)
  BY <1>3 DEF IInv, JobInv, SealInv
<1>6. Sound(results.full)
  BY <1>5 DEF IInv, Claims, FullIsOneRevision
<1>7. EvidenceBacked'
  <2>1. /\ evidence'.full = results.full /\ evidence'.stage = Stage /\ source' = source
    BY <1>1
  <2>2. Sound(evidence.full)' /\ ScanHolds(evidence.stage)' /\ AbiHolds(evidence.stage)'
    BY <1>5, <1>6, <2>1, VerifiedFiles DEF Sound, ScanHolds, AbiHolds, Healthy
  <2> QED
    BY <1>5, <2>1, <2>2, VerifiedFiles DEF EvidenceBacked
<1>8. FullIsOneRevision' /\ LockedOutOnlyByBrokenRemoval'
  BY <1>1 DEF IInv, Claims, FullIsOneRevision, Sound, Healthy, LockedOutOnlyByBrokenRemoval
<1>9. Data' /\ TreeInv'
  BY <1>1, SameTrees DEF IInv, Data
<1> QED
  BY <1>4, <1>7, <1>8, <1>9 DEF IInv, Claims

LEMMA BreakSealingInv == IInv /\ BreakSealing => IInv'
<1> SUFFICES ASSUME IInv, BreakSealing PROVE IInv'
  OBVIOUS
<1>1. /\ job' = Idle /\ breaks' = breaks + 1 /\ breaks < MaxBreaks /\ evidence'.state = "part"
      /\ UNCHANGED <<head, source, dirs, results, commands>>
  BY DEF BreakSealing, NoEvidence
<1>2. breaks \in Nat /\ breaks' \in 0..MaxBreaks
  BY <1>1, CounterFacts, RevFacts DEF IInv
<1>3. Data'
  BY <1>1, <1>2 DEF IInv, Data
<1>4. FullIsOneRevision' /\ EvidenceBacked'
  BY <1>1 DEF IInv, Claims, FullIsOneRevision, Sound, Healthy, EvidenceBacked
<1>5. LockedOutOnlyByBrokenRemoval'
  BY <1>1, <1>2 DEF IInv, Claims, LockedOutOnlyByBrokenRemoval
<1> QED
  BY <1>1, <1>3, <1>4, <1>5, JobEnds, SameTrees DEF IInv, Claims

(* Saving full.json. *)
LEMMA SoundSummary ==
  ASSUME IInv, job.cmd = "full", Place = 25
  PROVE  /\ {job.a, job.b, job.q, Stage.files["source"], Stage.files["plugin"]} \subseteq Revs
         /\ Sound(Summary)
<1>1. /\ Read(job.a) /\ Read(job.b) /\ Read(job.q)
      /\ Read(Stage.files["source"]) /\ Read(Stage.files["plugin"])
      /\ source[job.a].abi = source[job.b].abi /\ job.from \in 1..head
  BY DEF IInv, JobInv, ReadInv
<1>2. \A r : Read(r) => r \in Revs
  <2>1. head \in Revs
    BY DEF IInv, Data
  <2> QED
    BY <1>1, <2>1, RevFacts DEF Read, Revs
<1>3. ASSUME job.from = head
      PROVE  /\ job.b = job.a /\ job.q = job.a /\ Stage.files["source"] = job.a
             /\ Stage.files["plugin"] = job.a /\ Healthy(job.a, Faults \ Skippable)
  <2>1. \A r : Read(r) => r = head
    BY <1>3, OneRevision DEF IInv, JobInv
  <2>2. /\ Healthy(head, {"environment"}) /\ Healthy(head, {"ctest"}) /\ Healthy(head, {"abi"})
        /\ Healthy(head, FullChecks) /\ Healthy(head, QuickChecks)
        /\ Healthy(head, FinalChecks \ Skippable) /\ Healthy(head, {"scan"})
    BY <1>3 DEF IInv, JobInv, HealthInv
  <2>3. Healthy(head, Faults \ Skippable)
    BY <2>2 DEF Healthy, Faults
  <2> QED
    BY <1>1, <2>1, <2>3
<1>4. /\ Summary.a = job.a /\ Summary.b = job.b /\ Summary.quick = job.q
      /\ Summary.source = Stage.files["source"] /\ Summary.plugin = Stage.files["plugin"]
      /\ Summary.steady <=> job.from = head
  BY DEF Summary
<1>5. Sound(Summary)
  BY <1>1, <1>2, <1>3, <1>4 DEF Sound
<1> QED
  BY <1>1, <1>2, <1>5

LEMMA SaveInv == IInv /\ Save => IInv'
<1> SUFFICES ASSUME IInv, Save PROVE IInv'
  OBVIOUS
<1>1. /\ Step("save") /\ job' = Rest
      /\ UNCHANGED <<head, source, dirs, evidence, commands, breaks>>
  BY DEF Save, Advance
<1>2. Placed /\ job.cmd # "none"
  BY <1>1, StepFacts DEF IInv, JobInv
<1>3. \/ job.cmd = "full" /\ Place = 2 /\ Target = "progress"
      \/ job.cmd = "full" /\ Place = 16 /\ Target = "quick"
      \/ job.cmd = "full" /\ Place = 25 /\ Target = "full"
      \/ job.cmd = "quick" /\ Place = 6 /\ Target = "quick"
  BY <1>1, <1>2, StepFacts, FullAt, QuickStepsAt, StageStepsAt, EvidenceAt, CleanAt
<1>4. JobInv'
  <2>1. CASE Place = 25
    <3>1. job.cmd = "full"
      BY <1>3, <2>1
    <3>2. LastPlace
      BY <1>2, <2>1, <3>1, LastPlaces
    <3> QED
      BY <1>1, <1>2, <3>2, RestFacts, JobEnds
  <2>2. CASE job.cmd = "quick"
    <3>1. LastPlace
      BY <1>2, <1>3, <2>2, LastPlaces
    <3> QED
      BY <1>1, <1>2, <3>1, RestFacts, JobEnds
  <2>3. CASE job.cmd = "full" /\ (Place = 2 \/ Place = 16)
    <3>1. SUFFICES ASSUME Forth, job'.a = job.a, job'.b = job.b, job'.q = job.q PROVE JobInv'
      BY <1>1, <1>2, GoesForth
    <3>2. KeepsReads
      BY <1>1, <3>1, KeepsAll
    <3>3. QuickAt # 2 /\ StageAt # 1
      BY <2>3 DEF QuickAt, StageAt
    <3>4. GainsReads /\ GainsHealth
      BY <2>3 DEF GainsReads, GainsHealth
    <3> QED
      BY <1>1, <2>3, <3>1, <3>2, <3>3, <3>4, QuietStep
  <2> QED
    BY <1>3, <2>1, <2>2, <2>3
<1> DEFINE other(full) ==
      /\ results'.full = full
      /\ results'.quick \in {results.quick, job.q} /\ results'.progress \in {"running", "pass", results.progress}
      /\ results' = [quick |-> results'.quick, full |-> results'.full,
                     progress |-> results'.progress, error |-> results'.error]
<1>5. IF Target = "full" THEN other(Summary) ELSE other(results.full)
  <2>1. results = [quick |-> results.quick, full |-> results.full,
                   progress |-> results.progress, error |-> results.error]
    BY DEF IInv, Data
  <2>2. \/ Target = "quick" /\ results' = [results EXCEPT !.quick = job.q]
        \/ Target = "progress" /\ results' = [results EXCEPT !.progress = "running"]
        \/ /\ Target = "full"
           /\ results' = [results EXCEPT !.full = Summary, !.progress = "pass"]
    BY <1>3 DEF Save
  <2> QED
    BY <2>1, <2>2
<1> HIDE DEF other
<1>6. Data' /\ FullIsOneRevision'
  <2>1. job.q \in Revs \cup {0}
    BY <1>2 DEF Placed
  <2>2. \A f : other(f) /\ {f.a, f.b, f.source, f.plugin} \subseteq Revs \cup {0} => Data'
    BY <1>1, <2>1 DEF IInv, Data, other
  <2>3. CASE Target = "full"
    <3>1. other(Summary) /\ job.cmd = "full" /\ Place = 25
      BY <1>3, <1>5, <2>3
    <3>2. {Summary.a, Summary.b, Summary.source, Summary.plugin} \subseteq Revs \cup {0}
      BY <3>1, SoundSummary DEF Summary
    <3>3. Sound(Summary)
      BY <3>1, SoundSummary
    <3>4. results'.full = Summary
      BY <3>1 DEF other
    <3>5. FullIsOneRevision'
      BY <1>1, <3>3, <3>4 DEF FullIsOneRevision, Sound, Healthy
    <3> QED
      BY <2>2, <3>1, <3>2, <3>5
  <2>4. CASE Target # "full"
    <3>1. other(results.full)
      BY <1>5, <2>4
    <3>2. {results.full.a, results.full.b, results.full.source, results.full.plugin}
            \subseteq Revs \cup {0}
      BY DEF IInv, Data
    <3>3. results'.full = results.full
      BY <3>1 DEF other
    <3>4. FullIsOneRevision'
      BY <1>1, <3>3 DEF IInv, Claims, FullIsOneRevision, Sound, Healthy
    <3> QED
      BY <2>2, <3>1, <3>2, <3>4
  <2> QED
    BY <2>3, <2>4
<1>7. EvidenceBacked' /\ LockedOutOnlyByBrokenRemoval'
  BY <1>1 DEF IInv, Claims, EvidenceBacked, Sound, Healthy, ScanHolds, AbiHolds,
     LockedOutOnlyByBrokenRemoval
<1> QED
  BY <1>1, <1>4, <1>6, <1>7, SameTrees DEF IInv, Claims

(* An audit remembers what it found installed. *)
LEMMA InstalledFacts ==
  ASSUME IInv, NEW d \in BuildDirs
  PROVE  Installed(d) \in Revs \cup {0}
<1>1. dirs[d].tree \in Tree!Trees
  BY DirectoryFacts DEF IInv, Data, Directories, Dirs
<1>2. Installed(d) \in 0..Foreign /\ Installed(d) # Foreign
  BY <1>1, TreeFacts, EmptyFacts DEF Installed, IInv, TreeInv
<1> QED
  BY <1>2, RevFacts

LEMMA AuditInv == IInv /\ Audit => IInv'
<1> SUFFICES ASSUME IInv, Audit PROVE IInv'
  OBVIOUS
<1>1. /\ Step("audit") /\ AbiHolds(dirs[Target].tree)
      /\ UNCHANGED <<head, source, dirs, results, evidence, commands, breaks>>
  BY DEF Audit
<1>2. Placed /\ job.cmd # "none"
  BY <1>1, StepFacts DEF IInv, JobInv
<1>3. \/ job.cmd = "full" /\ Place = 5 /\ Target = "build-a"
      \/ job.cmd = "full" /\ Place = 8 /\ Target = "build-b"
      \/ job.cmd = "full" /\ Place = 14 /\ Target = "quick"
      \/ job.cmd = "quick" /\ Place = 4 /\ Target = "quick"
  BY <1>1, <1>2, StepFacts, FullAt, QuickStepsAt, StageStepsAt, EvidenceAt, CleanAt
<1> DEFINE built == Installed(Target)
           next(a, b, q) == [cmd |-> job.cmd, todo |-> Ahead(job.cmd, Place + 1),
                             from |-> job.from, a |-> a, b |-> b, q |-> q]
<1>4. built \in Revs \cup {0} /\ Target \in BuildDirs
  <2>1. Target \in BuildDirs
    BY <1>3 DEF BuildDirs
  <2> QED
    BY <2>1, InstalledFacts
<1>5. ~LastPlace /\ Rest = next(job.a, job.b, job.q)
  <2>1. ~LastPlace
    BY <1>2, <1>3, LastPlaces
  <2> QED
    BY <1>2, <2>1, RestFacts
<1>6. job' = IF Target = "build-a" THEN next(built, job.b, job.q)
             ELSE IF Target = "build-b" THEN next(job.a, built, job.q)
             ELSE next(job.a, job.b, built)
  <2>1. job' = CASE Target = "build-a" -> [Rest EXCEPT !.a = built]
                 [] Target = "build-b" -> [Rest EXCEPT !.b = built]
                 [] OTHER -> [Rest EXCEPT !.q = built]
    BY DEF Audit, Installed
  <2> HIDE DEF built
  <2> QED
    BY <1>5, <2>1
<1> HIDE DEF built
<1>7. /\ Placed' /\ Place' = Place + 1 /\ job'.cmd = job.cmd /\ job'.from = job.from
      /\ job'.a = (IF Target = "build-a" THEN built ELSE job.a)
      /\ job'.b = (IF Target = "build-b" THEN built ELSE job.b)
      /\ job'.q = (IF Target \in {"build-a", "build-b"} THEN job.q ELSE built)
  <2>1. job.a \in Revs \cup {0} /\ job.b \in Revs \cup {0} /\ job.q \in Revs \cup {0}
    BY <1>2 DEF Placed
  <2> DEFINE a == IF Target = "build-a" THEN built ELSE job.a
             b == IF Target = "build-b" THEN built ELSE job.b
             q == IF Target \in {"build-a", "build-b"} THEN job.q ELSE built
  <2>2. a \in Revs \cup {0} /\ b \in Revs \cup {0} /\ q \in Revs \cup {0}
    BY <1>4, <2>1
  <2>3. job' = next(a, b, q)
    BY <1>6
  <2> HIDE DEF a, b, q
  <2>4. Placed' /\ Place' = Place + 1
    BY <1>2, <1>5, <2>2, <2>3, Moved
  <2> QED
    BY <2>3, <2>4 DEF a, b, q
<1>8. Forth
  <2>1. Place \in Nat
    BY <1>2, AtPlace
  <2>2. /\ QuickAt' = QuickAt + (IF job.cmd \in {"full", "quick"} THEN 1 ELSE 0)
        /\ StageAt' = StageAt + (IF job.cmd \in {"full", "stage"} THEN 1 ELSE 0)
    BY <1>7, <2>1 DEF QuickAt, StageAt
  <2> QED
    BY <1>7, <2>1, <2>2 DEF Forth
<1>9. QuickAt # 2 /\ StageAt # 1
  BY <1>3 DEF QuickAt, StageAt
<1>10. job.cmd = "full" => Read(built)
  BY <1>3 DEF built, IInv, JobInv, ReadInv
<1>11. job.cmd = "full" => KeepsReads /\ GainsReads
  <2>1. \A d : Installed(d)' = Installed(d)
    BY <1>1 DEF Installed
  <2>2. Stage' = Stage
    BY <1>1 DEF Stage
  <2> QED
    BY <1>3, <1>7, <1>10, <2>1, <2>2 DEF KeepsReads, GainsReads
<1>12. job.cmd = "full" /\ job.from = head => GainsHealth
  <2> SUFFICES ASSUME job.cmd = "full", job.from = head PROVE GainsHealth
    OBVIOUS
  <2>1. built = head /\ head \in Revs
    BY <1>10, OneRevision DEF IInv, JobInv, Data
  <2>2. Healthy(head, {"abi"})
    BY <1>1, <2>1 DEF AbiHolds, built, Installed
  <2> QED
    BY <1>3, <2>2 DEF GainsHealth
<1>13. JobInv'
  <2> QED
    BY <1>1, <1>3, <1>8, <1>9, <1>11, <1>12, QuietStep
<1> QED
  BY <1>1, <1>13, Unmoved
-----------------------------------------------------------------------------
(***************************************************************************)
(* The steps that write a directory.                                       *)
(***************************************************************************)
LEMMA DirsTyped == Data => dirs \in [Dirs -> Directories]
  BY DEF Data, Directories

LEMMA DirNames ==
  /\ BuildDirs \subseteq Dirs /\ "stage" \in Dirs /\ "temp" \in Dirs
  /\ "stage" \notin BuildDirs /\ "temp" \notin BuildDirs
  /\ BuildDirs = {"build-a", "build-b", "quick"}
  BY DEF Dirs, BuildDirs

LEMMA Written ==
  ASSUME IInv, UNCHANGED <<head, source, results, evidence, commands, breaks>>, JobInv',
         NEW d \in Dirs, dirs' \in [Dirs -> Directories],
         \A e \in Dirs \ {d} : dirs'[e] = dirs[e],
         d \in BuildDirs => Installed(d)' # Foreign,
         d = "stage" => \A p \in Paths : Stage'.sums.files[p] # Foreign,
         dirs'[d].mark \/ dirs'[d] = dirs[d] \/ ~Occupied(dirs'[d])
  PROVE  IInv'
<1>1. Data'
  BY DEF IInv, Data, Directories
<1>2. breaks \in Nat /\ breaks' = breaks /\ breaks <= breaks'
  BY CounterFacts DEF IInv
<1>3. TreeInv' /\ LockedOutOnlyByBrokenRemoval'
  BY <1>2, DirectoryStep
<1>4. FullIsOneRevision' /\ EvidenceBacked'
  BY SameClaimedValues DEF IInv
<1> QED
  BY <1>1, <1>3, <1>4 DEF IInv, Claims

(* A step of staging: it rewrites the tree of the cleaned stage. *)
LEMMA StageStep ==
  ASSUME IInv, job.cmd # "none", job' = Rest, NEW t \in Tree!Trees,
         dirs' = [dirs EXCEPT !["stage"].tree = t],
         UNCHANGED <<head, source, results, evidence, commands, breaks>>,
         \/ job.cmd = "full" /\ Place \in {19, 20, 22, 23}
         \/ job.cmd = "stage" /\ Place \in {2, 3, 5, 6},
         \A p \in Paths : t.files[p] # Foreign /\ t.sums.files[p] # Foreign,
         job.cmd = "full" => /\ Place = 19 => Read(t.files["source"])
                             /\ Place # 19 => t.files["source"] = Stage.files["source"]
                             /\ Place = 20 => Read(t.files["plugin"])
                             /\ Place # 20 => t.files["plugin"] = Stage.files["plugin"]
  PROVE  IInv'
<1>1. Placed /\ dirs \in [Dirs -> Directories] /\ "stage" \in Dirs
  BY DirsTyped, DirNames DEF IInv, JobInv
<1>2. /\ dirs' \in [Dirs -> Directories] /\ dirs'["stage"].mark = dirs["stage"].mark
      /\ Stage' = t /\ \A e \in Dirs \ {"stage"} : dirs'[e] = dirs[e]
  BY <1>1, TreeSet DEF Stage
<1>3. StageAt \in {2, 3, 5, 6} /\ QuickAt # 2
  BY DEF StageAt, QuickAt
<1>4. dirs["stage"].mark
  BY <1>3 DEF IInv, JobInv, MarkInv
<1>5. JobInv'
  <2>1. SUFFICES ASSUME Forth, job'.a = job.a, job'.b = job.b, job'.q = job.q PROVE JobInv'
    BY <1>1, GoesForth
  <2>2. /\ Installed("build-a")' = Installed("build-a")
        /\ Installed("build-b")' = Installed("build-b")
        /\ Installed("quick")' = Installed("quick")
    BY <1>2, DirNames DEF Installed
  <2>3. job.cmd = "full" => KeepsReads /\ GainsReads
    BY <1>2, <2>1, <2>2 DEF KeepsReads, GainsReads
  <2>4. job.cmd = "full" => GainsHealth
    BY DEF GainsHealth
  <2>5. ReadInv' /\ HealthInv'
    BY <2>1, <2>3, <2>4, ReadStep, HealthStep DEF IInv, JobInv
  <2>6. MarkInv'
    <3>1. \A d \in Dirs : dirs[d].mark => dirs'[d].mark
      BY <1>2
    <3>2. job.cmd = "full" => Place # 3 /\ Place # 6
      OBVIOUS
    <3>3. \A p \in Paths : Stage'.files[p] # Foreign
      BY <1>2
    <3>4. StageAt # 1
      BY <1>3
    <3> QED
      BY <1>3, <2>1, <3>1, <3>2, <3>3, <3>4, MarkStep DEF IInv, JobInv
  <2>7. SealInv'
    BY <2>1 DEF SealInv, Forth
  <2> QED
    BY <2>1, <2>5, <2>6, <2>7 DEF JobInv, Forth
<1>6. \A p \in Paths : Stage'.sums.files[p] # Foreign
  BY <1>2
<1>7. dirs'["stage"].mark /\ "stage" \notin BuildDirs
  BY <1>2, <1>4, DirNames
<1> QED
  BY <1>1, <1>2, <1>5, <1>6, <1>7, Written

(* The stage as it is being filled. *)
LEMMA StageFacts ==
  ASSUME IInv, StageAt \in {2, 3, 5, 6}
  PROVE  /\ Stage \in Tree!Trees /\ "source" \in Paths /\ "plugin" \in Paths
         /\ \A p \in Paths : Stage.files[p] # Foreign /\ Stage.sums.files[p] # Foreign
<1>1. \A p \in Paths : Stage.files[p] # Foreign
  BY DEF IInv, JobInv, MarkInv
<1>2. \A p \in Paths : Stage.sums.files[p] # Foreign
  BY DEF IInv, TreeInv
<1> QED
  BY <1>1, <1>2, StagePut, EmptyFacts

LEMMA CopySourceInv == IInv /\ CopySource => IInv'
<1> SUFFICES ASSUME IInv, CopySource PROVE IInv'
  OBVIOUS
<1> DEFINE t == Put(Stage, "source", head)
<1>1. /\ Step("copy") /\ dirs' = [dirs EXCEPT !["stage"].tree = t] /\ job' = Rest
      /\ UNCHANGED <<head, source, results, evidence, commands, breaks>>
  BY DEF CopySource, PutStage, Advance, Put
<1>2. Placed /\ job.cmd # "none"
  BY <1>1, StepFacts DEF IInv, JobInv
<1>3. \/ job.cmd = "full" /\ Place = 19
      \/ job.cmd = "stage" /\ Place = 2
  BY <1>1, <1>2, StepFacts, FullAt, QuickStepsAt, StageStepsAt, EvidenceAt, CleanAt
<1>4. StageAt \in {2, 3, 5, 6}
  BY <1>3 DEF StageAt
<1>5. head \in Revs /\ head \in 0..Foreign /\ head # Foreign
  BY RevFacts DEF IInv, Data
<1>6. /\ t \in Tree!Trees /\ t.files["source"] = head
      /\ t.files["plugin"] = Stage.files["plugin"]
      /\ \A p \in Paths : t.files[p] # Foreign /\ t.sums.files[p] # Foreign
  <2>1. /\ t \in Tree!Trees /\ t.sums = Stage.sums
        /\ \A p \in Paths : t.files[p] = IF p = "source" THEN head ELSE Stage.files[p]
    BY <1>4, <1>5, StageFacts, FileSet
  <2> HIDE DEF t
  <2> QED
    BY <1>4, <1>5, <2>1, StageFacts
<1>7. job.cmd = "full" => Read(head)
  <2>1. job.cmd = "full" => job.from \in 1..head
    BY DEF IInv, JobInv, ReadInv
  <2> QED
    BY <1>5, <2>1, RevFacts DEF Read, Revs
<1> HIDE DEF t
<1>8. \/ job.cmd = "full" /\ Place \in {19, 20, 22, 23}
      \/ job.cmd = "stage" /\ Place \in {2, 3, 5, 6}
  BY <1>3
<1>9. job.cmd = "full" => /\ Place = 19 => Read(t.files["source"])
                          /\ Place # 19 => t.files["source"] = Stage.files["source"]
                          /\ Place = 20 => Read(t.files["plugin"])
                          /\ Place # 20 => t.files["plugin"] = Stage.files["plugin"]
  BY <1>3, <1>6, <1>7
<1> QED
  BY <1>1, <1>2, <1>6, <1>8, <1>9, StageStep

LEMMA CopyPluginInv == IInv /\ CopyPlugin => IInv'
<1> SUFFICES ASSUME IInv, CopyPlugin PROVE IInv'
  OBVIOUS
<1> DEFINE t == Put(Stage, "plugin", Artifact)
<1>1. /\ Step("plugin") /\ dirs' = [dirs EXCEPT !["stage"].tree = t] /\ job' = Rest
      /\ UNCHANGED <<head, source, results, evidence, commands, breaks>>
  BY DEF CopyPlugin, PutStage, Advance, Put
<1>2. Placed /\ job.cmd # "none"
  BY <1>1, StepFacts DEF IInv, JobInv
<1>3. \/ job.cmd = "full" /\ Place = 20
      \/ job.cmd = "stage" /\ Place = 3
  BY <1>1, <1>2, StepFacts, FullAt, QuickStepsAt, StageStepsAt, EvidenceAt, CleanAt
<1>4. StageAt \in {2, 3, 5, 6}
  BY <1>3 DEF StageAt
<1>5. Artifact \in 0..Foreign /\ Artifact # Foreign
  <2>1. Installed("build-a") \in Revs \cup {0} /\ Installed("quick") \in Revs \cup {0}
    BY InstalledFacts, DirNames
  <2> QED
    BY <2>1, RevFacts DEF Artifact, Installed
<1>6. /\ t \in Tree!Trees /\ t.files["plugin"] = Artifact
      /\ t.files["source"] = Stage.files["source"]
      /\ \A p \in Paths : t.files[p] # Foreign /\ t.sums.files[p] # Foreign
  <2>1. /\ t \in Tree!Trees /\ t.sums = Stage.sums
        /\ \A p \in Paths : t.files[p] = IF p = "plugin" THEN Artifact ELSE Stage.files[p]
    BY <1>4, <1>5, StageFacts, FileSet
  <2> HIDE DEF t
  <2> QED
    BY <1>4, <1>5, <2>1, StageFacts
<1>7. job.cmd = "full" => Read(Artifact)
  <2> SUFFICES ASSUME job.cmd = "full" PROVE Read(Artifact)
    OBVIOUS
  <2>1. Read(Installed("build-a")) /\ job.from \in 1..head
    BY <1>3 DEF IInv, JobInv, ReadInv
  <2>2. Installed("build-a") # 0
    BY <2>1 DEF Read
  <2> QED
    BY <2>1, <2>2 DEF Artifact, Installed
<1> HIDE DEF t
<1>8. \/ job.cmd = "full" /\ Place \in {19, 20, 22, 23}
      \/ job.cmd = "stage" /\ Place \in {2, 3, 5, 6}
  BY <1>3
<1>9. job.cmd = "full" => /\ Place = 19 => Read(t.files["source"])
                          /\ Place # 19 => t.files["source"] = Stage.files["source"]
                          /\ Place = 20 => Read(t.files["plugin"])
                          /\ Place # 20 => t.files["plugin"] = Stage.files["plugin"]
  BY <1>3, <1>6, <1>7
<1> QED
  BY <1>1, <1>2, <1>6, <1>8, <1>9, StageStep

LEMMA WriteManifestInv == IInv /\ WriteManifest => IInv'
<1> SUFFICES ASSUME IInv, WriteManifest PROVE IInv'
  OBVIOUS
<1> DEFINE t == Tree!WithManifest(Stage)
<1>1. /\ Step("manifest") /\ dirs' = [dirs EXCEPT !["stage"].tree = t] /\ job' = Rest
      /\ UNCHANGED <<head, source, results, evidence, commands, breaks>>
  BY DEF WriteManifest, PutStage, Advance
<1>2. Placed /\ job.cmd # "none"
  BY <1>1, StepFacts DEF IInv, JobInv
<1>3. \/ job.cmd = "full" /\ Place = 22
      \/ job.cmd = "stage" /\ Place = 5
  BY <1>1, <1>2, StepFacts, FullAt, QuickStepsAt, StageStepsAt, EvidenceAt, CleanAt
<1>4. StageAt \in {2, 3, 5, 6}
  BY <1>3 DEF StageAt
<1>5. t \in Tree!Trees /\ t.files = Stage.files /\ t.sums = Stage.sums
  BY <1>4, StageFacts DEF Tree!WithManifest, Tree!Trees
<1>6. \A p \in Paths : t.files[p] # Foreign /\ t.sums.files[p] # Foreign
  BY <1>4, <1>5, StageFacts
<1> HIDE DEF t
<1>8. \/ job.cmd = "full" /\ Place \in {19, 20, 22, 23}
      \/ job.cmd = "stage" /\ Place \in {2, 3, 5, 6}
  BY <1>3
<1>9. job.cmd = "full" => /\ Place = 19 => Read(t.files["source"])
                          /\ Place # 19 => t.files["source"] = Stage.files["source"]
                          /\ Place = 20 => Read(t.files["plugin"])
                          /\ Place # 20 => t.files["plugin"] = Stage.files["plugin"]
  BY <1>3, <1>5
<1> QED
  BY <1>1, <1>2, <1>5, <1>6, <1>8, <1>9, StageStep

LEMMA WriteSumsInv == IInv /\ WriteSums => IInv'
<1> SUFFICES ASSUME IInv, WriteSums PROVE IInv'
  OBVIOUS
<1> DEFINE t == Tree!WithSums(Stage)
<1>1. /\ Step("sums") /\ dirs' = [dirs EXCEPT !["stage"].tree = t] /\ job' = Rest
      /\ UNCHANGED <<head, source, results, evidence, commands, breaks>>
  BY DEF WriteSums, PutStage, Advance
<1>2. Placed /\ job.cmd # "none"
  BY <1>1, StepFacts DEF IInv, JobInv
<1>3. \/ job.cmd = "full" /\ Place = 23
      \/ job.cmd = "stage" /\ Place = 6
  BY <1>1, <1>2, StepFacts, FullAt, QuickStepsAt, StageStepsAt, EvidenceAt, CleanAt
<1>4. StageAt \in {2, 3, 5, 6}
  BY <1>3 DEF StageAt
<1>5. t \in Tree!Trees /\ t.files = Stage.files /\ t.sums.files = Stage.files
  BY <1>4, StageFacts DEF Tree!WithSums, Tree!Trees
<1>6. \A p \in Paths : t.files[p] # Foreign /\ t.sums.files[p] # Foreign
  BY <1>4, <1>5, StageFacts
<1> HIDE DEF t
<1>8. \/ job.cmd = "full" /\ Place \in {19, 20, 22, 23}
      \/ job.cmd = "stage" /\ Place \in {2, 3, 5, 6}
  BY <1>3
<1>9. job.cmd = "full" => /\ Place = 19 => Read(t.files["source"])
                          /\ Place # 19 => t.files["source"] = Stage.files["source"]
                          /\ Place = 20 => Read(t.files["plugin"])
                          /\ Place # 20 => t.files["plugin"] = Stage.files["plugin"]
  BY <1>3, <1>5
<1> QED
  BY <1>1, <1>2, <1>5, <1>6, <1>8, <1>9, StageStep

LEMMA CompileInv == IInv /\ Compile => IInv'
<1> SUFFICES ASSUME IInv, Compile PROVE IInv'
  OBVIOUS
<1>0. PICK d : d = Target
  OBVIOUS
<1>1. /\ Step("compile") /\ Healthy(head, {"ctest"}) /\ job' = Rest
      /\ dirs' = [dirs EXCEPT ![d].tree.files["plugin"] = head]
      /\ UNCHANGED <<head, source, results, evidence, commands, breaks>>
  BY <1>0 DEF Compile, Advance
<1>2. Placed /\ job.cmd # "none" /\ dirs \in [Dirs -> Directories]
  BY <1>1, StepFacts, DirsTyped DEF IInv, JobInv
<1>3. \/ job.cmd = "full" /\ Place = 4 /\ d = "build-a"
      \/ job.cmd = "full" /\ Place = 7 /\ d = "build-b"
      \/ job.cmd = "full" /\ Place = 13 /\ d = "quick"
      \/ job.cmd = "quick" /\ Place = 3 /\ d = "quick"
  BY <1>0, <1>1, <1>2, StepFacts, FullAt, QuickStepsAt, StageStepsAt, EvidenceAt, CleanAt
<1>4. d \in BuildDirs /\ d \in Dirs /\ d # "stage"
  BY <1>3, DirNames
<1>5. head \in Revs /\ head \in 0..Foreign /\ head # Foreign
  BY RevFacts DEF IInv, Data
<1>6. /\ dirs' \in [Dirs -> Directories] /\ dirs'[d].mark = dirs[d].mark
      /\ Installed(d)' = head /\ \A e \in Dirs \ {d} : dirs'[e] = dirs[e]
  <2> DEFINE t == Put(dirs[d].tree, "plugin", head)
  <2>1. dirs' = [dirs EXCEPT ![d].tree = t]
    BY <1>1 DEF Put
  <2>2. t \in Tree!Trees /\ t.files["plugin"] = head
    BY <1>2, <1>4, <1>5, DirectoryFacts, FileSet, EmptyFacts
  <2> HIDE DEF t
  <2>3. /\ dirs' \in [Dirs -> Directories] /\ dirs'[d].mark = dirs[d].mark
        /\ dirs'[d].tree = t /\ \A e \in Dirs \ {d} : dirs'[e] = dirs[e]
    BY <1>2, <1>4, <2>1, <2>2, TreeSet
  <2> QED
    BY <2>2, <2>3 DEF Installed
<1>7. QuickAt \in {-6, -3, 3} /\ StageAt \in {-13, -10, -4, 0} /\ (d = "quick" => QuickAt = 3)
  BY <1>3 DEF StageAt, QuickAt
<1>8. dirs[d].mark
  BY <1>3, <1>7 DEF IInv, JobInv, MarkInv
<1>9. JobInv'
  <2>1. SUFFICES ASSUME Forth, job'.a = job.a, job'.b = job.b, job'.q = job.q PROVE JobInv'
    BY <1>1, <1>2, GoesForth
  <2>2. \A e \in BuildDirs \ {d} : Installed(e)' = Installed(e)
    BY <1>6, DirNames DEF Installed
  <2>3. job.cmd = "full" => Read(head)
    <3>1. job.cmd = "full" => job.from \in 1..head
      BY DEF IInv, JobInv, ReadInv
    <3> QED
      BY <1>5, <3>1, RevFacts DEF Read, Revs
  <2>4. job.cmd = "full" => KeepsReads
    BY <1>3, <2>1, <2>2, DirNames DEF KeepsReads
  <2>5. job.cmd = "full" => GainsReads
    BY <1>3, <1>6, <2>3 DEF GainsReads
  <2>6. job.cmd = "full" => GainsHealth
    BY <1>1, <1>3 DEF GainsHealth
  <2>7. ReadInv' /\ HealthInv'
    BY <1>1, <2>1, <2>4, <2>5, <2>6, ReadStep, HealthStep DEF IInv, JobInv
  <2>8. MarkInv'
    <3>1. \A e \in Dirs : dirs[e].mark => dirs'[e].mark
      BY <1>6
    <3>2. ~(StageAt >= 1) /\ StageAt # 1 /\ QuickAt # 2
      BY <1>7
    <3>3. job.cmd = "full" => Place # 3 /\ Place # 6
      BY <1>3
    <3> QED
      BY <2>1, <3>1, <3>2, <3>3, MarkStep DEF IInv, JobInv
  <2>9. SealInv'
    BY <1>3, <2>1 DEF SealInv, Forth
  <2> QED
    BY <2>1, <2>7, <2>8, <2>9 DEF JobInv, Forth
<1>10. Installed(d)' # Foreign /\ dirs'[d].mark
  BY <1>5, <1>6, <1>8
<1> QED
  BY <1>1, <1>4, <1>6, <1>9, <1>10, Written

LEMMA CleanInv == IInv /\ Clean => IInv'
<1> SUFFICES ASSUME IInv, Clean PROVE IInv'
  OBVIOUS
<1>0. PICK d : d = Target
  OBVIOUS
<1> DEFINE x == Generated(Tree!EmptyTree)
<1>1. /\ Step("clean") /\ dirs' = [dirs EXCEPT ![d] = x] /\ job' = Rest
      /\ UNCHANGED <<head, source, results, evidence, commands, breaks>>
  BY <1>0 DEF Clean, Advance
<1>2. Placed /\ job.cmd # "none" /\ dirs \in [Dirs -> Directories]
  BY <1>1, StepFacts, DirsTyped DEF IInv, JobInv
<1>3. \/ job.cmd = "full" /\ Place = 3 /\ d = "build-a"
      \/ job.cmd = "full" /\ Place = 6 /\ d = "build-b"
      \/ job.cmd = "full" /\ Place = 12 /\ d = "quick"
      \/ job.cmd = "full" /\ Place = 18 /\ d = "stage"
      \/ job.cmd = "quick" /\ Place = 2 /\ d = "quick"
      \/ job.cmd = "stage" /\ Place = 1 /\ d = "stage"
      \/ job.cmd = "evidence" /\ Place = 2 /\ d = "temp"
  BY <1>0, <1>1, <1>2, StepFacts, FullAt, QuickStepsAt, StageStepsAt, EvidenceAt, CleanAt
<1>4. x \in Directories /\ x.mark /\ x.tree = Tree!EmptyTree
  BY EmptyFacts DEF Generated, Directories
<1> HIDE DEF x
<1>5. d \in Dirs
  BY <1>3, DirNames
<1>6. /\ dirs' \in [Dirs -> Directories] /\ dirs'[d] = x
      /\ \A e \in Dirs \ {d} : dirs'[e] = dirs[e]
  BY <1>1, <1>2, <1>4, <1>5, DirectorySet
<1>7. d = "stage" => \A p \in Paths : Stage'.files[p] # Foreign /\ Stage'.sums.files[p] # Foreign
  BY <1>4, <1>6, EmptyFacts, RevFacts DEF Stage
<1>8. d # "stage" => Stage' = Stage
  BY <1>6, DirNames DEF Stage
<1>9. JobInv'
  <2>1. SUFFICES ASSUME Forth, job'.a = job.a, job'.b = job.b, job'.q = job.q PROVE JobInv'
    BY <1>1, <1>2, GoesForth
  <2>2. \A e \in BuildDirs \ {d} : Installed(e)' = Installed(e)
    BY <1>6, DirNames DEF Installed
  <2>3. job.cmd = "full" => KeepsReads
    BY <1>3, <2>1, <2>2, DirNames DEF KeepsReads
  <2>4. job.cmd = "full" => GainsReads /\ GainsHealth
    BY <1>3 DEF GainsReads, GainsHealth
  <2>5. ReadInv' /\ HealthInv'
    BY <1>1, <2>1, <2>3, <2>4, ReadStep, HealthStep DEF IInv, JobInv
  <2>6. MarkInv'
    <3>1. \A e \in Dirs : dirs[e].mark => dirs'[e].mark
      BY <1>4, <1>6
    <3>2. /\ QuickAt = 2 => d = "quick"
          /\ StageAt >= 1 => d = "stage"
      BY <1>3 DEF QuickAt, StageAt
    <3>3. /\ job.cmd = "full" /\ Place = 3 => d = "build-a"
          /\ job.cmd = "full" /\ Place = 6 => d = "build-b"
      BY <1>3
    <3>4. StageAt = 1 => StageAt >= 1
      OBVIOUS
    <3>5. /\ d = "quick" => dirs'["quick"].mark
          /\ d = "stage" => dirs'["stage"].mark
          /\ d = "build-a" => dirs'["build-a"].mark
          /\ d = "build-b" => dirs'["build-b"].mark
      BY <1>4, <1>6
    <3> QED
      BY <1>7, <2>1, <3>1, <3>2, <3>3, <3>4, <3>5, MarkStep DEF IInv, JobInv
  <2>7. SealInv'
    <3> SUFFICES ASSUME job.cmd = "evidence"
                 PROVE  results'.full # NoFull /\ StageVerifies(Stage)'
      BY <2>1 DEF SealInv, Forth
    <3>1. Place = 2 /\ Stage' = Stage
      BY <1>3, <1>8
    <3>2. results.full # NoFull /\ StageVerifies(Stage)
      BY <3>1 DEF IInv, JobInv, SealInv
    <3> QED
      BY <1>1, <3>1, <3>2 DEF StageVerifies, PolicyHolds, ScanHolds, AbiHolds, Healthy
  <2> QED
    BY <2>1, <2>5, <2>6, <2>7 DEF JobInv, Forth
<1>10. d \in BuildDirs => Installed(d)' # Foreign
  BY <1>4, <1>6, EmptyFacts, RevFacts DEF Installed
<1>11. dirs'[d].mark
  BY <1>4, <1>6
<1> QED
  BY <1>1, <1>5, <1>6, <1>7, <1>9, <1>10, <1>11, Written

LEMMA RemoveInv == IInv /\ Remove => IInv'
<1> SUFFICES ASSUME IInv, Remove PROVE IInv'
  OBVIOUS
<1>0. PICK d : d = Target
  OBVIOUS
<1>1. /\ Step("remove") /\ job' = Rest
      /\ dirs' = IF dirs[d].mark THEN [dirs EXCEPT ![d] = Empty] ELSE dirs
      /\ UNCHANGED <<head, source, results, evidence, commands, breaks>>
  BY <1>0 DEF Remove, Advance
<1>2. Placed /\ job.cmd # "none" /\ dirs \in [Dirs -> Directories]
  BY <1>1, StepFacts, DirsTyped DEF IInv, JobInv
<1>3. job.cmd = "clean" /\ d \in BuildDirs \cup {"stage"}
  BY <1>0, <1>1, <1>2, StepFacts, FullAt, QuickStepsAt, StageStepsAt, EvidenceAt, CleanAt
<1>4. d \in Dirs
  BY <1>3, DirNames
<1>5. JobInv'
  <2>1. SUFFICES ASSUME Forth PROVE JobInv'
    BY <1>1, <1>2, GoesForth
  <2>2. job'.cmd = "clean" /\ QuickAt' = 0 /\ StageAt' = 0
    BY <1>3, <2>1 DEF Forth, QuickAt, StageAt
  <2> QED
    BY <2>1, <2>2 DEF Forth, JobInv, ReadInv, HealthInv, MarkInv, SealInv
<1>6. CASE dirs' = dirs
  BY <1>1, <1>5, <1>6, Unmoved
<1>7. CASE dirs' = [dirs EXCEPT ![d] = Empty]
  <2>1. Empty \in Directories /\ Empty.tree = Tree!EmptyTree
    BY EmptyFacts DEF Empty, Directories
  <2>2. /\ dirs' \in [Dirs -> Directories] /\ dirs'[d] = Empty
        /\ \A e \in Dirs \ {d} : dirs'[e] = dirs[e]
    BY <1>2, <1>4, <1>7, <2>1, DirectorySet
  <2>3. ~Occupied(dirs'[d])
    BY <2>2 DEF Occupied
  <2>4. d \in BuildDirs => Installed(d)' # Foreign
    BY <2>1, <2>2, EmptyFacts, RevFacts DEF Installed
  <2>5. d = "stage" => \A p \in Paths : Stage'.sums.files[p] # Foreign
    BY <2>1, <2>2, EmptyFacts DEF Stage
  <2> QED
    BY <1>1, <1>4, <1>5, <2>2, <2>3, <2>4, <2>5, Written
<1> QED
  BY <1>1, <1>6, <1>7

(* What breaks off: a removal, of which anything may be left. *)
LEMMA BreakCleaningInv == IInv /\ BreakCleaning => IInv'
<1> SUFFICES ASSUME IInv, BreakCleaning PROVE IInv'
  OBVIOUS
<1>0. PICK d : d = Target
  OBVIOUS
<1>1. /\ Step("clean") \/ Step("remove")
      /\ breaks < MaxBreaks /\ breaks' = breaks + 1 /\ job' = Idle
      /\ results' = [results EXCEPT !.error = results.error \/ job.cmd = "full"]
      /\ UNCHANGED <<head, source, evidence, commands>>
  BY DEF BreakCleaning
<1>2. PICK x \in Unlinked(dirs[d]) : dirs' = [dirs EXCEPT ![d] = x]
  BY <1>0 DEF BreakCleaning
<1>3. Placed /\ job.cmd # "none" /\ dirs \in [Dirs -> Directories]
  BY <1>1, StepFacts, DirsTyped DEF IInv, JobInv
<1>4. d \in Dirs
  BY <1>0, <1>1, <1>3, StepFacts, FullAt, QuickStepsAt, StageStepsAt, EvidenceAt, CleanAt, DirNames
<1>5. /\ x \in Directories /\ \A p \in Paths : x.tree.files[p] \in {dirs[d].tree.files[p], 0}
      /\ x.tree.sums \in {dirs[d].tree.sums, Tree!NoSums}
  BY <1>2, <1>3, <1>4, RemainsFacts
<1>6. /\ dirs' \in [Dirs -> Directories] /\ dirs'[d] = x
      /\ \A e \in Dirs \ {d} : dirs'[e] = dirs[e]
  BY <1>2, <1>3, <1>4, <1>5, DirectorySet
<1>7. breaks \in Nat /\ breaks' \in 0..MaxBreaks /\ breaks' \in Nat /\ breaks <= breaks' /\ breaks' > 0
  BY <1>1, CounterFacts, RevFacts DEF IInv
<1>8. d \in BuildDirs => Installed(d)' # Foreign
  <2>1. d \in BuildDirs => Installed(d) # Foreign
    BY DEF IInv, TreeInv
  <2>2. Installed(d)' \in {Installed(d), 0}
    BY <1>5, <1>6, EmptyFacts DEF Installed
  <2> QED
    BY <2>1, <2>2, RevFacts
<1>9. d = "stage" => \A p \in Paths : Stage'.sums.files[p] # Foreign
  <2>1. \A p \in Paths : Stage.sums.files[p] # Foreign
    BY DEF IInv, TreeInv
  <2>2. \A p \in Paths : Tree!NoSums.files[p] # Foreign
    BY RevFacts DEF Tree!NoSums, Tree!NoList
  <2> QED
    BY <1>5, <1>6, <2>1, <2>2 DEF Stage
<1>10. TreeInv' /\ LockedOutOnlyByBrokenRemoval'
  BY <1>4, <1>6, <1>7, <1>8, <1>9, DirectoryStep
<1>11. /\ results'.quick = results.quick /\ results'.full = results.full
       /\ results'.progress = results.progress
       /\ results' = [quick |-> results'.quick, full |-> results'.full,
                      progress |-> results'.progress, error |-> results'.error]
  BY <1>1 DEF IInv, Data
<1>12. Data'
  BY <1>1, <1>6, <1>7, <1>11 DEF IInv, Data, Directories
<1>13. FullIsOneRevision' /\ EvidenceBacked'
  BY <1>1, <1>11 DEF IInv, Claims, FullIsOneRevision, EvidenceBacked, Sound, Healthy, ScanHolds,
     AbiHolds
<1> QED
  BY <1>1, <1>10, <1>12, <1>13, JobEnds DEF IInv, Claims

(* An edit by hand: of a stage that is marked, while no command runs. *)
LEMMA EditStageInv == ASSUME IInv, NEW p \in Paths, EditStage(p) PROVE IInv'
<1>1. /\ job' = Idle /\ breaks < MaxBreaks /\ breaks' = breaks + 1 /\ dirs["stage"].mark
      /\ UNCHANGED <<head, source, results, evidence, commands>>
  BY DEF EditStage
<1>2. PICK c \in {0, Foreign} : dirs' = [dirs EXCEPT !["stage"].tree.files[p] = c]
  BY DEF EditStage
<1> DEFINE t == Put(Stage, p, c)
<1>3. dirs' = [dirs EXCEPT !["stage"].tree = t]
  BY <1>2 DEF Put, Stage
<1>4. dirs \in [Dirs -> Directories] /\ "stage" \in Dirs /\ "stage" \notin BuildDirs
  BY DirsTyped, DirNames DEF IInv
<1>5. t \in Tree!Trees /\ t.sums = Stage.sums
  <2>1. c \in 0..Foreign
    BY RevFacts
  <2> QED
    BY <2>1, StagePut, FileSet
<1> HIDE DEF t
<1>6. /\ dirs' \in [Dirs -> Directories] /\ dirs'["stage"].mark = dirs["stage"].mark
      /\ Stage' = t /\ \A e \in Dirs \ {"stage"} : dirs'[e] = dirs[e]
  BY <1>3, <1>4, <1>5, TreeSet DEF Stage
<1>7. breaks \in Nat /\ breaks' \in 0..MaxBreaks /\ breaks' \in Nat /\ breaks <= breaks'
  BY <1>1, CounterFacts, RevFacts DEF IInv
<1>8. \A r \in Paths : Stage'.sums.files[r] # Foreign
  BY <1>5, <1>6 DEF IInv, TreeInv
<1>9. dirs'["stage"].mark
  BY <1>1, <1>6
<1>10. TreeInv' /\ LockedOutOnlyByBrokenRemoval'
  BY <1>4, <1>6, <1>7, <1>8, <1>9, DirectoryStep
<1>11. Data'
  BY <1>1, <1>6, <1>7 DEF IInv, Data, Directories
<1>12. FullIsOneRevision' /\ EvidenceBacked'
  BY <1>1, SameClaimedValues DEF IInv
<1> QED
  BY <1>1, <1>10, <1>11, <1>12, JobEnds DEF IInv, Claims

-----------------------------------------------------------------------------
(***************************************************************************)
(* The invariant.                                                          *)
(***************************************************************************)
LEMMA HoldingFacts ==
  /\ Tree!Holding("extra", Foreign) \in Tree!Trees
  /\ Tree!Holding("extra", Foreign).files["plugin"] = 0
  /\ Tree!Holding("extra", Foreign).sums = Tree!EmptyTree.sums
<1>1. Tree!Holding("extra", Foreign) = Put(Tree!EmptyTree, "extra", Foreign)
  BY DEF Tree!Holding, Put
<1>2. Put(Tree!EmptyTree, "extra", Foreign) \in Tree!Trees
  BY FileSet, EmptyFacts, RevFacts
<1>3. Tree!Holding("extra", Foreign).sums = Tree!EmptyTree.sums
  BY DEF Tree!Holding, Tree!EmptyTree
<1>4. Tree!Holding("extra", Foreign).files["plugin"] = 0
  BY EmptyFacts DEF Tree!Holding, Tree!EmptyTree, Tree!NoFiles
<1> QED
  BY <1>1, <1>2, <1>3, <1>4

LEMMA InitInv == Init => IInv
<1> SUFFICES ASSUME Init PROVE IInv
  OBVIOUS
<1> DEFINE users == [mark |-> FALSE, tree |-> Tree!Holding("extra", Foreign)]
<1>1. PICK d \in InTheWay : dirs = [n \in Dirs |-> IF n = d THEN users ELSE Empty]
  BY DEF Init
<1>2. users \in Directories /\ Empty \in Directories /\ Empty.tree = Tree!EmptyTree
  BY EmptyFacts, HoldingFacts DEF Directories, Empty
<1>3. ~Occupied(Empty) /\ users.tree = Tree!Holding("extra", Foreign)
  BY DEF Occupied
<1> HIDE DEF users
<1>4. dirs \in [Dirs -> Directories] /\ \A n \in Dirs : dirs[n] \in {users, Empty}
  BY <1>1, <1>2
<1>5. TreeInv
  <2>1. \A n \in BuildDirs : Installed(n) # Foreign
    BY <1>2, <1>3, <1>4, DirNames, EmptyFacts, HoldingFacts, RevFacts DEF Installed
  <2>2. \A p \in Paths : Stage.sums.files[p] # Foreign
    BY <1>2, <1>3, <1>4, DirNames, EmptyFacts, HoldingFacts DEF Stage
  <2> QED
    BY <2>1, <2>2 DEF TreeInv
<1>6. Claims
  <2>1. LockedOutOnlyByBrokenRemoval
    BY <1>3, <1>4 DEF LockedOutOnlyByBrokenRemoval, ForeignDir
  <2>2. FullIsOneRevision /\ EvidenceBacked
    BY DEF Init, FullIsOneRevision, EvidenceBacked, NoEvidence
  <2> QED
    BY <2>1, <2>2 DEF Claims
<1>7. Data
  BY <1>4, RevFacts DEF Init, Data, Directories, NoFull, NoEvidence
<1>8. JobInv
  <2>1. Placed
    BY IdleFacts DEF Init, Placed, Idle
  <2>2. job.cmd = "none" /\ QuickAt = 0 /\ StageAt = 0
    BY IdleFacts DEF Init, QuickAt, StageAt
  <2> QED
    BY <2>1, <2>2 DEF JobInv, ReadInv, HealthInv, MarkInv, SealInv
<1> QED
  BY <1>5, <1>6, <1>7, <1>8 DEF IInv

LEMMA StutterInv == IInv /\ UNCHANGED vars => IInv'
<1> SUFFICES ASSUME IInv, UNCHANGED vars PROVE IInv'
  OBVIOUS
<1>1. UNCHANGED <<head, source, dirs, results, evidence, job, commands, breaks>>
  BY DEF vars
<1>2. Place' = Place /\ QuickAt' = QuickAt /\ StageAt' = StageAt /\ Stage' = Stage
  BY <1>1 DEF Place, QuickAt, StageAt, Stage
<1>3. JobInv'
  BY <1>1, <1>2 DEF IInv, JobInv, Placed, ReadInv, HealthInv, MarkInv, SealInv, Read, Installed,
     Healthy, StageVerifies, PolicyHolds, ScanHolds, AbiHolds
<1> QED
  BY <1>1, <1>3, Unmoved

LEMMA StepInv == IInv /\ [Next]_vars => IInv'
<1> SUFFICES ASSUME IInv, [Next]_vars PROVE IInv'
  OBVIOUS
<1>1. CASE \E cmd \in DOMAIN Plans : Begin(cmd)
  BY <1>1, BeginInv
<1>2. CASE Commit
  BY <1>2, CommitInv
<1>3. CASE \E p \in Paths : EditStage(p)
  BY <1>3, EditStageInv
<1>4. CASE Clean \/ Remove \/ BreakCleaning
  BY <1>4, CleanInv, RemoveInv, BreakCleaningInv
<1>5. CASE Compile \/ Audit \/ Compare \/ RunChecks
  BY <1>5, CompileInv, AuditInv, CompareInv, RunChecksInv
<1>6. CASE \/ CopySource \/ CopyPlugin \/ CheckPolicy \/ WriteManifest \/ WriteSums
           \/ VerifyStage
  BY <1>6, CopySourceInv, CopyPluginInv, CheckPolicyInv, WriteManifestInv, WriteSumsInv,
     VerifyStageInv
<1>7. CASE Save \/ Accept \/ Seal \/ BreakSealing
  BY <1>7, SaveInv, AcceptInv, SealStep, BreakSealingInv
<1>8. CASE \E reported \in BOOLEAN : Fail(reported)
  BY <1>8, FailInv
<1>9. CASE UNCHANGED vars
  BY <1>9, StutterInv
<1> QED
  BY <1>1, <1>2, <1>3, <1>4, <1>5, <1>6, <1>7, <1>8, <1>9 DEF Next

(* The invariant of a command: how far it is, and what each step it has    *)
(* behind it left in the directories, the result files and the job.        *)
THEOREM Invariance == Spec => []IInv
<1> QED
  BY InitInv, StepInv, PTL DEF Spec

(* Every variable stays in its range, and a running command has a step     *)
(* left to do (main and the *_command functions).                          *)
THEOREM TypeCorrectness == Spec => []TypeOK
<1>1. IInv => TypeOK
  BY TypeParts DEF IInv, JobInv
<1> QED
  BY <1>1, Invariance, PTL

(* full.json (full_command) is never written from a mixture: in whatever   *)
(* state earlier commands, failures and broken removals left the           *)
(* directories, the two builds compared are of revisions with one ABI, and *)
(* if the tree stood still, all it built, tested and staged is one         *)
(* revision, which fails none of the checks.                               *)
THEOREM FullRunsAreOneRevision == Spec => []FullIsOneRevision
<1>1. IInv => FullIsOneRevision
  BY DEF IInv, Claims
<1> QED
  BY <1>1, Invariance, PTL

(* Sealed evidence (evidence_command) quotes a sound full run and a stage  *)
(* that nobody has touched: what was edited by hand after staging does not *)
(* verify, and nothing touches the stage between the check and the seal.   *)
THEOREM EvidenceIsBacked == Spec => []EvidenceBacked
<1>1. IInv => EvidenceBacked
  BY DEF IInv, Claims
<1> QED
  BY <1>1, Invariance, PTL

(* A directory that _prepare_generated refuses to clean holds what the     *)
(* user put there, or is left of a removal that broke off (rmtree).        *)
THEOREM LockoutsComeFromRemovals == Spec => []LockedOutOnlyByBrokenRemoval
<1>1. IInv => LockedOutOnlyByBrokenRemoval
  BY DEF IInv, Claims
<1> QED
  BY <1>1, Invariance, PTL
=============================================================================
