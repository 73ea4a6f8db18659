------------------------- MODULE SubmissionPipeline -------------------------
(***************************************************************************)
(* tools/submission_cli/core.py: the command line that builds, checks,     *)
(* stages and seals the submission.  Every command is a fixed sequence of  *)
(* steps over directories and result files that outlive it, so a later     *)
(* command meets whatever an earlier one, or one that was cut short, left. *)
(* Meanwhile the working tree moves on: `head' is the revision that the    *)
(* next compiler, checksum or copy reads.                                  *)
(*                                                                         *)
(* A run of checks is one step: two of them build in directories of their  *)
(* own, which nothing reads again.  dirs[n] stands for the build tree and  *)
(* the install tree of a name: both are prepared first, one after the      *)
(* other, and only what is installed is read again.                        *)
(***************************************************************************)
EXTENDS Naturals, Sequences, FiniteSets

CONSTANTS
    MaxRev,       \* revisions of the working tree
    Sources,      \* the histories to consider: [1..MaxRev -> [abi, broken]]
    MaxCommands,  \* commands the user types
    MaxBreaks,    \* removals cut short, evidence cut short, edits by hand
    InTheWay      \* where the user may have put something of their own

ASSUME PipelineAssumption ==
    MaxRev \in Nat \ {0} /\ MaxCommands \in Nat /\ MaxBreaks \in Nat

VARIABLES
    head,      \* the revision in the working tree
    source,    \* what each revision is like
    dirs,      \* generated directories
    results,   \* quick.json, full.json, full-progress.json, full-error.json
    evidence,  \* experiments/submission/evidence/g3_b_<timestamp>
    job,       \* the command running
    commands, breaks

vars == <<head, source, dirs, results, evidence, job, commands, breaks>>

Revs == 1..MaxRev
Foreign == MaxRev + 1     \* content no revision has
Paths == {"source", "plugin", "extra"}
Tree == INSTANCE StagedTree WITH Contents <- 1..Foreign, Absent <- 0, Missing <- Foreign + 1

BuildDirs == {"build-a", "build-b", "quick"}
Dirs == BuildDirs \cup {"stage", "temp"}
Empty == [mark |-> FALSE, tree |-> Tree!EmptyTree]
Unmarked(tree) == [mark |-> FALSE, tree |-> tree]     \* mutant: the marker is forgotten
Generated(tree) == [mark |-> TRUE, tree |-> tree]
Occupied(d) == d # Empty
ForeignDir(d) == ~d.mark /\ Occupied(d)

(***************************************************************************)
(* The checks a revision can fail.  "ctest" fails before anything is       *)
(* installed, "abi" after it; "scan" is the forbidden-data scan or the     *)
(* claim audit over the staged text.                                       *)
(***************************************************************************)
QuickChecks == {"regression", "replay", "old-evidence", "g3-b2", "g3-b3"}
FullChecks == {"consumer", "regression", "replay", "old-evidence"}
FinalChecks == {"g3-b2-full", "g3-b3-full", "direct"}
Skippable == {"direct"}    \* not built, and not failed, where there is no CANN
Faults == {"environment", "ctest", "abi", "scan"} \cup QuickChecks \cup FullChecks \cup FinalChecks

(***************************************************************************)
(* Plans: the steps of each command, in the order of its function.         *)
(***************************************************************************)
Check(names) == [op |-> "check", on |-> names]
On(op, d) == [op |-> op, on |-> d]
BuildPlan(n) == <<On("clean", n), On("compile", n), On("audit", n)>>
StagePlan == <<On("clean", "stage"), On("copy", "stage"), On("plugin", "stage"),
               On("policy", "stage"), On("manifest", "stage"), On("sums", "stage")>>
QuickPlan == <<Check({"environment"})>> \o BuildPlan("quick")
             \o <<Check(QuickChecks), On("save", "quick")>>
BuildsPlan == <<Check({"environment"}), On("save", "progress")>>
              \o BuildPlan("build-a") \o BuildPlan("build-b")
              \o <<On("compare", "builds"), Check(FullChecks)>>
StageAndSave == StagePlan \o <<On("verify", "stage"), On("save", "full")>>
FullWithoutFinalChecks == BuildsPlan \o QuickPlan \o StageAndSave   \* mutant
FullPlan == BuildsPlan \o QuickPlan \o <<Check(FinalChecks)>> \o StageAndSave
EvidencePlan == <<On("accept", "evidence"), On("clean", "temp"), On("seal", "evidence")>>
Plans == [quick |-> QuickPlan, full |-> FullPlan, stage |-> StagePlan,
          evidence |-> EvidencePlan,
          clean |-> <<On("remove", "build-a"), On("remove", "build-b"), On("remove", "quick"),
                      On("remove", "stage")>>]

Idle == [cmd |-> "none", todo |-> <<>>, from |-> 0, a |-> 0, b |-> 0, q |-> 0]
NoFull == [a |-> 0, b |-> 0, quick |-> 0, source |-> 0, plugin |-> 0, steady |-> FALSE]
NoEvidence == [state |-> "none", full |-> NoFull, stage |-> Tree!EmptyTree]

Init ==
    /\ head = 1
    /\ source \in Sources
    /\ \E d \in InTheWay :
           dirs = [n \in Dirs |-> IF n = d THEN [mark |-> FALSE, tree |-> Tree!Holding("extra", Foreign)]
                                  ELSE Empty]
    /\ results = [quick |-> 0, full |-> NoFull, progress |-> "none", error |-> FALSE]
    /\ evidence = NoEvidence
    /\ job = Idle /\ commands = 0 /\ breaks = 0

Step(op) == job.cmd # "none" /\ Head(job.todo).op = op
Target == Head(job.todo).on
StillRunning == [job EXCEPT !.todo = Tail(@)]           \* mutant: a command never ends
Rest == IF Len(job.todo) = 1 THEN Idle ELSE [job EXCEPT !.todo = Tail(@)]
Advance == job' = Rest /\ UNCHANGED <<head, source, commands, breaks>>
Healthy(r, names) == source[r].broken \notin names

(***************************************************************************)
(* The user: a command (`main'), a commit at any moment, an edit of the    *)
(* staged tree between commands.                                           *)
(***************************************************************************)
Begin(cmd) ==
    /\ job = Idle /\ commands < MaxCommands
    /\ job' = [Idle EXCEPT !.cmd = cmd, !.todo = Plans[cmd], !.from = head]
    /\ commands' = commands + 1
    /\ UNCHANGED <<head, source, dirs, results, evidence, breaks>>

Commit ==
    /\ head < MaxRev
    /\ head' = head + 1
    /\ UNCHANGED <<source, dirs, results, evidence, job, commands, breaks>>

EditStage(p) ==
    /\ job = Idle /\ breaks < MaxBreaks /\ dirs["stage"].mark
    /\ \E c \in {0, Foreign} : dirs' = [dirs EXCEPT !["stage"].tree.files[p] = c]
    /\ dirs' # dirs
    /\ breaks' = breaks + 1
    /\ UNCHANGED <<head, source, results, evidence, job, commands>>

(***************************************************************************)
(* Directories.  _prepare_generated removes a non-empty directory only if  *)
(* it carries the marker, then creates it and marks it.                    *)
(***************************************************************************)
MayClean(d) == Occupied(d) => d.mark
Clean ==
    /\ Step("clean")
    /\ MayClean(dirs[Target])
    /\ dirs' = [dirs EXCEPT ![Target] = Generated(Tree!EmptyTree)]
    /\ UNCHANGED <<results, evidence>>
    /\ Advance

(* clean-generated: only what carries the marker; RESULT_ROOT never does.  *)
Remove ==
    /\ Step("remove")
    /\ dirs' = IF dirs[Target].mark THEN [dirs EXCEPT ![Target] = Empty] ELSE dirs
    /\ UNCHANGED <<results, evidence>>
    /\ Advance

(* rmtree cut short, by a signal or an error: files go in any order, the   *)
(* marker among them.                                                      *)
Unlinked(d) == [mark: {d.mark, FALSE}, tree: Tree!Remains(d.tree)]
BreakCleaning ==
    /\ Step("clean") \/ Step("remove")
    /\ dirs[Target].mark /\ breaks < MaxBreaks
    /\ \E d \in Unlinked(dirs[Target]) : dirs' = [dirs EXCEPT ![Target] = d]
    /\ breaks' = breaks + 1
    /\ job' = Idle
    /\ results' = [results EXCEPT !.error = @ \/ job.cmd = "full"]
    /\ UNCHANGED <<head, source, evidence, commands>>

(***************************************************************************)
(* Building and checking.                                                  *)
(***************************************************************************)
(* configure, build, ctest, install                                        *)
Compile ==
    /\ Step("compile")
    /\ Healthy(head, {"ctest"})
    /\ dirs' = [dirs EXCEPT ![Target].tree.files["plugin"] = head]
    /\ UNCHANGED <<results, evidence>>
    /\ Advance

AbiHolds(tree) == tree.files["plugin"] \in Revs => Healthy(tree.files["plugin"], {"abi"})
Audit ==
    /\ Step("audit")
    /\ AbiHolds(dirs[Target].tree)
    /\ LET built == dirs[Target].tree.files["plugin"] IN
       job' = CASE Target = "build-a" -> [Rest EXCEPT !.a = built]
                [] Target = "build-b" -> [Rest EXCEPT !.b = built]
                [] OTHER -> [Rest EXCEPT !.q = built]
    /\ UNCHANGED <<head, source, dirs, results, evidence, commands, breaks>>

(* the two builds agree in everything but, perhaps, the digest             *)
Compare ==
    /\ Step("compare")
    /\ source[job.a].abi = source[job.b].abi
    /\ UNCHANGED <<dirs, results, evidence>>
    /\ Advance

RunChecks ==
    /\ Step("check")
    /\ Healthy(head, Target \ Skippable)
    /\ UNCHANGED <<dirs, results, evidence>>
    /\ Advance

(***************************************************************************)
(* Staging.                                                                *)
(***************************************************************************)
Stage == dirs["stage"].tree
PutStage(tree) ==
    /\ dirs' = [dirs EXCEPT !["stage"].tree = tree]
    /\ UNCHANGED <<results, evidence>>
    /\ Advance

CopySource == Step("copy") /\ PutStage([Stage EXCEPT !.files["source"] = head])

(* the first of build-a and quick that has an artifact                     *)
Artifact ==
    IF dirs["build-a"].tree.files["plugin"] # 0
    THEN dirs["build-a"].tree.files["plugin"] ELSE dirs["quick"].tree.files["plugin"]
CopyPlugin ==
    /\ Step("plugin")
    /\ Artifact # 0
    /\ PutStage([Stage EXCEPT !.files["plugin"] = Artifact])

ScanHolds(tree) == tree.files["source"] \in Revs => Healthy(tree.files["source"], {"scan"})
PolicyHolds(tree) == ScanHolds(tree) /\ AbiHolds(tree) /\ tree.files["plugin"] # 0
CheckPolicy == Step("policy") /\ PolicyHolds(Stage) /\ PutStage(Stage)

WriteManifest == Step("manifest") /\ PutStage(Tree!WithManifest(Stage))
WriteSums == Step("sums") /\ PutStage(Tree!WithSums(Stage))

(* verify_stage: read only, also a command of its own                      *)
StageVerifies(tree) ==
    /\ Tree!Verifies(tree)
    /\ PolicyHolds(tree)
    /\ tree.listed["source"] # 0
VerifyStage ==
    /\ Step("verify")
    /\ StageVerifies(Stage)
    /\ UNCHANGED <<dirs, results, evidence>>
    /\ Advance

(***************************************************************************)
(* Result files and evidence.                                              *)
(***************************************************************************)
Summary == [a |-> job.a, b |-> job.b, quick |-> job.q, source |-> Stage.files["source"],
            plugin |-> Stage.files["plugin"], steady |-> job.from = head]
Save ==
    /\ Step("save")
    /\ results' = CASE Target = "quick" -> [results EXCEPT !.quick = job.q]
                    [] Target = "progress" -> [results EXCEPT !.progress = "running"]
                    [] OTHER -> [results EXCEPT !.full = Summary, !.progress = "pass"]
    /\ UNCHANGED <<dirs, evidence>>
    /\ Advance

(* evidence_command: a new directory, both results present, the stage good *)
Acceptable ==
    /\ evidence.state = "none"
    /\ results.full # NoFull /\ results.quick # 0
    /\ StageVerifies(Stage)
Accept == Step("accept") /\ Acceptable /\ UNCHANGED <<dirs, results, evidence>> /\ Advance

Seal ==
    /\ Step("seal")
    /\ evidence' = [state |-> "sealed", full |-> results.full, stage |-> Stage]
    /\ UNCHANGED <<dirs, results>>
    /\ Advance

BreakSealing ==
    /\ Step("seal") /\ breaks < MaxBreaks
    /\ evidence' = [NoEvidence EXCEPT !.state = "part"]
    /\ breaks' = breaks + 1 /\ job' = Idle
    /\ UNCHANGED <<head, source, dirs, results, commands>>

(* Any step may raise, and a step whose condition fails must: main reports *)
(* it, and for full also writes full-error.json.  A signal leaves no file. *)
Fail(reported) ==
    /\ job # Idle
    /\ job' = Idle
    /\ results' = [results EXCEPT !.error = @ \/ (reported /\ job.cmd = "full")]
    /\ UNCHANGED <<head, source, dirs, evidence, commands, breaks>>

Next ==
    \/ \E cmd \in DOMAIN Plans : Begin(cmd)
    \/ Commit
    \/ \E p \in Paths : EditStage(p)
    \/ Clean \/ Remove \/ BreakCleaning
    \/ Compile \/ Audit \/ Compare \/ RunChecks
    \/ CopySource \/ CopyPlugin \/ CheckPolicy \/ WriteManifest \/ WriteSums \/ VerifyStage
    \/ Save \/ Accept \/ Seal \/ BreakSealing
    \/ \E reported \in BOOLEAN : Fail(reported)

Spec == Init /\ [][Next]_vars

-----------------------------------------------------------------------------
(***************************************************************************)
(* Properties.                                                             *)
(***************************************************************************)
TypeOK ==
    /\ head \in Revs
    /\ source \in Sources
    /\ dirs \in [Dirs -> [mark: BOOLEAN, tree: Tree!Trees]]
    /\ results.quick \in Revs \cup {0} /\ results.progress \in {"none", "running", "pass"}
    /\ {results.full.a, results.full.b, results.full.source, results.full.plugin}
         \subseteq Revs \cup {0}
    /\ evidence.state \in {"none", "part", "sealed"}
    /\ job.cmd \in DOMAIN Plans \cup {"none"} /\ job.from \in Revs \cup {0}
    /\ job # Idle => job.todo # <<>>
    /\ commands \in 0..MaxCommands /\ breaks \in 0..MaxBreaks

(* full.json (full_command): whatever earlier commands left behind, a full *)
(* run that passed while the tree stood still built, tested and staged one *)
(* revision, and one that fails no check; if the tree moved, at least the  *)
(* two builds it compared have the same ABI.                               *)
Sound(full) ==
    /\ full.a \in Revs /\ full.b \in Revs /\ source[full.a].abi = source[full.b].abi
    /\ full.steady => /\ {full.b, full.quick, full.source, full.plugin} = {full.a}
                      /\ Healthy(full.a, Faults \ Skippable)
FullIsOneRevision == results.full # NoFull => Sound(results.full)

(* Sealed evidence (evidence_command) quotes a sound full run and a stage  *)
(* no hand has touched since it was staged, in which the scan finds        *)
(* nothing and the plugin has the declared ABI.                            *)
EvidenceBacked ==
    evidence.state = "sealed" =>
        /\ Sound(evidence.full)
        /\ \A p \in Paths : evidence.stage.files[p] # Foreign
        /\ {evidence.stage.files["source"], evidence.stage.files["plugin"]} \subseteq Revs
        /\ ScanHolds(evidence.stage) /\ AbiHolds(evidence.stage)

(* A directory with content and no marker is the user's and never cleaned; *)
(* that makes a removal that broke off a directory nobody may clean again, *)
(* and it is the only way the tool locks itself out: a build               *)
(* or a staging that fails or is killed elsewhere leaves its directories   *)
(* marked.                                                                 *)
LockedOutOnlyByBrokenRemoval ==
    \A d \in Dirs : ForeignDir(dirs[d]) =>
        dirs[d].tree = Tree!Holding("extra", Foreign) \/ breaks > 0
=============================================================================
