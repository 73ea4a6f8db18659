-------------------------- MODULE ReleasePipeline ---------------------------
(***************************************************************************)
(* tools/release_cli.py: from the staged submission to a release candidate *)
(* with a reproducible archive, its clean extraction, the cold-start runs, *)
(* the audits and the frozen evidence of G3-G.                             *)
(*                                                                         *)
(* Three kinds of state outlive a command: the generated root dist/        *)
(* g3-g-release, the tracked files of docs/submission/release, which the   *)
(* next candidate packs, and the evidence.  A candidate is named by the    *)
(* digest of its payload, so here its id is that payload.  Building stands *)
(* for stage_command as MODULE SubmissionPipeline has it, without its      *)
(* failures.                                                               *)
(***************************************************************************)
EXTENDS Naturals, Sequences, FiniteSets

CONSTANTS
    MaxRev,      \* revisions of the working tree
    MaxWrites,   \* writes of candidate metadata into docs/submission/release
    MaxBreaks    \* commands cut short and edits by hand

ASSUME ReleaseAssumption ==
    MaxRev \in Nat \ {0} /\ MaxWrites \in Nat \ {0} /\ MaxBreaks \in Nat

VARIABLES
    head,      \* the revision in the working tree
    old,       \* the state of the delivery documents that must not change
    stage,     \* dist/submission-staging
    owned,     \* dist/g3-g-release
    tracked,   \* docs/submission/release
    cold,      \* the cold-start result files
    evidence,  \* experiments/submission/evidence/g3_g_<timestamp>
    job, breaks

vars == <<head, old, stage, owned, tracked, cold, evidence, job, breaks>>

(***************************************************************************)
(* "payload" is what stage_command copies, "placeholder" the file it       *)
(* leaves for the demo, "demo" the G3-F overlay, "tools" and "docs" the    *)
(* G3-G overlay: the release tools and all of docs/submission/release,     *)
(* whose content is the number of the write that made it.                  *)
(***************************************************************************)
Paths == {"payload", "placeholder", "demo", "tools", "docs"}
Foreign == MaxRev + MaxWrites + 1
Tree == INSTANCE StagedTree WITH Contents <- 1..Foreign, Absent <- 0, Missing <- Foreign + 1
None == Tree!EmptyTree

NoCandidate == [mark |-> FALSE, payload |-> None, manifest |-> None]
NoArchive == [payload |-> None, manifest |-> None]
NoRoot == [there |-> FALSE, mark |-> FALSE, candidate |-> NoCandidate, archive |-> NoArchive]
NoEvidence == [state |-> "none", id |-> None, extracted |-> NoArchive]
NotRun == MaxRev + 1
Idle == [cmd |-> "none", at |-> 1, write |-> FALSE, saw |-> NoCandidate]

Init ==
    /\ head = 1 /\ old = 1
    /\ stage = None
    /\ owned = NoRoot
    /\ tracked = [docs |-> 1, manifest |-> None, clean |-> NoArchive,
                  baseline |-> 0, audited |-> FALSE, ready |-> None]
    /\ cold = [run1 |-> NotRun, run2 |-> NotRun, passed |-> FALSE]
    /\ evidence = NoEvidence
    /\ job = Idle /\ breaks = 0

(***************************************************************************)
(* The two overlays.  Each copies its files, drops the entries they        *)
(* replace and writes MANIFEST.json, then SHA256SUMS.                      *)
(***************************************************************************)
Put(tree, files, c) == [tree EXCEPT !.files = [p \in Paths |-> IF p \in files THEN c ELSE @[p]]]
Resealed(tree) == Tree!WithSums(Tree!WithManifest(tree))
Submission == Resealed(Put(None, {"payload", "placeholder"}, head))
DemoBeside(tree) == Resealed(Put(tree, {"demo"}, head))   \* mutant: the placeholder stays
Demo(tree) == Resealed([Put(tree, {"demo"}, head) EXCEPT !.files["placeholder"] = 0])
Overlay(tree) == Resealed([Put(tree, {"tools"}, head) EXCEPT !.files["docs"] = tracked.docs])

(* verify_stage; staging_validation also wants the demo files listed       *)
StageVerifies(tree) == Tree!Verifies(tree)
StagingValid(tree) == StageVerifies(tree) /\ tree.listed["demo"] # 0

(***************************************************************************)
(* verify_candidate: marker and manifest there, the manifest lists exactly *)
(* the payload, the payload is a stage that verifies.                      *)
(***************************************************************************)
CandidatePresent(c) == c.mark /\ c.manifest # None       \* mutant: hashes not compared
CandidateValid(c) ==
    /\ c.mark /\ c.manifest # None
    /\ c.manifest = c.payload
    /\ StageVerifies(c.payload)
Archived(c) == [payload |-> c.payload, manifest |-> c.manifest]
Extracted(a) == [mark |-> TRUE, payload |-> a.payload, manifest |-> a.manifest]

(* validate_archive compares the names of the archive with the candidate's *)
SameNames(a, c) == \A p \in Paths : (a.payload.files[p] = 0) <=> (c.payload.files[p] = 0)

(***************************************************************************)
(* Commands and their steps.                                               *)
(***************************************************************************)
Steps == [build |-> <<"stage", "demo", "overlay", "verify", "clear", "copy", "archive", "check",
                      "publish">>,
          extract |-> <<"look", "verify extraction", "report">>]
Step(s) == job.cmd # "none" /\ Steps[job.cmd][job.at] = s
StillRunning == [job EXCEPT !.at = @ + 1]                 \* mutant: a command never ends
Rest == IF job.at = Len(Steps[job.cmd]) THEN Idle ELSE [job EXCEPT !.at = @ + 1]
Keep == UNCHANGED <<head, old, cold, evidence, breaks>>

BeginBuild(write) ==
    /\ job = Idle /\ (write => tracked.docs < MaxWrites)
    /\ job' = [Idle EXCEPT !.cmd = "build", !.write = write]
    /\ UNCHANGED <<stage, owned, tracked>> /\ Keep

(* build_staging: stage_command, and on what is there then the G3-F        *)
(* overlay and staging_validation                                          *)
BuildStaging ==
    /\ Step("stage")
    /\ stage' = Submission
    /\ job' = Rest /\ UNCHANGED <<owned, tracked>> /\ Keep
OverlayDemo ==
    /\ Step("demo")
    /\ stage' = Demo(stage) /\ StagingValid(stage')
    /\ job' = Rest /\ UNCHANGED <<owned, tracked>> /\ Keep
OverlayRelease ==
    /\ Step("overlay")
    /\ stage' = Overlay(stage)
    /\ job' = Rest /\ UNCHANGED <<owned, tracked>> /\ Keep
VerifyStaging ==
    /\ Step("verify")
    /\ StageVerifies(stage)
    /\ job' = Rest /\ UNCHANGED <<stage, owned, tracked>> /\ Keep

(* prepare_owned_root removes the root, the archives and the extractions   *)
MayClear(root) == root.there => root.mark
Cleared == [NoRoot EXCEPT !.there = TRUE, !.mark = TRUE]
ClearRoot ==
    /\ Step("clear")
    /\ MayClear(owned)
    /\ owned' = Cleared
    /\ job' = Rest /\ UNCHANGED <<stage, tracked>> /\ Keep
CopyCandidate ==
    /\ Step("copy")
    /\ owned' = [owned EXCEPT !.candidate = [mark |-> TRUE, payload |-> stage, manifest |-> stage]]
    /\ job' = Rest /\ UNCHANGED <<stage, tracked>> /\ Keep
WriteArchive ==
    /\ Step("archive")
    /\ owned' = [owned EXCEPT !.archive = Archived(owned.candidate)]
    /\ job' = Rest /\ UNCHANGED <<stage, tracked>> /\ Keep
CheckCandidate ==
    /\ Step("check")
    /\ SameNames(owned.archive, owned.candidate) /\ CandidateValid(owned.candidate)
    /\ job' = Rest /\ UNCHANGED <<stage, owned, tracked>> /\ Keep

(* _write_tracked_release_metadata, unless --no-write-tracked-metadata     *)
Published == [tracked EXCEPT !.docs = @ + 1, !.manifest = owned.candidate.manifest]
Publish ==
    /\ Step("publish")
    /\ tracked' = IF job.write THEN Published ELSE tracked
    /\ job' = Rest /\ UNCHANGED <<stage, owned>> /\ Keep

(***************************************************************************)
(* run_clean_extraction, on the archive of the candidate.  It works on two *)
(* extractions of its own and at the end requires that candidate and       *)
(* archive are what they were at the start.                                *)
(***************************************************************************)
BeginExtraction ==
    /\ job = Idle /\ owned.archive # NoArchive /\ tracked.docs < MaxWrites
    /\ owned.archive.manifest = owned.candidate.manifest   \* found by the id of the candidate
    /\ job' = [Idle EXCEPT !.cmd = "extract"]
    /\ UNCHANGED <<stage, owned, tracked>> /\ Keep
LookAtCandidate ==
    /\ Step("look")
    /\ SameNames(owned.archive, owned.candidate)
    /\ job' = [Rest EXCEPT !.saw = owned.candidate]
    /\ UNCHANGED <<stage, owned, tracked>> /\ Keep
VerifyExtraction ==
    /\ Step("verify extraction")
    /\ CandidateValid(Extracted(owned.archive))
    /\ job' = Rest /\ UNCHANGED <<stage, owned, tracked>> /\ Keep
CandidateImmutable == owned.candidate = job.saw
ReportExtraction ==
    /\ Step("report")
    /\ CandidateImmutable
    /\ tracked' = [tracked EXCEPT !.docs = @ + 1, !.clean = owned.archive]
    /\ job' = Rest /\ UNCHANGED <<stage, owned>> /\ Keep

(***************************************************************************)
(* Authority and audits.  build_authority records the old documents as     *)
(* they are and resets the readiness; build_audits wants the two cold      *)
(* starts compared and equal.                                              *)
(***************************************************************************)
AuthorityValid == tracked.baseline = old
BuildAuthority ==
    /\ job = Idle
    /\ tracked' = [tracked EXCEPT !.baseline = old, !.ready = None]
    /\ UNCHANGED <<stage, owned, job>> /\ Keep
BuildAudits ==
    /\ job = Idle
    /\ AuthorityValid /\ cold.passed
    /\ tracked' = [tracked EXCEPT !.audited = TRUE]
    /\ UNCHANGED <<stage, owned, job>> /\ Keep

(***************************************************************************)
(* Cold start: a run clones the revision, runs the entry points in order   *)
(* and stops at the first that fails; the comparison wants two passing     *)
(* runs with the same commit and outputs, none missing.  A run is the      *)
(* revision it passed on, or 0.  Bound: no runs after a comparison that    *)
(* passed, or after the clean extraction, which does not look at them.     *)
(***************************************************************************)
ColdRun(r) ==
    /\ job = Idle /\ ~cold.passed /\ tracked.clean = NoArchive
    /\ \E outcome \in {head, 0} : cold' = [cold EXCEPT ![r] = outcome]
    /\ UNCHANGED <<head, old, stage, owned, tracked, evidence, job, breaks>>
RunsAgree == cold.run1 = cold.run2 /\ cold.run1 \in 1..MaxRev
CompareRuns ==
    /\ job = Idle /\ cold.run1 # NotRun /\ cold.run2 # NotRun
    /\ cold' = [cold EXCEPT !.passed = RunsAgree]
    /\ UNCHANGED <<head, old, stage, owned, tracked, evidence, job, breaks>>

(***************************************************************************)
(* freeze_evidence and synchronize_final_release_state.                    *)
(***************************************************************************)
MetadataValid == tracked.manifest # None
MayFreeze ==
    /\ evidence.state = "none"
    /\ AuthorityValid /\ tracked.audited /\ MetadataValid /\ tracked.clean # NoArchive
    /\ owned.candidate.manifest # None
Freeze ==
    /\ job = Idle /\ MayFreeze
    /\ \/ evidence' = [state |-> "sealed", id |-> owned.candidate.manifest, extracted |-> tracked.clean]
          /\ UNCHANGED breaks
       \/ breaks < MaxBreaks /\ breaks' = breaks + 1
          /\ evidence' = [NoEvidence EXCEPT !.state = "part"]
    /\ UNCHANGED <<head, old, stage, owned, tracked, cold, job>>
MaySynchronize ==
    /\ CandidateValid(owned.candidate) /\ owned.archive # NoArchive
    /\ SameNames(owned.archive, owned.candidate)
Synchronize ==
    /\ job = Idle /\ evidence.state = "sealed" /\ tracked.docs < MaxWrites
    /\ MaySynchronize
    /\ tracked' = [Published EXCEPT !.ready = owned.candidate.manifest]
    /\ UNCHANGED <<stage, owned, job>> /\ Keep

(***************************************************************************)
(* The user and the machine: a commit or an edit at any moment; a command  *)
(* cut short, and a clearing cut short, which may lose the marker first.   *)
(***************************************************************************)
Commit ==
    /\ head < MaxRev /\ head' = head + 1
    /\ UNCHANGED <<old, stage, owned, tracked, cold, evidence, job, breaks>>
EditOldDocuments ==
    /\ breaks < MaxBreaks /\ breaks' = breaks + 1 /\ old' = old + 1
    /\ UNCHANGED <<head, stage, owned, tracked, cold, evidence, job>>
EditCandidate(p) ==
    /\ breaks < MaxBreaks /\ breaks' = breaks + 1
    /\ owned.candidate.payload.files[p] # 0
    /\ owned' = [owned EXCEPT !.candidate.payload.files[p] = Foreign]
    /\ UNCHANGED <<head, old, stage, tracked, cold, evidence, job>>
Abort ==
    /\ job # Idle /\ job' = Idle
    /\ UNCHANGED <<stage, owned, tracked>> /\ Keep
BreakClearing ==
    /\ Step("clear") /\ MayClear(owned) /\ owned.there
    /\ breaks < MaxBreaks /\ breaks' = breaks + 1
    /\ \E m \in BOOLEAN, c \in {owned.candidate, NoCandidate}, a \in {owned.archive, NoArchive} :
           owned' = [there |-> TRUE, mark |-> m, candidate |-> c, archive |-> a]
    /\ job' = Idle
    /\ UNCHANGED <<head, old, stage, tracked, cold, evidence>>

Next ==
    \/ \E write \in BOOLEAN : BeginBuild(write)
    \/ BuildStaging \/ OverlayDemo \/ OverlayRelease \/ VerifyStaging \/ ClearRoot \/ CopyCandidate
    \/ WriteArchive \/ CheckCandidate \/ Publish
    \/ BeginExtraction \/ LookAtCandidate \/ VerifyExtraction \/ ReportExtraction
    \/ BuildAuthority \/ BuildAudits \/ CompareRuns \/ \E r \in {"run1", "run2"} : ColdRun(r)
    \/ Freeze \/ Synchronize
    \/ Commit \/ EditOldDocuments \/ (\E p \in Paths : EditCandidate(p)) \/ Abort \/ BreakClearing

Spec == Init /\ [][Next]_vars

-----------------------------------------------------------------------------
(***************************************************************************)
(* Properties.                                                             *)
(***************************************************************************)
Archives == [payload: Tree!Trees, manifest: Tree!Trees]
Candidates == [mark: BOOLEAN, payload: Tree!Trees, manifest: Tree!Trees]
Roots == [there: BOOLEAN, mark: BOOLEAN, candidate: Candidates, archive: Archives]
TypeOK ==
    /\ head \in 1..MaxRev /\ old \in 1..(MaxBreaks + 1) /\ breaks \in 0..MaxBreaks
    /\ stage \in Tree!Trees /\ owned \in Roots
    /\ tracked.docs \in 1..MaxWrites /\ tracked.clean \in Archives
    /\ {tracked.manifest, tracked.ready} \subseteq Tree!Trees
    /\ evidence.state \in {"none", "part", "sealed"} /\ evidence.id \in Tree!Trees
    /\ job.at \in 1..9 /\ job.saw \in Candidates

(* The manifest in docs/submission/release (build_candidate,               *)
(* synchronize_tracked_candidate_metadata): whatever was edited, rebuilt   *)
(* or cut short before, it lists a tree that verifies, that no hand        *)
(* touched, with the demo in place of its placeholder; its parts were read *)
(* in this order from revisions that did not go back, and the release      *)
(* documents it packs are older than itself.                               *)
FromOneBuild(t) ==
    /\ Tree!Verifies(t) /\ t.files["placeholder"] = 0
    /\ \A p \in Paths : t.files[p] # Foreign
    /\ 0 < t.files["payload"] /\ t.files["payload"] <= t.files["demo"]
    /\ t.files["demo"] <= t.files["tools"] /\ t.files["tools"] <= head
PublishedIsOneBuild ==
    tracked.manifest # None =>
        FromOneBuild(tracked.manifest) /\ tracked.manifest.files["docs"] < tracked.docs

(* Frozen evidence (freeze_evidence) quotes an extraction whose files are  *)
(* those its own manifest names, all from one build; readiness is only     *)
(* ever given to a candidate like that, and only with evidence.            *)
EvidenceBacked ==
    /\ evidence.state = "sealed" =>
           /\ evidence.extracted.manifest = evidence.extracted.payload
           /\ FromOneBuild(evidence.extracted.payload)
    /\ tracked.ready # None => evidence.state = "sealed" /\ FromOneBuild(tracked.ready)
=============================================================================
