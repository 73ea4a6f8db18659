------------------------ MODULE ReleasePipelineProofs ------------------------
(***************************************************************************)
(* Theorems about ReleasePipeline, for any number of revisions, of writes  *)
(* of metadata and of breaks: a published manifest and frozen evidence     *)
(* each come from one build that verifies.                                 *)
(***************************************************************************)
EXTENDS ReleasePipeline, TLAPS

(***************************************************************************)
(* The inductive invariant.  A command in progress knows where it is, and  *)
(* one that will write metadata has room for it.                           *)
(***************************************************************************)
Jobs ==
  [cmd : {"none", "build", "extract"}, at : 1..9, write : BOOLEAN, saw : Candidates]
Command ==
  /\ job \in Jobs
  /\ job.cmd = "none" => job = Idle
  /\ job.cmd = "extract" => job.at \in 1..3
  /\ job.cmd = "extract" \/ job.write => tracked.docs < MaxWrites

Shapes ==
  /\ old <= breaks + 1
  /\ tracked \in [docs : 1..MaxWrites, manifest : Tree!Trees, clean : Archives,
                  baseline : Nat, audited : BOOLEAN, ready : Tree!Trees]
  /\ evidence \in [state : {"none", "part", "sealed"}, id : Tree!Trees, extracted : Archives]

(* The tree a build works on: staged, with the demo in place, complete. *)
Staged(t) == 0 < t.files["payload"] /\ t.files["payload"] <= head
HalfBuilt(t) ==
  /\ t.files["placeholder"] = 0 /\ 0 < t.files["payload"]
  /\ t.files["payload"] <= t.files["demo"] /\ t.files["demo"] <= head
Built(t) == FromOneBuild(t) /\ t.files["docs"] <= tracked.docs

StageInv ==
  job.cmd = "build" =>
    /\ job.at = 2 => Staged(stage)
    /\ job.at = 3 => HalfBuilt(stage)
    /\ job.at > 3 => Built(stage)

(* What is edited by hand is the payload; the manifests stay as they were. *)
RootInv ==
  /\ owned.candidate.manifest # None => Built(owned.candidate.manifest)
  /\ owned.archive.manifest # None => Built(owned.archive.manifest)

Whole(archive) == archive.manifest = archive.payload /\ FromOneBuild(archive.payload)
ExtractionInv == job.cmd = "extract" /\ job.at = 3 => Whole(owned.archive)

Claims ==
  /\ tracked.clean # NoArchive => Whole(tracked.clean)
  /\ PublishedIsOneBuild /\ EvidenceBacked

WorkInv == StageInv /\ RootInv /\ ExtractionInv
IInv == TypeOK /\ Command /\ Shapes /\ WorkInv /\ Claims

-----------------------------------------------------------------------------
(***************************************************************************)
(* Trees.                                                                  *)
(***************************************************************************)
LEMMA BoundFacts ==
  /\ MaxRev \in Nat \ {0} /\ MaxWrites \in Nat \ {0} /\ MaxBreaks \in Nat
  /\ Foreign \in Nat \ {0} /\ Foreign > MaxRev /\ Foreign > MaxWrites
  BY ReleaseAssumption DEF Foreign

LEMMA TreeFacts ==
  ASSUME NEW t \in Tree!Trees
  PROVE  /\ \A p \in Paths : t.files[p] \in 0..Foreign
         /\ t.files \in Tree!Files
  BY BoundFacts DEF Tree!Trees, Tree!Files

LEMMA NoneFacts ==
  None \in Tree!Trees /\ NoArchive \in Archives /\ NoCandidate \in Candidates
<1>1. None \in Tree!Trees
  BY BoundFacts DEF None, Tree!EmptyTree, Tree!NoFiles, Tree!NoSums, Tree!Trees, Tree!Files
<1> QED
  BY <1>1 DEF NoArchive, NoCandidate, Archives, Candidates

(* A tree whose manifest and checksums were just written verifies. *)
LEMMA ResealedVerifies ==
  ASSUME NEW t \in Tree!Trees
  PROVE  /\ Resealed(t) \in Tree!Trees /\ Resealed(t).files = t.files
         /\ Tree!Verifies(Resealed(t))
<1>1. t.files \in Tree!Files /\ t.files # Tree!NoList
  <2>1. t.files \in Tree!Files /\ "payload" \in Paths
    BY TreeFacts DEF Paths
  <2>2. t.files["payload"] # Foreign + 1 /\ Tree!NoList["payload"] = Foreign + 1
    BY <2>1, TreeFacts, BoundFacts DEF Tree!NoList
  <2> QED
    BY <2>1, <2>2
<1> DEFINE r == Resealed(t)
<1>2. r = [files |-> t.files, listed |-> t.files,
           sums |-> [files |-> t.files, listed |-> t.files]]
  <2>1. t = [files |-> t.files, listed |-> t.listed, sums |-> t.sums]
    BY DEF Tree!Trees
  <2>2. Tree!WithManifest(t) = [files |-> t.files, listed |-> t.files, sums |-> t.sums]
    BY <2>1 DEF Tree!WithManifest
  <2> QED
    BY <2>2 DEF Resealed, Tree!WithSums
<1>3. r.sums # Tree!NoSums
  BY <1>1, <1>2 DEF Tree!NoSums
<1>4. r \in Tree!Trees
  BY <1>1, <1>2 DEF Tree!Trees
<1>5. Tree!Verifies(r)
  BY <1>1, <1>2, <1>3
     DEF Tree!Verifies, Tree!ListingHolds, Tree!SumsHold, Tree!SumsCoverExactly
<1> QED
  BY <1>2, <1>4, <1>5

LEMMA PutFacts ==
  ASSUME NEW t \in Tree!Trees, NEW paths, NEW c \in 0..Foreign
  PROVE  /\ Put(t, paths, c) \in Tree!Trees
         /\ \A p \in Paths : Put(t, paths, c).files[p] = IF p \in paths THEN c ELSE t.files[p]
  BY BoundFacts DEF Put, Tree!Trees, Tree!Files

LEMMA FileSet ==
  ASSUME NEW t \in Tree!Trees, NEW q \in Paths, NEW c \in 0..Foreign
  PROVE  /\ [t EXCEPT !.files[q] = c] \in Tree!Trees
         /\ \A p \in Paths :
              [t EXCEPT !.files[q] = c].files[p] = IF p = q THEN c ELSE t.files[p]
  BY BoundFacts DEF Tree!Trees, Tree!Files

LEMMA SubmissionFacts ==
  ASSUME head \in 1..MaxRev
  PROVE  Submission \in Tree!Trees /\ Staged(Submission)
<1> DEFINE s == Put(None, {"payload", "placeholder"}, head)
<1>1. head \in 0..Foreign /\ head \in Nat
  BY BoundFacts
<1>2. s \in Tree!Trees /\ s.files["payload"] = head
  BY <1>1, PutFacts, NoneFacts DEF Paths
<1>3. Submission = Resealed(s)
  BY DEF Submission
<1> HIDE DEF s
<1>4. Submission \in Tree!Trees /\ Submission.files = s.files
  BY <1>2, <1>3, ResealedVerifies
<1> QED
  BY <1>1, <1>2, <1>4 DEF Staged

LEMMA DemoFacts ==
  ASSUME NEW s \in Tree!Trees, Staged(s), head \in 1..MaxRev
  PROVE  Demo(s) \in Tree!Trees /\ HalfBuilt(Demo(s))
<1> DEFINE d == Put(s, {"demo"}, head)
           e == [d EXCEPT !.files["placeholder"] = 0]
<1>1. head \in 0..Foreign /\ 0 \in 0..Foreign /\ head \in Nat
  BY BoundFacts
<1>2. d \in Tree!Trees /\ d.files["payload"] = s.files["payload"] /\ d.files["demo"] = head
  BY <1>1, PutFacts DEF Paths
<1>3. /\ e \in Tree!Trees /\ e.files["payload"] = s.files["payload"]
      /\ e.files["demo"] = head /\ e.files["placeholder"] = 0
  BY <1>1, <1>2, FileSet DEF Paths
<1>4. Demo(s) = Resealed(e)
  BY DEF Demo
<1> HIDE DEF d, e
<1>5. Demo(s) \in Tree!Trees /\ Demo(s).files = e.files
  BY <1>3, <1>4, ResealedVerifies
<1> QED
  BY <1>1, <1>3, <1>5 DEF HalfBuilt, Staged

LEMMA OverlayFacts ==
  ASSUME NEW t \in Tree!Trees, HalfBuilt(t), head \in 1..MaxRev, tracked.docs \in 1..MaxWrites
  PROVE  Overlay(t) \in Tree!Trees /\ Built(Overlay(t))
<1> DEFINE u == Put(t, {"tools"}, head)
           v == [u EXCEPT !.files["docs"] = tracked.docs]
<1>1. head \in 0..Foreign /\ tracked.docs \in 0..Foreign /\ head \in Nat
  BY BoundFacts
<1>2. /\ u \in Tree!Trees /\ u.files["tools"] = head
      /\ u.files["payload"] = t.files["payload"] /\ u.files["demo"] = t.files["demo"]
      /\ u.files["placeholder"] = t.files["placeholder"]
  BY <1>1, PutFacts DEF Paths
<1>3. /\ v \in Tree!Trees /\ v.files["tools"] = head /\ v.files["docs"] = tracked.docs
      /\ v.files["payload"] = t.files["payload"] /\ v.files["demo"] = t.files["demo"]
      /\ v.files["placeholder"] = t.files["placeholder"]
  BY <1>1, <1>2, FileSet DEF Paths
<1>4. Overlay(t) = Resealed(v)
  BY DEF Overlay
<1> DEFINE w == Overlay(t)
<1> HIDE DEF u, v
<1>5. w \in Tree!Trees /\ w.files = v.files /\ Tree!Verifies(w)
  BY <1>3, <1>4, ResealedVerifies
<1> HIDE DEF w
<1>6. /\ t.files["payload"] \in Nat /\ t.files["demo"] \in Nat
      /\ t.files["payload"] <= t.files["demo"] /\ t.files["demo"] <= head
      /\ t.files["placeholder"] = 0 /\ 0 < t.files["payload"]
  BY TreeFacts, BoundFacts DEF HalfBuilt, Paths
<1>7. \A p \in Paths : w.files[p] # Foreign
  BY <1>1, <1>3, <1>5, <1>6, BoundFacts DEF Paths
<1>8. FromOneBuild(w)
  BY <1>1, <1>3, <1>5, <1>6, <1>7 DEF FromOneBuild
<1>9. w.files["docs"] <= tracked.docs
  BY <1>3, <1>5, BoundFacts
<1> QED
  BY <1>5, <1>8, <1>9 DEF Built, w

(* Neither the revision nor the number of writes ever goes back. *)
LEMMA StaysBuilt ==
  ASSUME NEW t \in Tree!Trees, head \in Nat, head' \in Nat, head <= head',
         tracked.docs \in Nat, tracked.docs' \in Nat, tracked.docs <= tracked.docs'
  PROVE  /\ FromOneBuild(t) => FromOneBuild(t)'
         /\ Built(t) => Built(t)'
         /\ HalfBuilt(t) => HalfBuilt(t)'
         /\ Staged(t) => Staged(t)'
<1>1. /\ t.files["tools"] \in Nat /\ t.files["docs"] \in Nat
      /\ t.files["demo"] \in Nat /\ t.files["payload"] \in Nat
  BY TreeFacts, BoundFacts DEF Paths
<1>2. FromOneBuild(t) => FromOneBuild(t)'
  BY <1>1 DEF FromOneBuild
<1> QED
  BY <1>1, <1>2 DEF Built, HalfBuilt, Staged

-----------------------------------------------------------------------------
(***************************************************************************)
(* Where a command is.                                                     *)
(***************************************************************************)
LEMMA IdleFacts ==
  /\ Idle \in Jobs /\ Idle.cmd = "none" /\ Idle.write = FALSE
  /\ Idle.at = 1 /\ Idle.saw = NoCandidate
  BY NoneFacts DEF Idle, Jobs

LEMMA BuildSteps ==
  /\ Steps["build"][1] = "stage" /\ Steps["build"][2] = "demo"
  /\ Steps["build"][3] = "overlay" /\ Steps["build"][4] = "verify"
  /\ Steps["build"][5] = "clear" /\ Steps["build"][6] = "copy"
  /\ Steps["build"][7] = "archive" /\ Steps["build"][8] = "check"
  /\ Steps["build"][9] = "publish"
  BY DEF Steps

LEMMA ExtractSteps ==
  /\ Steps["extract"][1] = "look" /\ Steps["extract"][2] = "verify extraction"
  /\ Steps["extract"][3] = "report"
  BY DEF Steps

LEMMA Places ==
  ASSUME Command
  PROVE  /\ Step("stage") => job.cmd = "build" /\ job.at = 1
         /\ Step("demo") => job.cmd = "build" /\ job.at = 2
         /\ Step("overlay") => job.cmd = "build" /\ job.at = 3
         /\ Step("verify") => job.cmd = "build" /\ job.at = 4
         /\ Step("clear") => job.cmd = "build" /\ job.at = 5
         /\ Step("copy") => job.cmd = "build" /\ job.at = 6
         /\ Step("archive") => job.cmd = "build" /\ job.at = 7
         /\ Step("check") => job.cmd = "build" /\ job.at = 8
         /\ Step("publish") => job.cmd = "build" /\ job.at = 9
         /\ Step("look") => job.cmd = "extract" /\ job.at = 1
         /\ Step("verify extraction") => job.cmd = "extract" /\ job.at = 2
         /\ Step("report") => job.cmd = "extract" /\ job.at = 3
<1>1. job.cmd \in {"none", "build", "extract"} /\ job.at \in 1..9
  BY DEF Command, Jobs
<1>2. CASE job.cmd = "none"
  BY <1>2 DEF Step
<1>3. CASE job.cmd = "build"
  <2>1. \A s : Step(s) => s = Steps["build"][job.at]
    BY <1>3 DEF Step
  <2>2. \/ job.at = 1 \/ job.at = 2 \/ job.at = 3 \/ job.at = 4
        \/ job.at = 5 \/ job.at = 6 \/ job.at = 7 \/ job.at = 8 \/ job.at = 9
    BY <1>1
  <2> QED
    BY <1>3, <2>1, <2>2, BuildSteps
<1>4. CASE job.cmd = "extract"
  <2>1. \A s : Step(s) => s = Steps["extract"][job.at]
    BY <1>4 DEF Step
  <2>2. job.at = 1 \/ job.at = 2 \/ job.at = 3
    BY <1>4 DEF Command
  <2> QED
    BY <1>4, <2>1, <2>2, ExtractSteps
<1> QED
  BY <1>1, <1>2, <1>3, <1>4

LEMMA LengthFacts == Len(Steps["build"]) = 9 /\ Len(Steps["extract"]) = 3
  BY DEF Steps

(* After its last step a command is over; otherwise it is one step further. *)
LEMMA RestFacts ==
  ASSUME Command, job.cmd # "none"
  PROVE  /\ (job.cmd = "build" /\ job.at = 9) \/ (job.cmd = "extract" /\ job.at = 3) =>
              Rest = Idle
         /\ ~((job.cmd = "build" /\ job.at = 9) \/ (job.cmd = "extract" /\ job.at = 3)) =>
              /\ Rest \in Jobs /\ Rest.cmd = job.cmd /\ Rest.at = job.at + 1
              /\ Rest.write = job.write /\ Rest.saw = job.saw
<1>1. job.cmd \in {"build", "extract"} /\ job.at \in 1..9 /\ job \in Jobs
  BY DEF Command, Jobs
<1>2. Len(Steps[job.cmd]) = IF job.cmd = "build" THEN 9 ELSE 3
  BY <1>1, LengthFacts
<1>3. job.cmd = "extract" => job.at \in 1..3
  BY DEF Command
<1> QED
  BY <1>1, <1>2, <1>3 DEF Rest, Jobs

(* A step that is not its command's last keeps the command in order. *)
LEMMA CommandMoves ==
  ASSUME Command, job.cmd # "none", UNCHANGED tracked,
         ~((job.cmd = "build" /\ job.at = 9) \/ (job.cmd = "extract" /\ job.at = 3)),
         job' = Rest \/ \E c \in Candidates : job' = [Rest EXCEPT !.saw = c]
  PROVE  Command' /\ job'.cmd = job.cmd /\ job'.at = job.at + 1
<1>1. /\ Rest \in Jobs /\ Rest.cmd = job.cmd /\ Rest.at = job.at + 1
      /\ Rest.write = job.write
  BY RestFacts
<1>2. /\ job' \in Jobs /\ job'.cmd = job.cmd /\ job'.at = job.at + 1
      /\ job'.write = job.write
  BY <1>1 DEF Jobs
<1>3. job.cmd = "extract" => job'.at \in 1..3
  BY <1>2 DEF Command
<1> QED
  BY <1>2, <1>3 DEF Command

LEMMA CommandEnds == ASSUME job' = Idle PROVE Command' /\ StageInv' /\ ExtractionInv'
  BY IdleFacts DEF Command, StageInv, ExtractionInv

-----------------------------------------------------------------------------
(***************************************************************************)
(* What a step that leaves the claims alone has to keep.                   *)
(***************************************************************************)
LEMMA SameClaims ==
  ASSUME Claims, UNCHANGED <<head, tracked, evidence>> PROVE Claims'
  BY DEF Claims, Whole, PublishedIsOneBuild, EvidenceBacked, FromOneBuild

LEMMA TypeParts ==
  ASSUME Command', Shapes', head' \in 1..MaxRev, old' \in 1..(MaxBreaks + 1),
         breaks' \in 0..MaxBreaks, stage' \in Tree!Trees, owned' \in Roots
  PROVE  TypeOK'
  BY DEF Command, Jobs, Shapes, TypeOK

LEMMA AddOne ==
  ASSUME NEW a \in Nat, NEW b \in Nat, NEW c \in Nat, a <= b + 1, b <= c
  PROVE  a <= c + 1
  OBVIOUS

LEMMA WorkStep ==
  ASSUME IInv, UNCHANGED <<head, old, tracked, evidence>>,
         breaks' \in 0..MaxBreaks, breaks <= breaks',
         Command', stage' \in Tree!Trees, owned' \in Roots, WorkInv'
  PROVE  IInv'
<1>1. Shapes'
  <2>1. old \in Nat /\ breaks \in Nat /\ breaks' \in Nat /\ old' = old
    BY BoundFacts DEF IInv, TypeOK
  <2>2. old <= breaks + 1
    BY DEF IInv, Shapes
  <2>3. old' <= breaks' + 1
    BY <2>1, <2>2, AddOne, Zenon
  <2> QED
    BY <2>3 DEF IInv, Shapes
<1>2. TypeOK'
  BY <1>1, TypeParts DEF IInv, TypeOK
<1> QED
  BY <1>1, <1>2, SameClaims DEF IInv

LEMMA SameStage ==
  ASSUME StageInv, UNCHANGED <<head, tracked, stage>>,
         job'.cmd = "build" => job.cmd = "build" /\ job'.at = job.at + 1 /\ job.at \in 4..9
  PROVE  StageInv'
  BY DEF StageInv, Built, FromOneBuild

LEMMA SameRoot == ASSUME RootInv, UNCHANGED <<head, tracked, owned>> PROVE RootInv'
  BY DEF RootInv, Built, FromOneBuild

LEMMA RootFacts ==
  ASSUME NEW root \in Roots
  PROVE  /\ root.candidate \in Candidates /\ root.archive \in Archives
         /\ root.candidate.manifest \in Tree!Trees /\ root.candidate.payload \in Tree!Trees
         /\ root.archive.manifest \in Tree!Trees /\ root.archive.payload \in Tree!Trees
         /\ root = [there |-> root.there, mark |-> root.mark,
                    candidate |-> root.candidate, archive |-> root.archive]
         /\ root.there \in BOOLEAN /\ root.mark \in BOOLEAN
  BY DEF Roots, Candidates, Archives

-----------------------------------------------------------------------------
(***************************************************************************)
(* Building a candidate.                                                   *)
(***************************************************************************)
LEMMA BeginBuildInv ==
  ASSUME IInv, NEW write \in BOOLEAN, BeginBuild(write) PROVE IInv'
<1> USE DEF IInv
<1>1. job' = [cmd |-> "build", at |-> 1, write |-> write, saw |-> NoCandidate]
  BY DEF BeginBuild, Idle
<1>2. Command'
  <2>1. job' \in Jobs /\ job'.cmd = "build" /\ job'.write = write
    BY <1>1, NoneFacts DEF Jobs
  <2>2. (write => tracked.docs < MaxWrites) /\ UNCHANGED tracked
    BY DEF BeginBuild
  <2> QED
    BY <2>1, <2>2 DEF Command
<1>3. WorkInv'
  <2>1. job'.cmd = "build" /\ job'.at = 1
    BY <1>1
  <2>2. RootInv'
    BY SameRoot DEF BeginBuild, Keep, WorkInv
  <2> QED
    BY <2>1, <2>2 DEF WorkInv, StageInv, ExtractionInv
<1> QED
  BY <1>2, <1>3, WorkStep DEF BeginBuild, Keep, TypeOK

LEMMA BuildStagingInv == IInv /\ BuildStaging => IInv'
<1> SUFFICES ASSUME IInv, BuildStaging PROVE IInv'
  OBVIOUS
<1> USE DEF IInv
<1>1. job.cmd = "build" /\ job.at = 1
  BY Places DEF BuildStaging
<1>2. Command' /\ job'.cmd = "build" /\ job'.at = 2
  BY <1>1, CommandMoves DEF BuildStaging
<1>3. stage' \in Tree!Trees /\ Staged(stage)'
  BY SubmissionFacts DEF BuildStaging, Keep, TypeOK, Staged
<1>4. WorkInv'
  BY <1>2, <1>3, SameRoot DEF BuildStaging, Keep, WorkInv, StageInv, ExtractionInv
<1> QED
  BY <1>2, <1>3, <1>4, WorkStep DEF BuildStaging, Keep, TypeOK

LEMMA OverlayDemoInv == IInv /\ OverlayDemo => IInv'
<1> SUFFICES ASSUME IInv, OverlayDemo PROVE IInv'
  OBVIOUS
<1> USE DEF IInv
<1>1. job.cmd = "build" /\ job.at = 2
  BY Places DEF OverlayDemo
<1>2. Command' /\ job'.cmd = "build" /\ job'.at = 3
  BY <1>1, CommandMoves DEF OverlayDemo
<1>3. stage' \in Tree!Trees /\ HalfBuilt(stage)'
  <2>1. Staged(stage)
    BY <1>1 DEF WorkInv, StageInv
  <2>2. stage' \in Tree!Trees /\ HalfBuilt(stage')
    BY <2>1, DemoFacts DEF OverlayDemo, TypeOK
  <2> QED
    BY <2>2 DEF OverlayDemo, Keep, HalfBuilt
<1>4. WorkInv'
  BY <1>2, <1>3, SameRoot DEF OverlayDemo, Keep, WorkInv, StageInv, ExtractionInv
<1> QED
  BY <1>2, <1>3, <1>4, WorkStep DEF OverlayDemo, Keep, TypeOK

LEMMA OverlayReleaseInv == IInv /\ OverlayRelease => IInv'
<1> SUFFICES ASSUME IInv, OverlayRelease PROVE IInv'
  OBVIOUS
<1> USE DEF IInv
<1>1. job.cmd = "build" /\ job.at = 3
  BY Places DEF OverlayRelease
<1>2. Command' /\ job'.cmd = "build" /\ job'.at = 4
  BY <1>1, CommandMoves DEF OverlayRelease
<1>3. stage' \in Tree!Trees /\ Built(stage)'
  <2>1. HalfBuilt(stage)
    BY <1>1 DEF WorkInv, StageInv
  <2>2. stage' \in Tree!Trees /\ Built(stage')
    BY <2>1, OverlayFacts DEF OverlayRelease, TypeOK
  <2> QED
    BY <2>2 DEF OverlayRelease, Keep, Built, FromOneBuild
<1>4. WorkInv'
  BY <1>2, <1>3, SameRoot DEF OverlayRelease, Keep, WorkInv, StageInv, ExtractionInv
<1> QED
  BY <1>2, <1>3, <1>4, WorkStep DEF OverlayRelease, Keep, TypeOK

LEMMA VerifyStagingInv == IInv /\ VerifyStaging => IInv'
<1> SUFFICES ASSUME IInv, VerifyStaging PROVE IInv'
  OBVIOUS
<1> USE DEF IInv
<1>1. job.cmd = "build" /\ job.at = 4
  BY Places DEF VerifyStaging
<1>2. Command' /\ job'.cmd = "build" /\ job'.at = 5
  BY <1>1, CommandMoves DEF VerifyStaging
<1>3. WorkInv'
  BY <1>1, <1>2, SameRoot, SameStage DEF VerifyStaging, Keep, WorkInv, ExtractionInv
<1> QED
  BY <1>2, <1>3, WorkStep DEF VerifyStaging, Keep, TypeOK

LEMMA ClearRootInv == IInv /\ ClearRoot => IInv'
<1> SUFFICES ASSUME IInv, ClearRoot PROVE IInv'
  OBVIOUS
<1> USE DEF IInv
<1>1. job.cmd = "build" /\ job.at = 5
  BY Places DEF ClearRoot
<1>2. Command' /\ job'.cmd = "build" /\ job'.at = 6
  BY <1>1, CommandMoves DEF ClearRoot
<1>3. owned' \in Roots /\ RootInv'
  BY NoneFacts DEF ClearRoot, Cleared, NoRoot, Roots, RootInv, NoCandidate, NoArchive
<1>4. WorkInv'
  BY <1>1, <1>2, <1>3, SameStage DEF ClearRoot, Keep, WorkInv, ExtractionInv
<1> QED
  BY <1>2, <1>3, <1>4, WorkStep DEF ClearRoot, Keep, TypeOK

LEMMA CopyCandidateInv == IInv /\ CopyCandidate => IInv'
<1> SUFFICES ASSUME IInv, CopyCandidate PROVE IInv'
  OBVIOUS
<1> USE DEF IInv
<1>1. job.cmd = "build" /\ job.at = 6
  BY Places DEF CopyCandidate
<1>2. Command' /\ job'.cmd = "build" /\ job'.at = 7
  BY <1>1, CommandMoves DEF CopyCandidate
<1> DEFINE c == [mark |-> TRUE, payload |-> stage, manifest |-> stage]
<1>3. owned' \in Roots /\ owned'.candidate.manifest = stage /\ owned'.archive = owned.archive
  <2>1. c \in Candidates /\ c.manifest = stage
    BY DEF TypeOK, Candidates
  <2>2. owned' = [owned EXCEPT !.candidate = c]
    BY DEF CopyCandidate
  <2> HIDE DEF c
  <2> QED
    BY <2>1, <2>2 DEF TypeOK, Roots
<1>4. Built(stage)'
  BY <1>1 DEF CopyCandidate, Keep, WorkInv, StageInv, Built, FromOneBuild
<1>5. RootInv'
  BY <1>3, <1>4 DEF CopyCandidate, Keep, WorkInv, RootInv, Built, FromOneBuild
<1>6. WorkInv'
  BY <1>1, <1>2, <1>5, SameStage DEF CopyCandidate, Keep, WorkInv, ExtractionInv
<1> QED
  BY <1>2, <1>3, <1>6, WorkStep DEF CopyCandidate, Keep, TypeOK

LEMMA WriteArchiveInv == IInv /\ WriteArchive => IInv'
<1> SUFFICES ASSUME IInv, WriteArchive PROVE IInv'
  OBVIOUS
<1> USE DEF IInv
<1>1. job.cmd = "build" /\ job.at = 7
  BY Places DEF WriteArchive
<1>2. Command' /\ job'.cmd = "build" /\ job'.at = 8
  BY <1>1, CommandMoves DEF WriteArchive
<1> DEFINE a == Archived(owned.candidate)
<1>3. /\ owned' \in Roots /\ owned'.candidate = owned.candidate
      /\ owned'.archive.manifest = owned.candidate.manifest
  <2>1. a \in Archives /\ a.manifest = owned.candidate.manifest
    BY RootFacts DEF TypeOK, Archived, Archives
  <2>2. owned' = [owned EXCEPT !.archive = a]
    BY DEF WriteArchive
  <2> HIDE DEF a
  <2> QED
    BY <2>1, <2>2 DEF TypeOK, Roots
<1>4. RootInv'
  BY <1>3 DEF WriteArchive, Keep, WorkInv, RootInv, Built, FromOneBuild
<1>5. WorkInv'
  BY <1>1, <1>2, <1>4, SameStage DEF WriteArchive, Keep, WorkInv, ExtractionInv
<1> QED
  BY <1>2, <1>3, <1>5, WorkStep DEF WriteArchive, Keep, TypeOK

LEMMA CheckCandidateInv == IInv /\ CheckCandidate => IInv'
<1> SUFFICES ASSUME IInv, CheckCandidate PROVE IInv'
  OBVIOUS
<1> USE DEF IInv
<1>1. job.cmd = "build" /\ job.at = 8
  BY Places DEF CheckCandidate
<1>2. Command' /\ job'.cmd = "build" /\ job'.at = 9
  BY <1>1, CommandMoves DEF CheckCandidate
<1>3. WorkInv'
  BY <1>1, <1>2, SameRoot, SameStage DEF CheckCandidate, Keep, WorkInv, ExtractionInv
<1> QED
  BY <1>2, <1>3, WorkStep DEF CheckCandidate, Keep, TypeOK

(* What is published is the manifest of the candidate, which is of one build *)
(* and packs release documents older than the ones now written.              *)
LEMMA PublishedFacts ==
  ASSUME IInv, tracked.docs < MaxWrites, UNCHANGED <<head, old, owned, stage>>,
         \E ready \in Tree!Trees : tracked' = [Published EXCEPT !.ready = ready],
         evidence' = evidence, breaks' = breaks
  PROVE  /\ Shapes' /\ PublishedIsOneBuild' /\ RootInv'
         /\ tracked'.clean = tracked.clean /\ tracked'.docs = tracked.docs + 1
<1> USE DEF IInv
<1> DEFINE m == owned.candidate.manifest
<1>1. m \in Tree!Trees
  BY RootFacts DEF TypeOK
<1>2. tracked.docs \in Nat /\ tracked.docs + 1 \in 1..MaxWrites
  BY BoundFacts DEF Shapes
<1>3. PICK ready \in Tree!Trees : tracked' = [Published EXCEPT !.ready = ready]
  OBVIOUS
<1>4. tracked' = [docs |-> tracked.docs + 1, manifest |-> m, clean |-> tracked.clean,
                  baseline |-> tracked.baseline, audited |-> tracked.audited,
                  ready |-> ready]
  BY <1>3 DEF Published, Shapes
<1> HIDE DEF m
<1>5. Shapes'
  <2>1. /\ tracked' \in [docs : 1..MaxWrites, manifest : Tree!Trees, clean : Archives,
                         baseline : Nat, audited : BOOLEAN, ready : Tree!Trees]
    <3>1. /\ tracked.clean \in Archives /\ tracked.baseline \in Nat
          /\ tracked.audited \in BOOLEAN
      BY DEF Shapes
    <3> QED
      BY <1>1, <1>2, <1>4, <3>1
  <2> QED
    BY <2>1 DEF Shapes
<1>6. head \in Nat /\ tracked'.docs = tracked.docs + 1
  BY <1>4, BoundFacts DEF TypeOK
<1>7. RootInv'
  <2>1. /\ owned.candidate.manifest \in Tree!Trees
        /\ owned.archive.manifest \in Tree!Trees
    BY RootFacts DEF TypeOK
  <2> QED
    BY <1>2, <1>6, <2>1, StaysBuilt DEF WorkInv, RootInv
<1>8. PublishedIsOneBuild'
  <2>1. m # None => FromOneBuild(m) /\ m.files["docs"] <= tracked.docs
    BY DEF m, WorkInv, RootInv, Built
  <2>2. m.files["docs"] \in Nat
    BY <1>1, TreeFacts, BoundFacts DEF Paths
  <2>3. m # None => FromOneBuild(m)' /\ m.files["docs"] < tracked.docs + 1
    BY <1>1, <1>2, <1>6, <2>1, <2>2 DEF FromOneBuild, m
  <2>4. m' = m /\ tracked'.manifest = m
    BY <1>4 DEF m
  <2> QED
    BY <1>6, <2>3, <2>4 DEF PublishedIsOneBuild, FromOneBuild
<1> QED
  BY <1>4, <1>5, <1>6, <1>7, <1>8

LEMMA PublishInv == IInv /\ Publish => IInv'
<1> SUFFICES ASSUME IInv, Publish PROVE IInv'
  OBVIOUS
<1> USE DEF IInv
<1>1. job.cmd = "build" /\ job.at = 9
  BY Places DEF Publish
<1>2. job' = Idle
  BY <1>1, RestFacts DEF Publish
<1>3. Command' /\ StageInv' /\ ExtractionInv'
  BY <1>2, CommandEnds
<1>4. CASE job.write
  <2>1. tracked' = [Published EXCEPT !.ready = tracked.ready]
    BY <1>4 DEF Publish, Published, Shapes
  <2>2. tracked.ready \in Tree!Trees /\ tracked.docs < MaxWrites
    BY <1>4 DEF Shapes, Command
  <2>3. /\ Shapes' /\ PublishedIsOneBuild' /\ RootInv' /\ tracked'.clean = tracked.clean
        /\ tracked'.ready = tracked.ready
    BY <2>1, <2>2, PublishedFacts DEF Publish, Keep, Published, Shapes
  <2>4. Claims'
    BY <2>3 DEF Claims, Whole, EvidenceBacked, FromOneBuild, Publish, Keep
  <2>5. TypeOK'
    BY <1>3, <2>3, TypeParts DEF TypeOK, Publish, Keep
  <2> QED
    BY <1>3, <2>3, <2>4, <2>5 DEF WorkInv
<1>5. CASE ~job.write
  <2>1. RootInv'
    BY <1>5, SameRoot DEF Publish, Keep, WorkInv
  <2> QED
    BY <1>3, <1>5, <2>1, WorkStep DEF Publish, Keep, WorkInv, TypeOK
<1> QED
  BY <1>4, <1>5

-----------------------------------------------------------------------------
(***************************************************************************)
(* The clean extraction.                                                   *)
(***************************************************************************)
LEMMA BeginExtractionInv == IInv /\ BeginExtraction => IInv'
<1> SUFFICES ASSUME IInv, BeginExtraction PROVE IInv'
  OBVIOUS
<1> USE DEF IInv
<1>1. job' = [cmd |-> "extract", at |-> 1, write |-> FALSE, saw |-> NoCandidate]
  BY DEF BeginExtraction, Idle
<1>2. Command'
  BY <1>1, NoneFacts DEF BeginExtraction, Command, Jobs
<1>3. WorkInv'
  BY <1>1, SameRoot DEF BeginExtraction, Keep, WorkInv, StageInv, ExtractionInv
<1> QED
  BY <1>2, <1>3, WorkStep DEF BeginExtraction, Keep, TypeOK

LEMMA LookAtCandidateInv == IInv /\ LookAtCandidate => IInv'
<1> SUFFICES ASSUME IInv, LookAtCandidate PROVE IInv'
  OBVIOUS
<1> USE DEF IInv
<1>1. job.cmd = "extract" /\ job.at = 1
  BY Places DEF LookAtCandidate
<1>2. owned.candidate \in Candidates
  BY RootFacts DEF TypeOK
<1>3. Command' /\ job'.cmd = "extract" /\ job'.at = 2
  BY <1>1, <1>2, CommandMoves DEF LookAtCandidate
<1>4. WorkInv'
  BY <1>3, SameRoot DEF LookAtCandidate, Keep, WorkInv, StageInv, ExtractionInv
<1> QED
  BY <1>3, <1>4, WorkStep DEF LookAtCandidate, Keep, TypeOK

LEMMA VerifyExtractionInv == IInv /\ VerifyExtraction => IInv'
<1> SUFFICES ASSUME IInv, VerifyExtraction PROVE IInv'
  OBVIOUS
<1> USE DEF IInv
<1>1. job.cmd = "extract" /\ job.at = 2
  BY Places DEF VerifyExtraction
<1>2. Command' /\ job'.cmd = "extract" /\ job'.at = 3
  <2>1. job' = Rest /\ UNCHANGED tracked /\ Command
    BY DEF VerifyExtraction
  <2> QED
    BY <1>1, <2>1, CommandMoves
<1>3. owned.archive.manifest # None /\ owned.archive.manifest = owned.archive.payload
  BY DEF VerifyExtraction, CandidateValid, Extracted
<1>4. Whole(owned.archive)
  BY <1>3 DEF Whole, WorkInv, RootInv, Built
<1>5. Whole(owned.archive)'
  BY <1>4 DEF VerifyExtraction, Keep, Whole, FromOneBuild
<1>6. WorkInv'
  BY <1>2, <1>5, SameRoot DEF VerifyExtraction, Keep, WorkInv, StageInv, ExtractionInv
<1>7. UNCHANGED <<head, old, tracked, evidence, stage, owned, breaks>>
  BY DEF VerifyExtraction, Keep
<1> QED
  BY <1>2, <1>6, <1>7, WorkStep, BoundFacts DEF TypeOK

LEMMA ReportExtractionInv == IInv /\ ReportExtraction => IInv'
<1> SUFFICES ASSUME IInv, ReportExtraction PROVE IInv'
  OBVIOUS
<1> USE DEF IInv
<1>1. job.cmd = "extract" /\ job.at = 3
  BY Places DEF ReportExtraction
<1>2. job' = Idle
  BY <1>1, RestFacts DEF ReportExtraction
<1>3. Command' /\ StageInv' /\ ExtractionInv'
  BY <1>2, CommandEnds
<1>4. Whole(owned.archive) /\ owned.archive \in Archives
  BY <1>1, RootFacts DEF WorkInv, ExtractionInv, TypeOK
<1>5. tracked' = [docs |-> tracked.docs + 1, manifest |-> tracked.manifest,
                  clean |-> owned.archive, baseline |-> tracked.baseline,
                  audited |-> tracked.audited, ready |-> tracked.ready]
  BY DEF ReportExtraction, Shapes
<1>6. tracked.docs \in Nat /\ tracked.docs + 1 \in 1..MaxWrites /\ head \in Nat
  BY <1>1, BoundFacts DEF Shapes, Command, TypeOK
<1>7. Shapes'
  BY <1>4, <1>5, <1>6 DEF Shapes, ReportExtraction, Keep
<1>8. RootInv'
  <2>1. /\ owned.candidate.manifest \in Tree!Trees
        /\ owned.archive.manifest \in Tree!Trees
    BY RootFacts DEF TypeOK
  <2>2. tracked'.docs = tracked.docs + 1
    BY <1>5
  <2> QED
    BY <1>6, <2>1, <2>2, StaysBuilt DEF WorkInv, RootInv, ReportExtraction, Keep
<1>9. Claims'
  <2>1. Whole(tracked.clean)'
    BY <1>4, <1>5 DEF Whole, FromOneBuild, ReportExtraction, Keep
  <2>2. PublishedIsOneBuild'
    <3>1. tracked.manifest.files["docs"] \in Nat
      BY TreeFacts, BoundFacts DEF Shapes, Paths
    <3>2. tracked'.manifest = tracked.manifest /\ tracked'.docs = tracked.docs + 1
      BY <1>5
    <3> QED
      BY <1>6, <3>1, <3>2
         DEF Claims, PublishedIsOneBuild, FromOneBuild, ReportExtraction, Keep
  <2>3. EvidenceBacked'
    BY <1>5 DEF Claims, EvidenceBacked, FromOneBuild, ReportExtraction, Keep
  <2> QED
    BY <2>1, <2>2, <2>3 DEF Claims
<1>10. TypeOK'
  BY <1>3, <1>7, TypeParts DEF TypeOK, ReportExtraction, Keep
<1> QED
  BY <1>3, <1>7, <1>8, <1>9, <1>10 DEF WorkInv

-----------------------------------------------------------------------------
(***************************************************************************)
(* Authority, audits, cold starts and the evidence.                        *)
(***************************************************************************)
LEMMA SameWork ==
  ASSUME WorkInv, UNCHANGED <<head, stage, owned, job>>, tracked'.docs = tracked.docs
  PROVE  WorkInv'
  BY DEF WorkInv, StageInv, RootInv, ExtractionInv, Whole, Built, HalfBuilt, Staged,
     FromOneBuild

LEMMA SameCommand ==
  ASSUME Command, UNCHANGED job, tracked'.docs = tracked.docs PROVE Command'
  BY DEF Command

LEMMA BuildAuthorityInv == IInv /\ BuildAuthority => IInv'
<1> SUFFICES ASSUME IInv, BuildAuthority PROVE IInv'
  OBVIOUS
<1> USE DEF IInv
<1>1. tracked' = [docs |-> tracked.docs, manifest |-> tracked.manifest,
                  clean |-> tracked.clean, baseline |-> old,
                  audited |-> tracked.audited, ready |-> None]
  BY DEF BuildAuthority, Shapes
<1>2. UNCHANGED <<head, old, evidence, breaks, stage, owned, job>>
  BY DEF BuildAuthority, Keep
<1>3. old \in Nat
  BY BoundFacts DEF TypeOK
<1>4. Shapes'
  BY <1>1, <1>2, <1>3, NoneFacts DEF Shapes
<1>5. Command' /\ WorkInv'
  BY <1>1, <1>2, SameWork, SameCommand
<1>6. Claims'
  BY <1>1, <1>2 DEF Claims, Whole, PublishedIsOneBuild, EvidenceBacked, FromOneBuild
<1>7. TypeOK'
  BY <1>2, <1>4, <1>5, TypeParts DEF TypeOK
<1> QED
  BY <1>4, <1>5, <1>6, <1>7

LEMMA BuildAuditsInv == IInv /\ BuildAudits => IInv'
<1> SUFFICES ASSUME IInv, BuildAudits PROVE IInv'
  OBVIOUS
<1> USE DEF IInv
<1>1. tracked' = [docs |-> tracked.docs, manifest |-> tracked.manifest,
                  clean |-> tracked.clean, baseline |-> tracked.baseline,
                  audited |-> TRUE, ready |-> tracked.ready]
  BY DEF BuildAudits, Shapes
<1>2. UNCHANGED <<head, old, evidence, breaks, stage, owned, job>>
  BY DEF BuildAudits, Keep
<1>3. Shapes'
  BY <1>1, <1>2 DEF Shapes
<1>4. Command' /\ WorkInv'
  BY <1>1, <1>2, SameWork, SameCommand
<1>5. Claims'
  BY <1>1, <1>2 DEF Claims, Whole, PublishedIsOneBuild, EvidenceBacked, FromOneBuild
<1>6. TypeOK'
  BY <1>2, <1>3, <1>4, TypeParts DEF TypeOK
<1> QED
  BY <1>3, <1>4, <1>5, <1>6

(* Neither the cold starts nor idling touch anything the invariant is about. *)
LEMMA IdleInv ==
  ASSUME IInv, UNCHANGED <<head, old, stage, owned, tracked, evidence, job, breaks>>
  PROVE  IInv'
<1> USE DEF IInv
<1>1. Shapes'
  BY DEF Shapes
<1>2. Command' /\ WorkInv'
  BY SameWork, SameCommand
<1>3. TypeOK'
  BY <1>1, <1>2, TypeParts DEF TypeOK
<1> QED
  BY <1>1, <1>2, <1>3, SameClaims

(* What is frozen is the extraction that was reported. *)
LEMMA FreezeInv == IInv /\ Freeze => IInv'
<1> SUFFICES ASSUME IInv, Freeze PROVE IInv'
  OBVIOUS
<1> USE DEF IInv
<1>1. UNCHANGED <<head, old, stage, owned, tracked, job>>
  BY DEF Freeze
<1>2. /\ evidence.state = "none" /\ tracked.clean # NoArchive /\ tracked.clean \in Archives
      /\ owned.candidate.manifest \in Tree!Trees
  BY RootFacts DEF Freeze, MayFreeze, TypeOK
<1>3. tracked.ready = None
  BY <1>2 DEF Claims, EvidenceBacked
<1>4. /\ evidence' \in [state : {"none", "part", "sealed"}, id : Tree!Trees,
                       extracted : Archives]
      /\ evidence'.state = "sealed" => evidence'.extracted = tracked.clean
  <2>1. CASE evidence' = [state |-> "sealed", id |-> owned.candidate.manifest,
                          extracted |-> tracked.clean]
    BY <1>2, <2>1
  <2>2. CASE evidence' = [NoEvidence EXCEPT !.state = "part"]
    BY <2>2, NoneFacts DEF NoEvidence
  <2> QED
    BY <2>1, <2>2 DEF Freeze
<1>5. breaks' \in 0..MaxBreaks /\ breaks <= breaks' /\ breaks \in Nat /\ breaks' \in Nat
  <2>1. breaks \in 0..MaxBreaks /\ breaks \in Nat
    BY BoundFacts DEF TypeOK
  <2>2. breaks' = breaks \/ (breaks < MaxBreaks /\ breaks' = breaks + 1)
    BY DEF Freeze
  <2> QED
    BY <2>1, <2>2, BoundFacts
<1>6. Shapes'
  <2>1. old <= breaks + 1 /\ old \in Nat
    BY BoundFacts DEF Shapes, TypeOK
  <2>2. old' <= breaks' + 1
    BY <1>1, <1>5, <2>1, AddOne, Zenon
  <2> QED
    BY <1>1, <1>4, <2>2 DEF Shapes
<1>7. Command' /\ WorkInv'
  BY <1>1, SameWork, SameCommand
<1>8. Claims'
  <2>1. Whole(tracked.clean)
    BY <1>2 DEF Claims
  <2>2. EvidenceBacked'
    BY <1>1, <1>3, <1>4, <2>1 DEF EvidenceBacked, Whole, FromOneBuild
  <2> QED
    BY <1>1, <2>2 DEF Claims, Whole, PublishedIsOneBuild, FromOneBuild
<1>9. TypeOK'
  BY <1>1, <1>5, <1>6, <1>7, TypeParts DEF TypeOK
<1> QED
  BY <1>6, <1>7, <1>8, <1>9

(* Readiness goes to a candidate that verifies, with evidence in place. *)
LEMMA SynchronizeInv == IInv /\ Synchronize => IInv'
<1> SUFFICES ASSUME IInv, Synchronize PROVE IInv'
  OBVIOUS
<1> USE DEF IInv
<1> DEFINE m == owned.candidate.manifest
<1>1. UNCHANGED <<head, old, evidence, breaks, stage, owned, job>>
  BY DEF Synchronize, Keep
<1>2. /\ m \in Tree!Trees /\ m # None /\ tracked.docs < MaxWrites
      /\ evidence.state = "sealed" /\ job = Idle
      /\ tracked' = [Published EXCEPT !.ready = m]
  BY RootFacts DEF Synchronize, MaySynchronize, CandidateValid, TypeOK
<1>3. FromOneBuild(m)
  BY <1>2 DEF WorkInv, RootInv, Built
<1> HIDE DEF m
<1>4. /\ Shapes' /\ PublishedIsOneBuild' /\ RootInv' /\ tracked'.clean = tracked.clean
      /\ tracked'.docs = tracked.docs + 1
  BY <1>1, <1>2, PublishedFacts
<1>5. tracked'.ready = m
  BY <1>2 DEF Published, Shapes
<1>6. Command' /\ StageInv' /\ ExtractionInv'
  BY <1>1, <1>2, CommandEnds
<1>7. Claims'
  <2>1. EvidenceBacked'
    BY <1>1, <1>2, <1>3, <1>5 DEF Claims, EvidenceBacked, FromOneBuild
  <2>2. tracked'.clean # NoArchive => Whole(tracked.clean)'
    BY <1>1, <1>4 DEF Claims, Whole, FromOneBuild
  <2> QED
    BY <1>4, <2>1, <2>2 DEF Claims
<1>8. TypeOK'
  BY <1>1, <1>4, <1>6, TypeParts DEF TypeOK
<1> QED
  BY <1>4, <1>6, <1>7, <1>8 DEF WorkInv

-----------------------------------------------------------------------------
(***************************************************************************)
(* The user and the machine.                                               *)
(***************************************************************************)
LEMMA CommitInv == IInv /\ Commit => IInv'
<1> SUFFICES ASSUME IInv, Commit PROVE IInv'
  OBVIOUS
<1> USE DEF IInv
<1>1. UNCHANGED <<old, stage, owned, tracked, evidence, job, breaks>>
  BY DEF Commit
<1>2. head \in Nat /\ head' \in 1..MaxRev /\ head' \in Nat /\ head <= head'
  BY BoundFacts DEF Commit, TypeOK
<1>3. tracked.docs \in Nat /\ tracked.docs' \in Nat /\ tracked.docs <= tracked.docs'
  BY <1>1, BoundFacts DEF Shapes
<1>4. \A t \in Tree!Trees :
        /\ FromOneBuild(t) => FromOneBuild(t)'
        /\ Built(t) => Built(t)'
        /\ HalfBuilt(t) => HalfBuilt(t)'
        /\ Staged(t) => Staged(t)'
  BY <1>2, <1>3, StaysBuilt
<1>5. /\ stage \in Tree!Trees
      /\ owned.candidate.manifest \in Tree!Trees /\ owned.archive.manifest \in Tree!Trees
      /\ owned.archive.payload \in Tree!Trees
      /\ tracked.manifest \in Tree!Trees /\ tracked.ready \in Tree!Trees
  BY RootFacts DEF TypeOK, Shapes
<1>6. tracked.clean.payload \in Tree!Trees /\ evidence.extracted.payload \in Tree!Trees
  BY DEF Shapes, Archives
<1>7. Command' /\ Shapes'
  BY <1>1, SameCommand DEF Shapes
<1>8. StageInv'
  BY <1>1, <1>4, <1>5 DEF WorkInv, StageInv
<1>9. RootInv'
  BY <1>1, <1>4, <1>5 DEF WorkInv, RootInv
<1>10. ExtractionInv'
  BY <1>1, <1>4, <1>5 DEF WorkInv, ExtractionInv, Whole
<1>11. Claims'
  BY <1>1, <1>4, <1>5, <1>6 DEF Claims, Whole, PublishedIsOneBuild, EvidenceBacked
<1>12. TypeOK'
  BY <1>1, <1>2, <1>7, TypeParts DEF TypeOK
<1> QED
  BY <1>7, <1>8, <1>9, <1>10, <1>11, <1>12 DEF WorkInv

LEMMA EditOldDocumentsInv == IInv /\ EditOldDocuments => IInv'
<1> SUFFICES ASSUME IInv, EditOldDocuments PROVE IInv'
  OBVIOUS
<1> USE DEF IInv
<1>1. UNCHANGED <<head, stage, owned, tracked, evidence, job>>
  BY DEF EditOldDocuments
<1>2. /\ old \in Nat /\ breaks \in Nat /\ breaks < MaxBreaks /\ old <= breaks + 1
      /\ 1 <= old /\ old' = old + 1 /\ breaks' = breaks + 1 /\ MaxBreaks \in Nat
  BY BoundFacts DEF EditOldDocuments, TypeOK, Shapes
<1>3. old' <= breaks' + 1 /\ breaks' \in 0..MaxBreaks /\ old' \in 1..(MaxBreaks + 1)
  BY <1>2
<1>4. Shapes'
  BY <1>1, <1>3 DEF Shapes
<1>5. Command' /\ WorkInv'
  BY <1>1, SameWork, SameCommand
<1>6. TypeOK'
  BY <1>1, <1>3, <1>4, <1>5, TypeParts DEF TypeOK
<1> QED
  BY <1>1, <1>4, <1>5, <1>6, SameClaims

LEMMA OneMoreBreak ==
  ASSUME breaks \in 0..MaxBreaks, breaks < MaxBreaks, breaks' = breaks + 1
  PROVE  breaks' \in 0..MaxBreaks /\ breaks <= breaks'
  BY BoundFacts

LEMMA EditCandidateInv == ASSUME IInv, NEW p \in Paths, EditCandidate(p) PROVE IInv'
<1> USE DEF IInv
<1>1. UNCHANGED <<head, old, stage, tracked, evidence, job>>
  BY DEF EditCandidate
<1>2. breaks' \in 0..MaxBreaks /\ breaks <= breaks'
  BY OneMoreBreak DEF EditCandidate, TypeOK
<1> DEFINE t == [owned.candidate.payload EXCEPT !.files[p] = Foreign]
           c == [owned.candidate EXCEPT !.payload = t]
<1>3. t \in Tree!Trees
  <2> DEFINE before == owned.candidate.payload
  <2>1. before \in Tree!Trees /\ Foreign \in 0..Foreign
    BY RootFacts, BoundFacts DEF TypeOK
  <2> HIDE DEF before
  <2>2. [before EXCEPT !.files[p] = Foreign] \in Tree!Trees
    BY <2>1, FileSet
  <2> QED
    BY <2>2 DEF before
<1>4. c \in Candidates /\ c.manifest = owned.candidate.manifest
  <2>1. owned.candidate \in Candidates
    BY RootFacts DEF TypeOK
  <2> HIDE DEF t
  <2> QED
    BY <1>3, <2>1 DEF Candidates
<1>5. owned' = [owned EXCEPT !.candidate = c]
  BY RootFacts DEF EditCandidate, TypeOK
<1> HIDE DEF t, c
<1>6. /\ owned' \in Roots /\ owned'.candidate = c /\ owned'.archive = owned.archive
  BY <1>4, <1>5 DEF TypeOK, Roots
<1>7. Command'
  BY <1>1, SameCommand
<1>8. WorkInv'
  BY <1>1, <1>4, <1>6 DEF WorkInv, StageInv, RootInv, ExtractionInv, Whole, Built, HalfBuilt,
     Staged, FromOneBuild
<1> QED
  BY <1>1, <1>2, <1>6, <1>7, <1>8, WorkStep DEF TypeOK

LEMMA AbortInv == IInv /\ Abort => IInv'
<1> SUFFICES ASSUME IInv, Abort PROVE IInv'
  OBVIOUS
<1> USE DEF IInv
<1>1. Command' /\ StageInv' /\ ExtractionInv'
  BY CommandEnds DEF Abort
<1>2. RootInv'
  BY SameRoot DEF Abort, Keep, WorkInv
<1> QED
  BY <1>1, <1>2, WorkStep DEF Abort, Keep, WorkInv, TypeOK

LEMMA BreakClearingInv == IInv /\ BreakClearing => IInv'
<1> SUFFICES ASSUME IInv, BreakClearing PROVE IInv'
  OBVIOUS
<1> USE DEF IInv
<1>1. UNCHANGED <<head, old, stage, tracked, evidence>>
  BY DEF BreakClearing
<1>2. breaks' \in 0..MaxBreaks /\ breaks <= breaks'
  BY OneMoreBreak DEF BreakClearing, TypeOK
<1>3. PICK m \in BOOLEAN, c \in {owned.candidate, NoCandidate},
           a \in {owned.archive, NoArchive} :
        owned' = [there |-> TRUE, mark |-> m, candidate |-> c, archive |-> a]
  BY DEF BreakClearing
<1>4. c \in Candidates /\ a \in Archives
  BY RootFacts, NoneFacts DEF TypeOK
<1>5. owned' \in Roots
  BY <1>3, <1>4 DEF Roots
<1>6. Command' /\ StageInv' /\ ExtractionInv'
  BY CommandEnds DEF BreakClearing
<1>7. RootInv'
  <2>1. /\ c.manifest # None => Built(c.manifest)
        /\ a.manifest # None => Built(a.manifest)
    BY DEF WorkInv, RootInv, NoCandidate, NoArchive
  <2>2. owned'.candidate = c /\ owned'.archive = a
    BY <1>3
  <2> QED
    BY <1>1, <2>1, <2>2 DEF RootInv, Built, FromOneBuild
<1> QED
  BY <1>1, <1>2, <1>5, <1>6, <1>7, WorkStep DEF WorkInv, TypeOK

-----------------------------------------------------------------------------
LEMMA InitInv == Init => IInv
<1> SUFFICES ASSUME Init PROVE IInv
  OBVIOUS
<1>1. head = 1 /\ old = 1 /\ breaks = 0 /\ stage = None /\ owned = NoRoot /\ job = Idle
  BY DEF Init
<1>2. /\ 1 \in 1..MaxRev /\ 1 \in 1..(MaxBreaks + 1) /\ 0 \in 0..MaxBreaks
      /\ 1 \in 1..MaxWrites /\ 1 <= 0 + 1 /\ 0 \in Nat
  BY BoundFacts
<1>3. owned \in Roots
  BY <1>1, NoneFacts DEF NoRoot, Roots
<1>4. /\ tracked = [docs |-> 1, manifest |-> None, clean |-> NoArchive,
                    baseline |-> 0, audited |-> FALSE, ready |-> None]
      /\ evidence = [state |-> "none", id |-> None, extracted |-> NoArchive]
  BY DEF Init, NoEvidence
<1>5. Shapes
  <2>1. /\ tracked \in [docs : 1..MaxWrites, manifest : Tree!Trees, clean : Archives,
                        baseline : Nat, audited : BOOLEAN, ready : Tree!Trees]
        /\ evidence \in [state : {"none", "part", "sealed"}, id : Tree!Trees,
                         extracted : Archives]
    BY <1>2, <1>4, NoneFacts
  <2>2. old <= breaks + 1
    BY <1>1, <1>2
  <2> QED
    BY <2>1, <2>2 DEF Shapes
<1>6. Command
  BY <1>1, IdleFacts DEF Command
<1>7. TypeOK
  <2>1. head \in 1..MaxRev /\ old \in 1..(MaxBreaks + 1) /\ breaks \in 0..MaxBreaks
    BY <1>1, <1>2
  <2>2. stage \in Tree!Trees
    BY <1>1, NoneFacts
  <2> QED
    BY <1>3, <1>5, <1>6, <2>1, <2>2 DEF TypeOK, Shapes, Command, Jobs
<1>8. WorkInv
  BY <1>1, IdleFacts DEF WorkInv, StageInv, RootInv, ExtractionInv, NoRoot, NoCandidate,
     NoArchive
<1>9. Claims
  BY <1>4 DEF Claims, PublishedIsOneBuild, EvidenceBacked
<1> QED
  BY <1>5, <1>6, <1>7, <1>8, <1>9 DEF IInv

LEMMA StepInv == IInv /\ [Next]_vars => IInv'
<1> SUFFICES ASSUME IInv, [Next]_vars PROVE IInv'
  OBVIOUS
<1>1. CASE \E write \in BOOLEAN : BeginBuild(write)
  BY <1>1, BeginBuildInv
<1>2. CASE \E p \in Paths : EditCandidate(p)
  BY <1>2, EditCandidateInv
<1>3. CASE CompareRuns \/ \E r \in {"run1", "run2"} : ColdRun(r)
  BY <1>3, IdleInv DEF CompareRuns, ColdRun
<1>4. CASE UNCHANGED vars
  BY <1>4, IdleInv DEF vars
<1> QED
  BY <1>1, <1>2, <1>3, <1>4, BuildStagingInv, OverlayDemoInv, OverlayReleaseInv,
     VerifyStagingInv, ClearRootInv, CopyCandidateInv, WriteArchiveInv, CheckCandidateInv, PublishInv,
     BeginExtractionInv, LookAtCandidateInv, VerifyExtractionInv, ReportExtractionInv,
     BuildAuthorityInv, BuildAuditsInv, FreezeInv, SynchronizeInv, CommitInv,
     EditOldDocumentsInv, AbortInv, BreakClearingInv DEF Next

(* The inductive invariant holds in every behaviour, for all the bounds.     *)
THEOREM Invariance == Spec => []IInv
<1> QED
  BY InitInv, StepInv, PTL DEF Spec

(* Every variable of the pipeline keeps its type, and no command runs past   *)
(* its last step.                                                            *)
THEOREM TypeCorrectness == Spec => []TypeOK
<1>1. IInv => TypeOK
  BY DEF IInv
<1> QED
  BY <1>1, Invariance, PTL

(* The manifest in docs/submission/release lists one build that verifies:    *)
(* whatever was edited, rebuilt or cut short in between, and however often.  *)
THEOREM PublicationsAreOneBuild == Spec => []PublishedIsOneBuild
<1>1. IInv => PublishedIsOneBuild
  BY DEF IInv, Claims
<1> QED
  BY <1>1, Invariance, PTL

(* Frozen evidence quotes an extraction that is one build, and readiness is  *)
(* only given, with such evidence, to a candidate that is one build.         *)
THEOREM EvidenceIsBacked == Spec => []EvidenceBacked
<1>1. IInv => EvidenceBacked
  BY DEF IInv, Claims
<1> QED
  BY <1>1, Invariance, PTL
=============================================================================
