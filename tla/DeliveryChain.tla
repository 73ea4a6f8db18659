--------------------------- MODULE DeliveryChain ----------------------------
(***************************************************************************)
(* The delivery documents and the evidence that freezes them, one          *)
(* checkpoint after the other:                                             *)
(*   G3-C  tools/report_cli.py         ledger, reports and chart data      *)
(*   G3-D  tools/agent_delivery_cli.py registries, traces, documentation   *)
(*   G3-E  tools/visualization_cli.py  figures, innovation map, narrative  *)
(*   G3-F  tools/demo_delivery_cli.py  demo, storyboard, presentation      *)
(* A document is derived from earlier ones and pins their digests; a       *)
(* freeze compares documents with their sources, with origin/main and with *)
(* the evidence frozen before.                                             *)
(*                                                                         *)
(* Here a document is what it was derived from.  Facts are the numbers of  *)
(* the G3-B2 and G3-B3 evidence: 1 as frozen, 2 after an edit of that      *)
(* evidence, 3 after an edit of a document, 0 for no document.  A commit   *)
(* is the number of its merge base with main, from 1.   The submission      *)
(* stage and the test results a freeze also wants may hold at any time.    *)
(* The tools of G3-D to F name the evidence of the checkpoints before      *)
(* in their source, so they are used only once that evidence is sealed.    *)
(***************************************************************************)
EXTENDS Naturals, FiniteSets

CONSTANTS
    MaxMerges,   \* merges of the delivery branch into main
    MaxTouches   \* edits by hand, commits of source and commands cut short

ASSUME DeliveryAssumption == MaxMerges \in Nat /\ MaxTouches \in Nat

VARIABLES
    source,     \* revisions of the source files in the working tree
    roots,      \* the G3-B2 and G3-B3 evidence
    docs,       \* docs/submission
    results,    \* dist: the G3-C result files and report staging
    main,       \* what origin/main holds
    frozen,     \* the evidence of the four checkpoints
    runs,       \* the demo transcripts saved to files
    touches

vars == <<source, roots, docs, results, main, frozen, runs, touches>>

Facts == 0..3
Value == IF roots = "frozen" THEN 1 ELSE 2
SumsHold == roots # "edited"             \* verify_sha256sums of G3-C
RootsIntact == roots = "frozen"          \* against the digest in the code, G3-D to F

(* Reports 01-02, and 04-07 with 09-11, quote metrics; 03 and 08 do not.   *)
Quoting == {"first", "later"}
Groups == Quoting \cup {"plain"}
None == [facts |-> 0, commit |-> 0]
NoFigures == [source |-> 0, outcome |-> 0, asset |-> 0]
Files == {"one", "two"}
NotRun == [profile |-> "none", traces |-> 0]

(* Source files, one of each kind: main.py, a component of the authority   *)
(* inventory; a loop of the agent, which is a component, has a row in the  *)
(* registries and is named by the innovation map; a file *_skill.py, which *)
(* may come and go and has a row if it is there when the registries are    *)
(* built; and the library, named by the innovation map.  Revision 0: no    *)
(* such file.                                                              *)
SourceFiles == {"entry", "loop", "skill", "library"}
Components == {"entry", "loop"}
Registrable == {"loop", "skill"}
Implementation == {"loop", "library"}
Sources == 0..(MaxTouches + 1)
NoSource == [f \in SourceFiles |-> 0]
Digests(files) == [f \in SourceFiles |-> IF f \in files THEN source[f] ELSE 0]
Current(pins, files) == \A f \in files : pins[f] = source[f]
Rows(registry) == {f \in Registrable : registry[f] # 0}

Init ==
    /\ \E skill \in {0, 1} : source = [f \in SourceFiles |-> IF f = "skill" THEN skill ELSE 1]
    /\ roots = "frozen"
    /\ docs = [ledger |-> None, reports |-> [g \in Groups |-> None], charts |-> 0,
               authority |-> [source |-> NoSource, commit |-> 0], registries |-> NoSource, traces |-> 0,
               mapping |-> NoSource, inventory |-> 0, figures |-> NoFigures, innovation |-> NoSource,
               narrative |-> 0, demo |-> FALSE, storyboard |-> NoFigures, presentation |-> FALSE]
    /\ results = [verified |-> None, staged |-> FALSE, stage |-> 0]
    /\ frozen = [c |-> [state |-> "none", intact |-> TRUE, commit |-> 0, ledger |-> None],
                 d |-> [state |-> "none", intact |-> TRUE, ledger |-> None,
                       registries |-> NoSource, base |-> NoSource],
                 e |-> [state |-> "none", intact |-> TRUE, figures |-> NoFigures, ledger |-> None],
                 f |-> [state |-> "none", figures |-> NoFigures]]
    /\ main = [base |-> 1, source |-> source, roots |-> roots, docs |-> docs, c |-> frozen.c]
    /\ runs = [f \in Files |-> NotRun] /\ touches = 0

Touch == touches < MaxTouches /\ touches' = touches + 1
Sealed(x) == frozen[x].state = "sealed" /\ frozen[x].intact

-----------------------------------------------------------------------------
(***************************************************************************)
(* G3-C.  build writes the ledgers, the reports in order and the chart     *)
(* data, then verifies; cut short, it leaves the first documents new and   *)
(* the others old.  Once evidence is frozen its source_commit.json, also   *)
(* in a part, is the commit every later build names.                       *)
(***************************************************************************)
MergeBase == main.base                                     \* mutant: evidence forgotten
LateBase == main.base + 1                                  \* mutant: off by one
SourceCommit == IF frozen.c.commit # 0 THEN frozen.c.commit ELSE main.base
Ledger == [facts |-> Value, commit |-> SourceCommit]
Report(g) == [facts |-> IF g \in Quoting THEN Value ELSE 0, commit |-> SourceCommit]
Order == [first |-> 2, plain |-> 3, later |-> 4]           \* ledger 1, charts 5
Built(n) ==
    [docs EXCEPT !.ledger = Ledger,
                 !.reports = [g \in Groups |-> IF Order[g] <= n THEN Report(g) ELSE @[g]],
                 !.charts = IF n = 5 THEN Value ELSE @]

LedgerHolds(d) == d.ledger = Ledger /\ SumsHold
ReportsHold(d) ==
    /\ \A g \in Groups : d.reports[g].commit = d.ledger.commit
    /\ \A g \in Quoting : d.reports[g].facts = d.ledger.facts
ChartsHold(d) == d.charts = d.ledger.facts
VerifyPasses(d) == LedgerHolds(d) /\ ReportsHold(d) /\ ChartsHold(d) /\ roots = main.roots
Outcome(d) ==      \* a failing verification raises and leaves the result files
    IF VerifyPasses(d) THEN [results EXCEPT !.verified = d.ledger] ELSE results

BuildReports ==
    /\ SumsHold
    /\ \/ docs' = Built(5) /\ results' = Outcome(docs') /\ UNCHANGED touches
       \/ Touch /\ \E n \in 1..4 : docs' = Built(n) /\ UNCHANGED results
    /\ UNCHANGED <<source, roots, main, frozen, runs>>
VerifyReports ==
    /\ docs.ledger # None
    /\ results' = Outcome(docs)
    /\ UNCHANGED <<source, roots, docs, main, frozen, runs, touches>>

(* The staging directory is replaced only if its marker is there; replacing*)
(* it cut short may leave it without.                                      *)
Unmarked == MaxMerges + 2
StageReports ==
    /\ docs.ledger # None /\ results.stage # Unmarked
    /\ \/ results' = [results EXCEPT !.stage = SourceCommit, !.staged = TRUE] /\ UNCHANGED touches
       \/ Touch /\ results' = [results EXCEPT !.stage = Unmarked]
    /\ UNCHANGED <<source, roots, docs, main, frozen, runs>>

FreezeReports ==
    /\ frozen.c.state = "none"
    /\ results.verified # None /\ results.staged /\ SumsHold
    /\ \/ frozen' = [frozen EXCEPT !.c = [state |-> "sealed", intact |-> TRUE, ledger |-> docs.ledger,
                                          commit |-> SourceCommit]]
          /\ UNCHANGED touches
       \/ Touch /\ \E commit \in {0, SourceCommit} :
              frozen' = [frozen EXCEPT !.c.state = "part", !.c.commit = commit]
    /\ UNCHANGED <<source, roots, docs, results, main, runs>>

-----------------------------------------------------------------------------
(***************************************************************************)
(* G3-D.  The authority inventory pins its components, which include the   *)
(* claim ledger, whose one changing part is the commit; its list of all    *)
(* tracked files is only counted.  The registries pin the files they have  *)
(* a row for; whether a file lacks a row is not looked at again.  The      *)
(* traces pin the frozen evidence.  The documentation is validated by      *)
(* identifiers only, so the digests in its mapping are never compared.     *)
(***************************************************************************)
After(x) == frozen[x].state = "sealed"
Document(d) == docs' = d /\ UNCHANGED <<source, roots, results, main, frozen, runs, touches>>
BuildAgentAuthority ==
    /\ After("c") /\ docs.ledger # None
    /\ Document([docs EXCEPT !.authority = [source |-> Digests(Components),
                                            commit |-> docs.ledger.commit]])
Registered == Digests(Registrable)
BuildRegistries == After("c") /\ Document([docs EXCEPT !.registries = Registered])
BuildTraces == After("c") /\ Document([docs EXCEPT !.traces = Value])
BuildAgentDocs ==
    /\ After("c") /\ docs.registries # NoSource /\ docs.traces # 0 /\ docs.ledger # None
    /\ Document([docs EXCEPT !.mapping = docs.registries])

AuthorityHolds ==
    Current(docs.authority.source, Components) /\ docs.authority.commit = docs.ledger.commit
RegistriesExist == Rows(docs.registries) # {}              \* mutant: digests not compared
RegistriesHold ==
    Rows(docs.registries) # {} /\ Current(docs.registries, Rows(docs.registries))
TracesHold == docs.traces = Value
AgentDocsHold == docs.mapping # NoSource
ClaimsHold == docs.ledger = frozen.c.ledger
(* What differs from origin/main is only what G3-D and later may change.   *)
FeatureFreeze ==
    /\ source = main.source /\ roots = main.roots /\ frozen.c = main.c
    /\ \A x \in {"ledger", "reports", "charts"} : docs[x] = main.docs[x]
AgentHolds ==
    /\ AuthorityHolds /\ RegistriesHold /\ TracesHold /\ AgentDocsHold
    /\ ClaimsHold /\ FeatureFreeze /\ RootsIntact
(* A part blocks only its own directory.  Bound: the first sealed one is   *)
(* the one later checkpoints pin.                                          *)
FreezeAgent ==
    /\ After("c") /\ frozen.d.state # "sealed" /\ AgentHolds
    /\ \/ frozen' = [frozen EXCEPT !.d = [state |-> "sealed", intact |-> TRUE, ledger |-> docs.ledger,
                                          registries |-> docs.registries, base |-> main.source]]
          /\ UNCHANGED touches
       \/ Touch /\ frozen' = [frozen EXCEPT !.d.state = "part"]
    /\ UNCHANGED <<source, roots, docs, results, main, runs>>

-----------------------------------------------------------------------------
(***************************************************************************)
(* G3-E.  The inventory and the figures pin the chart data; one figure     *)
(* also draws a number of the ledger, unpinned, and so does the narrative. *)
(* The tools of G3-E name the number of rows the frozen registries have.   *)
(***************************************************************************)
BuildVisualAuthority ==
    /\ After("d") /\ docs.charts # 0
    /\ Document([docs EXCEPT !.inventory = docs.charts])
Drawn(d) == [source |-> d.charts, outcome |-> d.ledger.facts, asset |-> d.charts]
BuildFigures ==
    /\ After("d") /\ docs.inventory # 0
    /\ Document([docs EXCEPT !.figures = Drawn(docs)])
BuildInnovation ==
    /\ After("d") /\ docs.figures # NoFigures
    /\ Document([docs EXCEPT !.innovation = Digests(Implementation)])
BuildNarrative ==
    /\ After("d") /\ docs.figures # NoFigures
    /\ Document([docs EXCEPT !.narrative = docs.ledger.facts])

VisualInputs ==       \* one that is missing raises
    /\ 0 \notin {docs.inventory, docs.traces} /\ docs.ledger # None
    /\ NoSource \notin {docs.registries, docs.mapping}
VisualAuthorityHolds ==
    /\ VisualInputs /\ docs.inventory = docs.charts /\ docs.charts = docs.ledger.facts
    /\ Cardinality(Rows(docs.registries)) = Cardinality(Rows(frozen.d.registries))
    /\ RootsIntact /\ Sealed("c") /\ Sealed("d")
FiguresHold(f) == f.asset = f.source /\ f.source = docs.charts
InnovationHolds == Current(docs.innovation, Implementation)
NarrativeHolds == docs.narrative # 0
Agent == {"authority", "registries", "traces", "mapping"}
Visual == {"inventory", "figures", "innovation", "narrative"}
AsMerged(xs) == \A x \in xs : docs[x] = main.docs[x]
VisualHolds ==
    /\ VisualAuthorityHolds /\ FiguresHold(docs.figures) /\ InnovationHolds /\ NarrativeHolds
    /\ AsMerged(Agent \cup {"ledger", "charts"})
(* The freeze draws the figures again before its verdict, whatever that    *)
(* is, unless a read raises: then it leaves everything as it is.           *)
AsTheyWere == docs.figures                                 \* mutant: not drawn again
Redrawn == Drawn(docs)
FreezeVisual ==
    /\ frozen.e.state # "sealed" /\ docs.figures # NoFigures /\ VisualInputs
    /\ docs' = [docs EXCEPT !.figures = Redrawn]
    /\ \/ VisualHolds /\ UNCHANGED touches
          /\ frozen' = [frozen EXCEPT !.e = [state |-> "sealed", intact |-> TRUE,
                                             figures |-> docs'.figures, ledger |-> main.docs.ledger]]
       \/ ~VisualHolds /\ UNCHANGED <<touches, frozen>>
       \/ VisualHolds /\ Touch /\ frozen' = [frozen EXCEPT !.e.state = "part"]
    /\ UNCHANGED <<source, roots, results, main, runs>>

-----------------------------------------------------------------------------
(***************************************************************************)
(* G3-F.  The storyboard pins the figures it shows, but is validated by    *)
(* identifiers, like the presentation.  A quick run replays the traces and *)
(* verifies the figures; it saves a transcript only when every step        *)
(* passes.  Bound: two files for transcripts.                              *)
(***************************************************************************)
BuildDemo == After("e") /\ Document([docs EXCEPT !.demo = TRUE])
BuildStoryboard ==
    /\ After("e") /\ docs.figures # NoFigures
    /\ Document([docs EXCEPT !.storyboard = docs.figures])
BuildPresentation ==
    /\ After("e") /\ docs.storyboard # NoFigures
    /\ Document([docs EXCEPT !.presentation = TRUE])
QuickPasses == docs.traces # 0 /\ docs.figures # NoFigures /\ FiguresHold(docs.figures)
RunDemo(file, profile) ==
    /\ After("e") /\ docs.demo
    /\ profile = "QUICK_DEMO" => QuickPasses
    /\ runs' = [runs EXCEPT ![file] = [profile |-> profile,
                    traces |-> IF profile = "QUICK_DEMO" THEN docs.traces ELSE 0]]
    /\ UNCHANGED <<source, roots, docs, results, main, frozen, touches>>

EarlierEvidence == \A x \in {"c", "d", "e"} : Sealed(x)
DemoPackageHolds == docs.demo
StoryboardHolds == docs.storyboard # NoFigures
PresentationHolds == docs.presentation
DemoHolds ==
    /\ DemoPackageHolds /\ StoryboardHolds /\ PresentationHolds
    /\ RootsIntact /\ EarlierEvidence
    /\ AsMerged(Agent \cup Visual \cup {"ledger", "charts"})
(* The two quick runs are whatever two files the user names, a missing one *)
(* apart, if their transcripts are equal; the third has to be a fallback.  *)
RunsHold(q1, q2, fallback) ==
    /\ runs[q1] = runs[q2] /\ runs[q1] # NotRun
    /\ runs[fallback].profile = "FALLBACK_DEMO"
FreezeDemo ==
    /\ frozen.f.state # "sealed" /\ DemoHolds
    /\ \E q1, q2, fallback \in Files : RunsHold(q1, q2, fallback)
    /\ \/ frozen' = [frozen EXCEPT !.f = [state |-> "sealed", figures |-> docs.figures]] /\ UNCHANGED touches
       \/ Touch /\ frozen' = [frozen EXCEPT !.f.state = "part"]
    /\ UNCHANGED <<source, roots, docs, results, main, runs>>

-----------------------------------------------------------------------------
(***************************************************************************)
(* The user: merges, a commit of source files, edits by hand.              *)
(***************************************************************************)
Merge ==
    /\ main.base <= MaxMerges
    /\ main' = [base |-> main.base + 1, source |-> source, roots |-> roots,
                docs |-> docs, c |-> frozen.c]
    /\ UNCHANGED <<source, roots, docs, results, frozen, runs, touches>>
(* Bound: only skills come and go; without another file a build raises.    *)
CommitSource ==
    /\ Touch
    /\ \E f \in SourceFiles, revision \in Sources :
        /\ revision # source[f] /\ (revision = 0 => f = "skill")
        /\ source' = [source EXCEPT ![f] = revision]
    /\ UNCHANGED <<roots, docs, results, main, frozen, runs>>
EditRoots ==
    /\ Touch /\ roots = "frozen" /\ roots' \in {"edited", "resummed"}
    /\ UNCHANGED <<source, docs, results, main, frozen, runs>>
EditDocument ==
    /\ Touch
    /\ docs' \in {[docs EXCEPT !.ledger.facts = 3], [docs EXCEPT !.charts = 3],
                  [docs EXCEPT !.reports["later"].facts = 3], [docs EXCEPT !.figures.asset = 3]}
    /\ docs.ledger # None /\ docs.charts # 0 /\ docs.figures # NoFigures
    /\ UNCHANGED <<source, roots, results, main, frozen, runs>>
EditEvidence(x) ==
    /\ Touch /\ Sealed(x)
    /\ frozen' = [frozen EXCEPT ![x].intact = FALSE]
    /\ UNCHANGED <<source, roots, docs, results, main, runs>>

Next ==
    \/ BuildReports \/ VerifyReports \/ StageReports \/ FreezeReports
    \/ BuildAgentAuthority \/ BuildRegistries \/ BuildTraces \/ BuildAgentDocs \/ FreezeAgent
    \/ BuildVisualAuthority \/ BuildFigures \/ BuildInnovation \/ BuildNarrative \/ FreezeVisual
    \/ BuildDemo \/ BuildStoryboard \/ BuildPresentation \/ FreezeDemo
    \/ \E file \in Files, profile \in {"QUICK_DEMO", "FALLBACK_DEMO"} : RunDemo(file, profile)
    \/ Merge \/ CommitSource \/ EditRoots \/ EditDocument \/ \E x \in {"c", "d", "e"} : EditEvidence(x)

Spec == Init /\ [][Next]_vars

-----------------------------------------------------------------------------
(***************************************************************************)
(* Properties.                                                             *)
(***************************************************************************)
Commits == 0..(MaxMerges + 1)
Revisions == [SourceFiles -> Sources]
Ledgers == [facts : Facts, commit : Commits]
FigureSets == [source : Facts, outcome : Facts, asset : Facts]
Documents ==
    [ledger : Ledgers, reports : [Groups -> Ledgers], charts : Facts,
     authority : [source : Revisions, commit : Commits], registries : Revisions, traces : Facts,
     mapping : Revisions, inventory : Facts, figures : FigureSets, innovation : Revisions,
     narrative : Facts, demo : BOOLEAN, storyboard : FigureSets, presentation : BOOLEAN]
States == {"none", "part", "sealed"}
ReportEvidence ==
    [state : States, intact : BOOLEAN, commit : Commits, ledger : Ledgers]

(* Every variable keeps its type; no document or evidence names a commit   *)
(* that main does not have.                                                *)
TypeOK ==
    /\ source \in Revisions /\ roots \in {"frozen", "edited", "resummed"}
    /\ docs \in Documents
    /\ results \in [verified : Ledgers, staged : BOOLEAN,
                    stage : Commits \cup {Unmarked}]
    /\ main \in [base : Commits \ {0}, source : Revisions, roots : {"frozen", "edited", "resummed"},
                 docs : Documents, c : ReportEvidence]
    /\ frozen \in [c : ReportEvidence,
                   d : [state : States, intact : BOOLEAN, ledger : Ledgers,
                        registries : Revisions, base : Revisions],
                   e : [state : States, intact : BOOLEAN, figures : FigureSets, ledger : Ledgers],
                   f : [state : States, figures : FigureSets]]
    /\ runs \in [Files -> [profile : {"none", "QUICK_DEMO", "FALLBACK_DEMO"}, traces : Facts]]
    /\ touches \in 0..MaxTouches
    /\ docs.ledger.commit <= main.base /\ frozen.c.commit <= main.base

(* finalize.py of agent_delivery: every prompt and skill that the G3-D     *)
(* evidence counts is a file as main had it then, whatever was committed   *)
(* or merged between building the registries and freezing; and the ledger  *)
(* under it is the one G3-C froze.  It does not say that every skill of    *)
(* main is counted: one that came after the registries were built is not,  *)
(* and no validation notices.                                              *)
AgentEvidenceMatches ==
    frozen.d.state = "sealed" =>
        /\ Rows(frozen.d.registries) # {}
        /\ \A f \in Rows(frozen.d.registries) : frozen.d.registries[f] = frozen.d.base[f]
        /\ frozen.d.ledger = frozen.c.ledger

(* finalize.py of visualization: every number the frozen figures show is   *)
(* that of the ledger on main, the unpinned one of the ledger itself       *)
(* included, even when they were drawn from other documents before.        *)
FiguresShowLedger ==
    frozen.e.state = "sealed" =>
        \A part \in {"source", "outcome", "asset"} : frozen.e.figures[part] = frozen.e.ledger.facts

(* evidence_reader.source_commit: once the reports are frozen, building    *)
(* them again gives the ledger that was frozen, however main moved on: one *)
(* built between the last merge and the freeze, from unchanged evidence.   *)
RebuildReproduces ==
    [][(/\ frozen.c.state = "sealed" /\ docs'.ledger # docs.ledger /\ docs'.ledger.facts # 3
        /\ frozen.c.ledger = [facts |-> Value, commit |-> frozen.c.commit])
       => docs'.ledger = frozen.c.ledger]_vars
=============================================================================
