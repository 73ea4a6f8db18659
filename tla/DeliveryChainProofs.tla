------------------------ MODULE DeliveryChainProofs -------------------------
(***************************************************************************)
(* Theorems about DeliveryChain, for any number of merges and of edits:    *)
(* what the evidence of G3-D and G3-E says is what the ledger and main     *)
(* said when it was frozen, and a ledger built again is the one frozen.    *)
(***************************************************************************)
EXTENDS DeliveryChain, TLAPS

Profiles == {"none", "QUICK_DEMO", "FALLBACK_DEMO"}
Roots == {"frozen", "edited", "resummed"}
ResultFiles == [verified : Ledgers, staged : BOOLEAN, stage : Commits \cup {Unmarked}]
Mains ==
  [base : Commits \ {0}, source : Revisions, roots : Roots, docs : Documents, c : ReportEvidence]
AgentEvidence ==
  [state : States, intact : BOOLEAN, ledger : Ledgers,
   registries : Revisions, base : Revisions]
VisualEvidence == [state : States, intact : BOOLEAN, figures : FigureSets, ledger : Ledgers]
DemoEvidence == [state : States, figures : FigureSets]
Frozen == [c : ReportEvidence, d : AgentEvidence, e : VisualEvidence, f : DemoEvidence]

Types ==
  /\ source \in Revisions /\ roots \in Roots /\ docs \in Documents /\ results \in ResultFiles
  /\ main \in Mains /\ frozen \in Frozen
  /\ runs \in [Files -> [profile : Profiles, traces : Facts]] /\ touches \in 0..MaxTouches

(***************************************************************************)
(* The commit a document names is one main has; the commit of sealed       *)
(* evidence is never missing; evidence of the agent is sealed upon         *)
(* evidence of the reports, which stays.                                   *)
(***************************************************************************)
CommitInv == docs.ledger.commit <= main.base /\ frozen.c.commit <= main.base
ChainInv ==
  /\ frozen.c.state = "sealed" => frozen.c.commit # 0
  /\ frozen.d.state = "sealed" => frozen.c.state = "sealed"

Claims == AgentEvidenceMatches /\ FiguresShowLedger

IInv == Types /\ CommitInv /\ ChainInv /\ Claims

-----------------------------------------------------------------------------
LEMMA TypesAreTypes == Types /\ CommitInv => TypeOK
  BY DEF Types, CommitInv, TypeOK, Profiles, Roots, ResultFiles, Mains, AgentEvidence,
     VisualEvidence, DemoEvidence, Frozen

LEMMA BoundFacts ==
  /\ MaxMerges \in Nat /\ MaxTouches \in Nat
  /\ Commits \subseteq Nat /\ Sources \subseteq Nat /\ 0 \in Commits /\ 0 \in Sources
  /\ 1 \in Commits /\ 1 \in Sources
  /\ {0, 1, 2, 3} \subseteq Facts /\ Facts \subseteq Nat
  /\ Value \in {1, 2}
  /\ Groups = {"first", "later", "plain"}
  /\ None \in Ledgers /\ NoFigures \in FigureSets /\ NoSource \in Revisions
<1>1. MaxMerges \in Nat /\ MaxTouches \in Nat
  BY DeliveryAssumption
<1>2. /\ Commits \subseteq Nat /\ Sources \subseteq Nat /\ 0 \in Commits /\ 0 \in Sources
      /\ 1 \in Commits /\ 1 \in Sources
  BY <1>1 DEF Commits, Sources
<1>3. {0, 1, 2, 3} \subseteq Facts /\ Facts \subseteq Nat
  BY DEF Facts
<1>4. None \in Ledgers /\ NoFigures \in FigureSets
  BY <1>2, <1>3 DEF None, NoFigures, Ledgers, FigureSets
<1>5. NoSource \in Revisions
  BY <1>2 DEF NoSource, Revisions
<1> QED
  BY <1>1, <1>2, <1>3, <1>4, <1>5 DEF Value, Groups, Quoting

(* What a document pins of the source files. *)
LEMMA DigestFacts ==
  ASSUME source \in Revisions, NEW files
  PROVE  Digests(files) \in Revisions
  BY BoundFacts DEF Digests, Revisions

LEMMA DocumentFacts ==
  ASSUME NEW d \in Documents
  PROVE  /\ d = [ledger |-> d.ledger, reports |-> d.reports, charts |-> d.charts,
                 authority |-> d.authority, registries |-> d.registries, traces |-> d.traces,
                 mapping |-> d.mapping, inventory |-> d.inventory, figures |-> d.figures,
                 innovation |-> d.innovation, narrative |-> d.narrative, demo |-> d.demo,
                 storyboard |-> d.storyboard, presentation |-> d.presentation]
         /\ d.ledger \in Ledgers /\ d.reports \in [Groups -> Ledgers] /\ d.charts \in Facts
         /\ d.authority \in [source : Revisions, commit : Commits]
         /\ d.registries \in Revisions /\ d.traces \in Facts /\ d.mapping \in Revisions
         /\ d.inventory \in Facts /\ d.figures \in FigureSets /\ d.innovation \in Revisions
         /\ d.narrative \in Facts /\ d.storyboard \in FigureSets
         /\ d.demo \in BOOLEAN /\ d.presentation \in BOOLEAN
  BY DEF Documents

LEMMA LedgerFacts ==
  ASSUME NEW l \in Ledgers
  PROVE  l = [facts |-> l.facts, commit |-> l.commit] /\ l.facts \in Facts /\ l.commit \in Commits
  BY DEF Ledgers

LEMMA FrozenFacts ==
  ASSUME frozen \in Frozen
  PROVE  /\ frozen = [c |-> frozen.c, d |-> frozen.d, e |-> frozen.e, f |-> frozen.f]
         /\ frozen.c \in ReportEvidence /\ frozen.d \in AgentEvidence
         /\ frozen.e \in VisualEvidence /\ frozen.f \in DemoEvidence
         /\ frozen.c.commit \in Commits /\ frozen.c.ledger \in Ledgers
  BY DEF Frozen, ReportEvidence

LEMMA MainFacts ==
  ASSUME main \in Mains
  PROVE  main.base \in Commits \ {0} /\ main.source \in Revisions /\ main.docs \in Documents
  BY DEF Mains

(* What the ledger and the reports are built from. *)
LEMMA SourceCommitFacts ==
  ASSUME IInv
  PROVE  /\ SourceCommit \in Commits \ {0} /\ SourceCommit <= main.base
         /\ Ledger \in Ledgers /\ \A g \in Groups : Report(g) \in Ledgers
<1>1. SourceCommit \in Commits \ {0} /\ SourceCommit <= main.base
  <2>1. main.base \in Commits \ {0} /\ frozen.c.commit \in Commits
    BY MainFacts, FrozenFacts DEF IInv, Types
  <2>2. main.base <= main.base /\ frozen.c.commit <= main.base
    <3>1. main.base \in Nat
      BY <2>1, BoundFacts
    <3>2. main.base <= main.base
      BY <3>1
    <3> QED
      BY <3>2 DEF IInv, CommitInv
  <2> QED
    BY <2>1, <2>2 DEF SourceCommit
<1>2. Value \in Facts /\ 0 \in Facts
  BY BoundFacts
<1> QED
  BY <1>1, <1>2 DEF Ledger, Report, Ledgers

-----------------------------------------------------------------------------
(***************************************************************************)
(* What a step keeps when it leaves the evidence alone.                    *)
(***************************************************************************)
LEMMA SameEvidence ==
  ASSUME IInv, UNCHANGED frozen
  PROVE  ChainInv' /\ Claims'
  BY DEF IInv, ChainInv, Claims, AgentEvidenceMatches, FiguresShowLedger

LEMMA TouchFacts ==
  ASSUME IInv
  PROVE  (UNCHANGED touches \/ Touch) => touches' \in 0..MaxTouches
<1>1. touches \in 0..MaxTouches
  BY DEF IInv, Types
<1> QED
  BY <1>1, BoundFacts DEF Touch

(* A document is written. *)
LEMMA Documented ==
  ASSUME IInv, docs' \in Documents, docs'.ledger.commit <= main.base,
         UNCHANGED <<source, roots, main, frozen, runs>>,
         results' \in ResultFiles, UNCHANGED touches \/ Touch
  PROVE  IInv'
<1>1. touches' \in 0..MaxTouches
  BY TouchFacts DEF IInv, Types
<1>2. Types' /\ CommitInv'
  BY <1>1 DEF IInv, Types, CommitInv
<1> QED
  BY <1>1, <1>2, SameEvidence DEF IInv

LEMMA DocumentWritten ==
  ASSUME IInv, NEW d, Document(d), d \in Documents, d.ledger = docs.ledger
  PROVE  IInv'
<1>1. docs' = d /\ UNCHANGED <<source, roots, results, main, frozen, runs, touches>>
  BY DEF Document
<1>2. docs'.ledger.commit <= main.base
  BY <1>1 DEF IInv, CommitInv
<1> QED
  BY <1>1, <1>2, Documented DEF IInv, Types

(***************************************************************************)
(* The steps.                                                              *)
(***************************************************************************)
LEMMA DrawnFacts ==
  ASSUME NEW d \in Documents
  PROVE  /\ Drawn(d) \in FigureSets /\ Drawn(d).source = d.charts
         /\ Drawn(d).outcome = d.ledger.facts /\ Drawn(d).asset = d.charts
<1>1. d.charts \in Facts /\ d.ledger.facts \in Facts
  BY DocumentFacts, LedgerFacts
<1> QED
  BY <1>1 DEF Drawn, FigureSets

LEMMA AgentDocumentInv ==
  ASSUME IInv
  PROVE  /\ BuildAgentAuthority => IInv'
         /\ BuildRegistries => IInv'
         /\ BuildTraces => IInv'
         /\ BuildAgentDocs => IInv'
<1>1. /\ docs \in Documents /\ Value \in Facts
      /\ Digests(Components) \in Revisions /\ Digests(Registrable) \in Revisions
  BY BoundFacts, DigestFacts DEF IInv, Types
<1>2. docs.ledger.commit \in Commits /\ docs.registries \in Revisions
  BY <1>1, DocumentFacts, LedgerFacts
<1>3. BuildAgentAuthority => IInv'
  <2> DEFINE d == [docs EXCEPT !.authority = [source |-> Digests(Components),
                                              commit |-> docs.ledger.commit]]
  <2>1. d \in Documents /\ d.ledger = docs.ledger
    BY <1>1, <1>2 DEF Documents
  <2>2. BuildAgentAuthority => Document(d)
    BY DEF BuildAgentAuthority
  <2> HIDE DEF d
  <2> QED
    BY <2>1, <2>2, DocumentWritten
<1>4. BuildRegistries => IInv'
  <2> DEFINE d == [docs EXCEPT !.registries = Digests(Registrable)]
  <2>1. d \in Documents /\ d.ledger = docs.ledger
    BY <1>1 DEF Documents
  <2>2. BuildRegistries => Document(d)
    BY DEF BuildRegistries, Registered
  <2> HIDE DEF d
  <2> QED
    BY <2>1, <2>2, DocumentWritten
<1>5. BuildTraces => IInv'
  <2> DEFINE d == [docs EXCEPT !.traces = Value]
  <2>1. d \in Documents /\ d.ledger = docs.ledger
    BY <1>1 DEF Documents
  <2>2. BuildTraces => Document(d)
    BY DEF BuildTraces
  <2> HIDE DEF d
  <2> QED
    BY <2>1, <2>2, DocumentWritten
<1>6. BuildAgentDocs => IInv'
  <2> DEFINE d == [docs EXCEPT !.mapping = docs.registries]
  <2>1. d \in Documents /\ d.ledger = docs.ledger
    BY <1>1, <1>2 DEF Documents
  <2>2. BuildAgentDocs => Document(d)
    BY DEF BuildAgentDocs
  <2> HIDE DEF d
  <2> QED
    BY <2>1, <2>2, DocumentWritten
<1> QED
  BY <1>3, <1>4, <1>5, <1>6

LEMMA VisualDocumentInv ==
  ASSUME IInv
  PROVE  /\ BuildVisualAuthority => IInv'
         /\ BuildFigures => IInv'
         /\ BuildInnovation => IInv'
         /\ BuildNarrative => IInv'
<1>1. docs \in Documents /\ Digests(Implementation) \in Revisions
  BY DigestFacts DEF IInv, Types
<1>2. docs.charts \in Facts /\ docs.ledger.facts \in Facts /\ Drawn(docs) \in FigureSets
  BY <1>1, DocumentFacts, LedgerFacts, DrawnFacts
<1>3. BuildVisualAuthority => IInv'
  <2> DEFINE d == [docs EXCEPT !.inventory = docs.charts]
  <2>1. d \in Documents /\ d.ledger = docs.ledger
    BY <1>1, <1>2 DEF Documents
  <2>2. BuildVisualAuthority => Document(d)
    BY DEF BuildVisualAuthority
  <2> HIDE DEF d
  <2> QED
    BY <2>1, <2>2, DocumentWritten
<1>4. BuildFigures => IInv'
  <2> DEFINE d == [docs EXCEPT !.figures = Drawn(docs)]
  <2>1. d \in Documents /\ d.ledger = docs.ledger
    BY <1>1, <1>2 DEF Documents
  <2>2. BuildFigures => Document(d)
    BY DEF BuildFigures
  <2> HIDE DEF d
  <2> QED
    BY <2>1, <2>2, DocumentWritten
<1>5. BuildInnovation => IInv'
  <2> DEFINE d == [docs EXCEPT !.innovation = Digests(Implementation)]
  <2>1. d \in Documents /\ d.ledger = docs.ledger
    BY <1>1 DEF Documents
  <2>2. BuildInnovation => Document(d)
    BY DEF BuildInnovation
  <2> HIDE DEF d
  <2> QED
    BY <2>1, <2>2, DocumentWritten
<1>6. BuildNarrative => IInv'
  <2> DEFINE d == [docs EXCEPT !.narrative = docs.ledger.facts]
  <2>1. d \in Documents /\ d.ledger = docs.ledger
    BY <1>1, <1>2 DEF Documents
  <2>2. BuildNarrative => Document(d)
    BY DEF BuildNarrative
  <2> HIDE DEF d
  <2> QED
    BY <2>1, <2>2, DocumentWritten
<1> QED
  BY <1>3, <1>4, <1>5, <1>6

LEMMA DemoDocumentInv ==
  ASSUME IInv
  PROVE  /\ BuildDemo => IInv'
         /\ BuildStoryboard => IInv'
         /\ BuildPresentation => IInv'
<1>1. docs \in Documents /\ docs.figures \in FigureSets
  BY DocumentFacts DEF IInv, Types
<1>2. BuildDemo => IInv'
  <2> DEFINE d == [docs EXCEPT !.demo = TRUE]
  <2>1. d \in Documents /\ d.ledger = docs.ledger
    BY <1>1 DEF Documents
  <2>2. BuildDemo => Document(d)
    BY DEF BuildDemo
  <2> HIDE DEF d
  <2> QED
    BY <2>1, <2>2, DocumentWritten
<1>3. BuildStoryboard => IInv'
  <2> DEFINE d == [docs EXCEPT !.storyboard = docs.figures]
  <2>1. d \in Documents /\ d.ledger = docs.ledger
    BY <1>1 DEF Documents
  <2>2. BuildStoryboard => Document(d)
    BY DEF BuildStoryboard
  <2> HIDE DEF d
  <2> QED
    BY <2>1, <2>2, DocumentWritten
<1>4. BuildPresentation => IInv'
  <2> DEFINE d == [docs EXCEPT !.presentation = TRUE]
  <2>1. d \in Documents /\ d.ledger = docs.ledger
    BY <1>1 DEF Documents
  <2>2. BuildPresentation => Document(d)
    BY DEF BuildPresentation
  <2> HIDE DEF d
  <2> QED
    BY <2>1, <2>2, DocumentWritten
<1> QED
  BY <1>2, <1>3, <1>4

LEMMA BuildReportsInv == IInv /\ BuildReports => IInv'
<1> SUFFICES ASSUME IInv, BuildReports PROVE IInv'
  OBVIOUS
<1>1. docs \in Documents /\ results \in ResultFiles
  BY DEF IInv, Types
<1>2. PICK n \in 1..5 : docs' = Built(n)
  BY DEF BuildReports
<1>3. /\ UNCHANGED <<source, roots, main, frozen, runs>> /\ (UNCHANGED touches \/ Touch)
      /\ results' = Outcome(docs') \/ results' = results
  BY DEF BuildReports
<1>4. Built(n) \in Documents /\ Built(n).ledger = Ledger
  <2> DEFINE reports == [g \in Groups |-> IF Order[g] <= n THEN Report(g) ELSE docs.reports[g]]
             charts == IF n = 5 THEN Value ELSE docs.charts
  <2>1. Built(n) = [docs EXCEPT !.ledger = Ledger, !.reports = reports, !.charts = charts]
    BY DEF Built
  <2>2. reports \in [Groups -> Ledgers]
    BY <1>1, SourceCommitFacts, DocumentFacts
  <2>3. charts \in Facts /\ Ledger \in Ledgers
    BY <1>1, SourceCommitFacts, DocumentFacts, BoundFacts
  <2> HIDE DEF reports, charts
  <2> QED
    BY <1>1, <2>1, <2>2, <2>3 DEF Documents
<1>5. results' \in ResultFiles
  <2>1. docs'.ledger \in Ledgers
    BY <1>2, <1>4, SourceCommitFacts
  <2>2. [results EXCEPT !.verified = docs'.ledger] \in ResultFiles
    BY <1>1, <2>1 DEF ResultFiles
  <2> QED
    BY <1>1, <1>3, <2>2 DEF Outcome
<1>6. docs'.ledger.commit <= main.base
  BY <1>2, <1>4, SourceCommitFacts DEF Ledger
<1> QED
  BY <1>2, <1>3, <1>4, <1>5, <1>6, Documented

LEMMA VerifyReportsInv == IInv /\ VerifyReports => IInv'
<1> SUFFICES ASSUME IInv, VerifyReports PROVE IInv'
  OBVIOUS
<1>1. /\ results' = Outcome(docs)
      /\ UNCHANGED <<source, roots, docs, main, frozen, runs, touches>>
  BY DEF VerifyReports
<1>2. docs.ledger \in Ledgers /\ results \in ResultFiles /\ docs \in Documents
  BY DocumentFacts DEF IInv, Types
<1>3. [results EXCEPT !.verified = docs.ledger] \in ResultFiles
  BY <1>2 DEF ResultFiles
<1>4. results' \in ResultFiles
  BY <1>1, <1>2, <1>3 DEF Outcome
<1>5. docs'.ledger.commit <= main.base
  BY <1>1 DEF IInv, CommitInv
<1> QED
  BY <1>1, <1>2, <1>4, <1>5, Documented

LEMMA StageReportsInv == IInv /\ StageReports => IInv'
<1> SUFFICES ASSUME IInv, StageReports PROVE IInv'
  OBVIOUS
<1>1. /\ \/ results' = [results EXCEPT !.stage = SourceCommit, !.staged = TRUE]
         \/ results' = [results EXCEPT !.stage = Unmarked]
      /\ UNCHANGED <<source, roots, docs, main, frozen, runs>> /\ (UNCHANGED touches \/ Touch)
  BY DEF StageReports
<1>2. SourceCommit \in Commits /\ results \in ResultFiles
  BY SourceCommitFacts DEF IInv, Types
<1>3. results' \in ResultFiles
  BY <1>1, <1>2 DEF ResultFiles
<1>4. docs'.ledger.commit <= main.base /\ docs' \in Documents
  BY <1>1 DEF IInv, CommitInv, Types
<1> QED
  BY <1>1, <1>3, <1>4, Documented

LEMMA EditDocumentInv == IInv /\ EditDocument => IInv'
<1> SUFFICES ASSUME IInv, EditDocument PROVE IInv'
  OBVIOUS
<1>1. /\ UNCHANGED <<source, roots, results, main, frozen, runs>> /\ Touch
      /\ docs' \in {[docs EXCEPT !.ledger.facts = 3], [docs EXCEPT !.charts = 3],
                    [docs EXCEPT !.reports["later"].facts = 3], [docs EXCEPT !.figures.asset = 3]}
  BY DEF EditDocument
<1>2. docs \in Documents /\ 3 \in Facts /\ "later" \in Groups
  BY BoundFacts DEF IInv, Types
<1>3. docs' \in Documents /\ docs'.ledger.commit = docs.ledger.commit
  <2>1. CASE docs' = [docs EXCEPT !.ledger.facts = 3]
    BY <1>2, <2>1 DEF Documents, Ledgers
  <2>2. CASE docs' = [docs EXCEPT !.charts = 3]
    BY <1>2, <2>2 DEF Documents
  <2>3. CASE docs' = [docs EXCEPT !.reports["later"].facts = 3]
    BY <1>2, <2>3 DEF Documents, Ledgers
  <2>4. CASE docs' = [docs EXCEPT !.figures.asset = 3]
    BY <1>2, <2>4 DEF Documents, FigureSets
  <2> QED
    BY <1>1, <2>1, <2>2, <2>3, <2>4
<1>4. docs'.ledger.commit <= main.base
  BY <1>3 DEF IInv, CommitInv
<1> QED
  BY <1>1, <1>3, <1>4, Documented DEF IInv, Types

-----------------------------------------------------------------------------
(***************************************************************************)
(* Evidence is written: the rest of the state is as it was.                *)
(***************************************************************************)
LEMMA EvidenceWritten ==
  ASSUME IInv, frozen' \in Frozen, frozen'.c.commit <= main.base, ChainInv', Claims',
         docs' \in Documents, docs'.ledger = docs.ledger,
         UNCHANGED <<source, roots, results, main, runs>>, UNCHANGED touches \/ Touch
  PROVE  IInv'
<1>1. touches' \in 0..MaxTouches
  BY TouchFacts DEF IInv, Types
<1>2. Types' /\ CommitInv'
  BY <1>1 DEF IInv, Types, CommitInv
<1> QED
  BY <1>1, <1>2 DEF IInv

LEMMA FreezeReportsInv == IInv /\ FreezeReports => IInv'
<1> SUFFICES ASSUME IInv, FreezeReports PROVE IInv'
  OBVIOUS
<1>1. /\ UNCHANGED <<source, roots, docs, results, main, runs>> /\ (UNCHANGED touches \/ Touch)
      /\ frozen.c.state = "none"
  BY DEF FreezeReports
<1>2. PICK c : /\ frozen' = [frozen EXCEPT !.c = c] /\ c \in ReportEvidence
               /\ c.commit <= main.base /\ (c.state = "sealed" => c.commit # 0)
  <2>1. /\ frozen.c \in ReportEvidence /\ docs.ledger \in Ledgers
        /\ main.base \in Nat /\ 0 \in Commits
    BY FrozenFacts, DocumentFacts, MainFacts, BoundFacts DEF IInv, Types
  <2>2. SourceCommit \in Commits \ {0} /\ SourceCommit <= main.base
    BY SourceCommitFacts
  <2>3. CASE frozen' = [frozen EXCEPT !.c = [state |-> "sealed", intact |-> TRUE,
                                             ledger |-> docs.ledger, commit |-> SourceCommit]]
    <3> DEFINE c == [state |-> "sealed", intact |-> TRUE, ledger |-> docs.ledger,
                     commit |-> SourceCommit]
    <3>1. c \in ReportEvidence /\ c.commit = SourceCommit
      BY <2>1, <2>2 DEF ReportEvidence, States
    <3>2. frozen' = [frozen EXCEPT !.c = c]
      BY <2>3
    <3> HIDE DEF c
    <3> QED
      BY <2>2, <3>1, <3>2
  <2>4. ASSUME NEW commit \in {0, SourceCommit},
               frozen' = [frozen EXCEPT !.c.state = "part", !.c.commit = commit]
        PROVE  \E c : /\ frozen' = [frozen EXCEPT !.c = c] /\ c \in ReportEvidence
                      /\ c.commit <= main.base /\ (c.state = "sealed" => c.commit # 0)
    <3> DEFINE c == [frozen.c EXCEPT !.state = "part", !.commit = commit]
    <3>1. commit \in Commits /\ commit <= main.base
      BY <2>1, <2>2, <2>4
    <3>2. c \in ReportEvidence /\ c.commit = commit /\ c.state = "part"
      BY <2>1, <3>1 DEF ReportEvidence, States
    <3>3. frozen' = [frozen EXCEPT !.c = c]
      BY <2>4, FrozenFacts DEF IInv, Types
    <3> HIDE DEF c
    <3> QED
      BY <3>1, <3>2, <3>3
  <2> QED
    BY <2>3, <2>4 DEF FreezeReports
<1>3. frozen \in Frozen
  BY DEF IInv, Types
<1>4. /\ frozen' \in Frozen /\ frozen'.c = c /\ UNCHANGED <<frozen.d, frozen.e>>
  BY <1>2, <1>3 DEF Frozen
<1>5. frozen.d.state # "sealed"
  BY <1>1 DEF IInv, ChainInv
<1>6. ChainInv' /\ Claims'
  BY <1>2, <1>4, <1>5 DEF IInv, ChainInv, Claims, AgentEvidenceMatches, FiguresShowLedger
<1> QED
  BY <1>1, <1>2, <1>4, <1>6, EvidenceWritten DEF IInv, Types

LEMMA FreezeAgentInv == IInv /\ FreezeAgent => IInv'
<1> SUFFICES ASSUME IInv, FreezeAgent PROVE IInv'
  OBVIOUS
<1>1. /\ UNCHANGED <<source, roots, docs, results, main, runs>> /\ (UNCHANGED touches \/ Touch)
      /\ frozen.c.state = "sealed" /\ AgentHolds
  BY DEF FreezeAgent, After
<1>2. /\ docs.ledger = frozen.c.ledger /\ Rows(docs.registries) # {}
      /\ \A f \in Rows(docs.registries) : docs.registries[f] = main.source[f]
  BY <1>1 DEF AgentHolds, RegistriesHold, Current, FeatureFreeze, ClaimsHold
<1>3. /\ frozen \in Frozen /\ frozen.d \in AgentEvidence
      /\ docs.ledger \in Ledgers /\ docs.registries \in Revisions /\ main.source \in Revisions
  BY FrozenFacts, DocumentFacts, MainFacts DEF IInv, Types
<1>4. PICK d : /\ frozen' = [frozen EXCEPT !.d = d] /\ d \in AgentEvidence
               /\ d.state = "sealed" =>
                    /\ Rows(d.registries) # {} /\ d.ledger = frozen.c.ledger
                    /\ \A f \in Rows(d.registries) : d.registries[f] = d.base[f]
  <2>1. CASE frozen' = [frozen EXCEPT !.d = [state |-> "sealed", intact |-> TRUE,
                          ledger |-> docs.ledger, registries |-> docs.registries,
                          base |-> main.source]]
    <3> DEFINE d == [state |-> "sealed", intact |-> TRUE, ledger |-> docs.ledger,
                     registries |-> docs.registries, base |-> main.source]
    <3>1. /\ d \in AgentEvidence /\ d.registries = docs.registries /\ d.base = main.source
          /\ d.ledger = docs.ledger
      BY <1>3 DEF AgentEvidence, States
    <3>2. frozen' = [frozen EXCEPT !.d = d]
      BY <2>1
    <3> HIDE DEF d
    <3> QED
      BY <1>2, <3>1, <3>2
  <2>2. CASE frozen' = [frozen EXCEPT !.d.state = "part"]
    <3> DEFINE d == [frozen.d EXCEPT !.state = "part"]
    <3>1. d \in AgentEvidence /\ d.state = "part"
      BY <1>3 DEF AgentEvidence, States
    <3>2. frozen' = [frozen EXCEPT !.d = d]
      BY <2>2, <1>3 DEF Frozen
    <3> HIDE DEF d
    <3> QED
      BY <3>1, <3>2
  <2> QED
    BY <2>1, <2>2 DEF FreezeAgent
<1>5. /\ frozen' \in Frozen /\ frozen'.d = d /\ UNCHANGED <<frozen.c, frozen.e>>
  BY <1>3, <1>4 DEF Frozen
<1>6. ChainInv' /\ Claims'
  BY <1>1, <1>4, <1>5 DEF IInv, ChainInv, Claims, AgentEvidenceMatches, FiguresShowLedger
<1>7. frozen'.c.commit <= main.base
  BY <1>5 DEF IInv, CommitInv
<1> QED
  BY <1>1, <1>5, <1>6, <1>7, EvidenceWritten DEF IInv, Types

(* The figures are drawn again; a verdict that holds says that the chart   *)
(* data and the ledger give the same facts, and that main has the ledger.  *)
LEMMA FreezeVisualInv == IInv /\ FreezeVisual => IInv'
<1> SUFFICES ASSUME IInv, FreezeVisual PROVE IInv'
  OBVIOUS
<1>1. /\ UNCHANGED <<source, roots, results, main, runs>> /\ (UNCHANGED touches \/ Touch)
      /\ docs' = [docs EXCEPT !.figures = Redrawn]
  BY DEF FreezeVisual
<1>2. /\ docs \in Documents /\ frozen \in Frozen /\ frozen.e \in VisualEvidence
      /\ main.docs.ledger \in Ledgers /\ Redrawn \in FigureSets
  BY FrozenFacts, DocumentFacts, MainFacts, DrawnFacts DEF IInv, Types, Redrawn
<1>3. docs' \in Documents /\ docs'.ledger = docs.ledger /\ docs'.figures = Redrawn
  BY <1>1, <1>2 DEF Documents
<1>4. frozen'.c.commit <= main.base /\ ChainInv' /\ Claims' /\ frozen' \in Frozen
  <2>1. CASE UNCHANGED frozen
    BY <1>2, <2>1, SameEvidence DEF IInv, CommitInv
  <2>2. CASE VisualHolds
             /\ frozen' = [frozen EXCEPT !.e = [state |-> "sealed", intact |-> TRUE,
                             figures |-> docs'.figures, ledger |-> main.docs.ledger]]
    <3> DEFINE e == [state |-> "sealed", intact |-> TRUE,
                     figures |-> docs'.figures, ledger |-> main.docs.ledger]
    <3>1. /\ e \in VisualEvidence /\ e.figures = Redrawn /\ e.ledger = main.docs.ledger
      BY <1>2, <1>3 DEF VisualEvidence, States
    <3>2. docs.charts = docs.ledger.facts /\ docs.ledger = main.docs.ledger
      BY <2>2 DEF VisualHolds, VisualAuthorityHolds, AsMerged
    <3>3. \A part \in {"source", "outcome", "asset"} : e.figures[part] = e.ledger.facts
      <4>1. /\ Redrawn.source = docs.charts /\ Redrawn.outcome = docs.ledger.facts
            /\ Redrawn.asset = docs.charts
        BY <1>2, DrawnFacts DEF Redrawn
      <4> HIDE DEF e
      <4> QED
        BY <3>1, <3>2, <4>1
    <3>4. frozen' = [frozen EXCEPT !.e = e]
      BY <2>2
    <3> HIDE DEF e
    <3>5. frozen' \in Frozen /\ frozen'.e = e /\ UNCHANGED <<frozen.c, frozen.d>>
      BY <1>2, <3>1, <3>4 DEF Frozen
    <3> QED
      BY <3>3, <3>5
      DEF IInv, CommitInv, ChainInv, Claims, AgentEvidenceMatches, FiguresShowLedger
  <2>3. CASE frozen' = [frozen EXCEPT !.e.state = "part"]
    <3> DEFINE e == [frozen.e EXCEPT !.state = "part"]
    <3>1. e \in VisualEvidence /\ e.state = "part"
      BY <1>2 DEF VisualEvidence, States
    <3>2. frozen' = [frozen EXCEPT !.e = e]
      BY <2>3, <1>2 DEF Frozen
    <3> HIDE DEF e
    <3>3. frozen' \in Frozen /\ frozen'.e = e /\ UNCHANGED <<frozen.c, frozen.d>>
      BY <1>2, <3>1, <3>2 DEF Frozen
    <3> QED
      BY <3>1, <3>3
      DEF IInv, CommitInv, ChainInv, Claims, AgentEvidenceMatches, FiguresShowLedger
  <2> QED
    BY <2>1, <2>2, <2>3 DEF FreezeVisual
<1> QED
  BY <1>1, <1>3, <1>4, EvidenceWritten

LEMMA FreezeDemoInv == IInv /\ FreezeDemo => IInv'
<1> SUFFICES ASSUME IInv, FreezeDemo PROVE IInv'
  OBVIOUS
<1>1. /\ UNCHANGED <<source, roots, docs, results, main, runs>> /\ (UNCHANGED touches \/ Touch)
  BY DEF FreezeDemo
<1>2. /\ docs \in Documents /\ frozen \in Frozen /\ docs.figures \in FigureSets
      /\ frozen.f \in DemoEvidence
  BY DocumentFacts, FrozenFacts DEF IInv, Types
<1>3. frozen' \in Frozen /\ UNCHANGED <<frozen.c, frozen.d, frozen.e>>
  <2>1. CASE frozen' = [frozen EXCEPT !.f = [state |-> "sealed", figures |-> docs.figures]]
    <3>1. [state |-> "sealed", figures |-> docs.figures] \in DemoEvidence
      BY <1>2 DEF DemoEvidence, States
    <3> QED
      BY <1>2, <2>1, <3>1 DEF Frozen
  <2>2. CASE frozen' = [frozen EXCEPT !.f.state = "part"]
    <3>1. [frozen.f EXCEPT !.state = "part"] \in DemoEvidence
      BY <1>2 DEF DemoEvidence, States
    <3> QED
      BY <1>2, <2>2, <3>1 DEF Frozen
  <2> QED
    BY <2>1, <2>2 DEF FreezeDemo
<1>4. frozen'.c.commit <= main.base /\ ChainInv' /\ Claims'
  BY <1>3 DEF IInv, CommitInv, ChainInv, Claims, AgentEvidenceMatches, FiguresShowLedger
<1> QED
  BY <1>1, <1>2, <1>3, <1>4, EvidenceWritten

LEMMA EditEvidenceInv ==
  ASSUME IInv, NEW x \in {"c", "d", "e"}, EditEvidence(x) PROVE IInv'
<1>1. /\ UNCHANGED <<source, roots, docs, results, main, runs>> /\ Touch
      /\ frozen' = [frozen EXCEPT ![x].intact = FALSE]
  BY DEF EditEvidence
<1>2. /\ docs \in Documents /\ frozen \in Frozen
      /\ frozen.c \in ReportEvidence /\ frozen.d \in AgentEvidence /\ frozen.e \in VisualEvidence
  BY FrozenFacts DEF IInv, Types
<1>3. /\ frozen' \in Frozen
      /\ UNCHANGED <<frozen.c.state, frozen.c.commit, frozen.c.ledger>>
      /\ UNCHANGED <<frozen.d.state, frozen.d.registries, frozen.d.base, frozen.d.ledger>>
      /\ UNCHANGED <<frozen.e.state, frozen.e.figures, frozen.e.ledger>>
  <2>1. CASE x = "c"
    <3>1. [frozen.c EXCEPT !.intact = FALSE] \in ReportEvidence
      BY <1>2 DEF ReportEvidence
    <3>2. frozen' = [frozen EXCEPT !.c = [frozen.c EXCEPT !.intact = FALSE]]
      BY <1>1, <1>2, <2>1 DEF Frozen
    <3> QED
      BY <1>2, <3>1, <3>2 DEF Frozen, ReportEvidence
  <2>2. CASE x = "d"
    <3>1. [frozen.d EXCEPT !.intact = FALSE] \in AgentEvidence
      BY <1>2 DEF AgentEvidence
    <3>2. frozen' = [frozen EXCEPT !.d = [frozen.d EXCEPT !.intact = FALSE]]
      BY <1>1, <1>2, <2>2 DEF Frozen
    <3> QED
      BY <1>2, <3>1, <3>2 DEF Frozen, AgentEvidence
  <2>3. CASE x = "e"
    <3>1. [frozen.e EXCEPT !.intact = FALSE] \in VisualEvidence
      BY <1>2 DEF VisualEvidence
    <3>2. frozen' = [frozen EXCEPT !.e = [frozen.e EXCEPT !.intact = FALSE]]
      BY <1>1, <1>2, <2>3 DEF Frozen
    <3> QED
      BY <1>2, <3>1, <3>2 DEF Frozen, VisualEvidence
  <2> QED
    BY <2>1, <2>2, <2>3
<1>4. frozen'.c.commit <= main.base /\ ChainInv' /\ Claims'
  BY <1>3 DEF IInv, CommitInv, ChainInv, Claims, AgentEvidenceMatches, FiguresShowLedger
<1> QED
  BY <1>1, <1>2, <1>3, <1>4, EvidenceWritten

LEMMA RunDemoInv ==
  ASSUME IInv, NEW file \in Files, NEW profile \in {"QUICK_DEMO", "FALLBACK_DEMO"},
         RunDemo(file, profile)
  PROVE  IInv'
<1>1. /\ UNCHANGED <<source, roots, docs, results, main, frozen, touches>>
      /\ runs' = [runs EXCEPT ![file] = [profile |-> profile,
                    traces |-> IF profile = "QUICK_DEMO" THEN docs.traces ELSE 0]]
  BY DEF RunDemo
<1>2. [profile |-> profile, traces |-> IF profile = "QUICK_DEMO" THEN docs.traces ELSE 0]
        \in [profile : Profiles, traces : Facts]
  BY DocumentFacts, BoundFacts DEF IInv, Types, Profiles
<1>3. runs' \in [Files -> [profile : Profiles, traces : Facts]]
  BY <1>1, <1>2 DEF IInv, Types
<1>4. Types' /\ CommitInv'
  BY <1>1, <1>3 DEF IInv, Types, CommitInv
<1> QED
  BY <1>1, <1>4, SameEvidence DEF IInv

LEMMA MergeInv == IInv /\ Merge => IInv'
<1> SUFFICES ASSUME IInv, Merge PROVE IInv'
  OBVIOUS
<1>1. /\ UNCHANGED <<source, roots, docs, results, frozen, runs, touches>>
      /\ main.base <= MaxMerges
      /\ main' = [base |-> main.base + 1, source |-> source, roots |-> roots,
                  docs |-> docs, c |-> frozen.c]
  BY DEF Merge
<1>2. /\ main.base \in Commits \ {0} /\ docs.ledger.commit \in Commits
      /\ frozen.c.commit \in Commits /\ frozen.c \in ReportEvidence
  BY MainFacts, FrozenFacts, DocumentFacts, LedgerFacts DEF IInv, Types
<1>3. main.base + 1 \in Commits \ {0} /\ main.base \in Nat
  BY <1>1, <1>2, BoundFacts DEF Commits
<1>4. Types'
  BY <1>1, <1>2, <1>3 DEF IInv, Types, Mains
<1>5. CommitInv'
  <2>1. docs.ledger.commit <= main.base + 1 /\ frozen.c.commit <= main.base + 1
    <3>1. docs.ledger.commit <= main.base /\ frozen.c.commit <= main.base
      BY DEF IInv, CommitInv
    <3>2. docs.ledger.commit \in Nat /\ frozen.c.commit \in Nat
      BY <1>2, BoundFacts
    <3> QED
      BY <1>3, <3>1, <3>2
  <2>2. main'.base = main.base + 1 /\ docs' = docs /\ frozen' = frozen
    BY <1>1
  <2>3. docs'.ledger.commit <= main'.base /\ frozen'.c.commit <= main'.base
    BY <2>1, <2>2
  <2> QED
    BY <2>3 DEF CommitInv
<1> QED
  BY <1>1, <1>4, <1>5, SameEvidence DEF IInv

LEMMA CommitSourceInv == IInv /\ CommitSource => IInv'
<1> SUFFICES ASSUME IInv, CommitSource PROVE IInv'
  OBVIOUS
<1>1. UNCHANGED <<roots, docs, results, main, frozen, runs>> /\ Touch
  BY DEF CommitSource
<1>2. touches' \in 0..MaxTouches
  BY <1>1, TouchFacts
<1>3. source' \in Revisions
  <2>1. PICK f \in SourceFiles, revision \in Sources : source' = [source EXCEPT ![f] = revision]
    BY DEF CommitSource
  <2> QED
    BY <2>1 DEF IInv, Types, Revisions
<1>4. Types' /\ CommitInv'
  BY <1>1, <1>2, <1>3 DEF IInv, Types, CommitInv
<1> QED
  BY <1>1, <1>4, SameEvidence DEF IInv

LEMMA EditRootsInv == IInv /\ EditRoots => IInv'
<1> SUFFICES ASSUME IInv, EditRoots PROVE IInv'
  OBVIOUS
<1>1. /\ UNCHANGED <<source, docs, results, main, frozen, runs>> /\ Touch
      /\ roots' \in {"edited", "resummed"}
  BY DEF EditRoots
<1>2. touches' \in 0..MaxTouches
  BY <1>1, TouchFacts
<1>3. Types' /\ CommitInv'
  BY <1>1, <1>2 DEF IInv, Types, CommitInv, Roots
<1> QED
  BY <1>1, <1>2, <1>3, SameEvidence DEF IInv

-----------------------------------------------------------------------------
LEMMA InitInv == Init => IInv
<1> SUFFICES ASSUME Init PROVE IInv
  OBVIOUS
<1>1. /\ source \in Revisions /\ roots = "frozen" /\ touches = 0
      /\ runs = [f \in Files |-> NotRun]
  BY BoundFacts DEF Init, Revisions
<1>2. docs \in Documents /\ docs.ledger = None
  BY BoundFacts DEF Init, Documents
<1>3. results \in ResultFiles
  BY BoundFacts DEF Init, ResultFiles
<1>4. /\ frozen.c \in ReportEvidence /\ frozen \in Frozen /\ frozen.c.commit = 0
      /\ frozen.c.state = "none" /\ frozen.d.state = "none" /\ frozen.e.state = "none"
  BY BoundFacts
  DEF Init, Frozen, ReportEvidence, AgentEvidence, VisualEvidence, DemoEvidence, States
<1>5. main \in Mains /\ main.base = 1
  <2>1. main = [base |-> 1, source |-> source, roots |-> roots, docs |-> docs, c |-> frozen.c]
    BY DEF Init
  <2> QED
    BY <1>1, <1>2, <1>4, <2>1, BoundFacts DEF Mains, Roots
<1>6. runs \in [Files -> [profile : Profiles, traces : Facts]]
  BY <1>1, BoundFacts DEF NotRun, Profiles
<1>7. touches \in 0..MaxTouches /\ source \in Revisions
  BY <1>1, BoundFacts
<1>8. CommitInv
  BY <1>2, <1>4, <1>5 DEF CommitInv, None
<1> QED
  BY <1>1, <1>2, <1>3, <1>4, <1>5, <1>6, <1>7, <1>8
  DEF IInv, Types, Roots, ChainInv, Claims, AgentEvidenceMatches, FiguresShowLedger

LEMMA StutterInv == IInv /\ UNCHANGED vars => IInv'
<1> SUFFICES ASSUME IInv, UNCHANGED vars PROVE IInv'
  OBVIOUS
<1>1. UNCHANGED <<source, roots, docs, results, main, frozen, runs, touches>>
  BY DEF vars
<1> QED
  BY <1>1 DEF IInv, Types, CommitInv, ChainInv, Claims, AgentEvidenceMatches,
      FiguresShowLedger

LEMMA StepInv == IInv /\ [Next]_vars => IInv'
<1> SUFFICES ASSUME IInv, [Next]_vars PROVE IInv'
  OBVIOUS
<1>1. CASE BuildReports
  BY <1>1, BuildReportsInv
<1>2. CASE VerifyReports
  BY <1>2, VerifyReportsInv
<1>3. CASE StageReports
  BY <1>3, StageReportsInv
<1>4. CASE FreezeReports
  BY <1>4, FreezeReportsInv
<1>5. CASE BuildAgentAuthority \/ BuildRegistries \/ BuildTraces \/ BuildAgentDocs
  BY <1>5, AgentDocumentInv
<1>6. CASE FreezeAgent
  BY <1>6, FreezeAgentInv
<1>7. CASE BuildVisualAuthority \/ BuildFigures \/ BuildInnovation \/ BuildNarrative
  BY <1>7, VisualDocumentInv
<1>8. CASE FreezeVisual
  BY <1>8, FreezeVisualInv
<1>9. CASE BuildDemo \/ BuildStoryboard \/ BuildPresentation
  BY <1>9, DemoDocumentInv
<1>10. CASE FreezeDemo
  BY <1>10, FreezeDemoInv
<1>11. CASE \E file \in Files, profile \in {"QUICK_DEMO", "FALLBACK_DEMO"} : RunDemo(file, profile)
  BY <1>11, RunDemoInv
<1>12. CASE Merge
  BY <1>12, MergeInv
<1>13. CASE CommitSource
  BY <1>13, CommitSourceInv
<1>14. CASE EditRoots
  BY <1>14, EditRootsInv
<1>15. CASE EditDocument
  BY <1>15, EditDocumentInv
<1>16. CASE \E x \in {"c", "d", "e"} : EditEvidence(x)
  BY <1>16, EditEvidenceInv
<1>17. CASE UNCHANGED vars
  BY <1>17, StutterInv
<1> QED
  BY <1>1, <1>2, <1>3, <1>4, <1>5, <1>6, <1>7, <1>8, <1>9, <1>10, <1>11, <1>12, <1>13, <1>14,
     <1>15, <1>16, <1>17 DEF Next

-----------------------------------------------------------------------------
(***************************************************************************)
(* The theorems.                                                           *)
(***************************************************************************)

(* However the commands, edits and merges are interleaved, the inductive   *)
(* invariant holds.                                                        *)
THEOREM Invariance == Spec => []IInv
<1>1. Init => IInv
  BY InitInv
<1>2. IInv /\ [Next]_vars => IInv'
  BY StepInv
<1> QED
  BY <1>1, <1>2, PTL DEF Spec

(* Every document and evidence keeps its type, and none names a commit     *)
(* that main does not have: a frozen commit is only ever one main reached. *)
THEOREM TypeCorrectness == Spec => []TypeOK
<1>1. IInv => TypeOK
  BY TypesAreTypes DEF IInv
<1> QED
  BY <1>1, Invariance, PTL

(* finalize.py of agent_delivery: sealed G3-D evidence counts no prompt or *)
(* skill but as main had it then, under the ledger that G3-C froze.        *)
THEOREM AgentEvidenceIsMatched == Spec => []AgentEvidenceMatches
<1>1. IInv => AgentEvidenceMatches
  BY DEF IInv, Claims
<1> QED
  BY <1>1, Invariance, PTL

(* finalize.py of visualization: every number the frozen figures show is   *)
(* that of the ledger main held at the freeze.                             *)
THEOREM FiguresAreOfTheLedger == Spec => []FiguresShowLedger
<1>1. IInv => FiguresShowLedger
  BY DEF IInv, Claims
<1> QED
  BY <1>1, Invariance, PTL

-----------------------------------------------------------------------------
(* Only a build and an edit by hand change the ledger.                     *)
LEMMA LedgerSteps ==
  ASSUME IInv, [Next]_vars
  PROVE  \/ docs'.ledger = docs.ledger
         \/ docs'.ledger = Ledger
         \/ docs'.ledger.facts = 3
<1> DEFINE Kept == docs'.ledger = docs.ledger
<1>1. docs \in Documents
  BY DEF IInv, Types
<1>2. CASE BuildReports
  BY <1>1, <1>2 DEF BuildReports, Built, Documents
<1>3. CASE EditDocument
  BY <1>1, <1>3 DEF EditDocument, Documents, Ledgers
<1>4. CASE BuildAgentAuthority \/ BuildRegistries \/ BuildTraces \/ BuildAgentDocs
  BY <1>1, <1>4
  DEF BuildAgentAuthority, BuildRegistries, BuildTraces, BuildAgentDocs, Document, Documents
<1>5. CASE BuildVisualAuthority \/ BuildFigures \/ BuildInnovation \/ BuildNarrative
  BY <1>1, <1>5
  DEF BuildVisualAuthority, BuildFigures, BuildInnovation, BuildNarrative, Document, Documents
<1>6. CASE BuildDemo \/ BuildStoryboard \/ BuildPresentation
  BY <1>1, <1>6 DEF BuildDemo, BuildStoryboard, BuildPresentation, Document, Documents
<1>7. CASE FreezeVisual
  BY <1>1, <1>7 DEF FreezeVisual, Documents
<1>8. CASE VerifyReports \/ StageReports \/ FreezeReports \/ FreezeAgent \/ FreezeDemo
  BY <1>8 DEF VerifyReports, StageReports, FreezeReports, FreezeAgent, FreezeDemo
<1>9. CASE \E file \in Files, profile \in {"QUICK_DEMO", "FALLBACK_DEMO"} : RunDemo(file, profile)
  BY <1>9 DEF RunDemo
<1>10. CASE Merge \/ CommitSource \/ EditRoots \/ \E x \in {"c", "d", "e"} : EditEvidence(x)
  BY <1>10 DEF Merge, CommitSource, EditRoots, EditEvidence
<1>11. CASE UNCHANGED vars
  BY <1>11 DEF vars
<1> QED
  BY <1>2, <1>3, <1>4, <1>5, <1>6, <1>7, <1>8, <1>9, <1>10, <1>11 DEF Next

(* evidence_reader.source_commit: once the reports are frozen, a build     *)
(* from unchanged evidence gives the ledger that was frozen, however many  *)
(* merges came between, since the frozen commit stands in for the base.    *)
THEOREM RebuildsReproduce == Spec => RebuildReproduces
<1> DEFINE A == (/\ frozen.c.state = "sealed" /\ docs'.ledger # docs.ledger
                 /\ docs'.ledger.facts # 3
                 /\ frozen.c.ledger = [facts |-> Value, commit |-> frozen.c.commit])
                => docs'.ledger = frozen.c.ledger
<1>1. IInv /\ [Next]_vars => [A]_vars
  <2> SUFFICES ASSUME IInv, [Next]_vars, frozen.c.state = "sealed",
                      docs'.ledger # docs.ledger, docs'.ledger.facts # 3,
                      frozen.c.ledger = [facts |-> Value, commit |-> frozen.c.commit]
               PROVE  docs'.ledger = frozen.c.ledger
    BY Zenon
  <2>1. docs'.ledger = Ledger
    BY LedgerSteps
  <2>2. frozen.c.commit # 0
    BY DEF IInv, ChainInv
  <2> QED
    BY <2>1, <2>2 DEF Ledger, SourceCommit
<1> QED
  BY <1>1, Invariance, PTL DEF RebuildReproduces, Spec
=============================================================================
